----------------------------- MODULE Desk_proofs -----------------------------
(***************************************************************************)
(* Proofs about Desk, for any number of windows, notes and mishaps, and    *)
(* any sizes: what a delete takes off a desk, what a lone window keeps in  *)
(* its file, and where the notes of windows on a Keel API are.             *)
(***************************************************************************)
EXTENDS Desk, FunctionTheorems, FiniteSetTheorems, SequenceTheorems,
        WellFoundedInduction, TLAPS

Row == [id : Nat, key : Nat, text : Texts \cup {"none"}]

-----------------------------------------------------------------------------
(* Going through the rows, one after another                               *)

\* What holds before the first row, and with a row when it holds with the
\* one before, holds with every row.
LEMMA OneByOne ==
  ASSUME NEW N \in Nat, NEW S, 0 \in S, \A i \in 1 .. N : i - 1 \in S => i \in S
  PROVE  \A i \in 0 .. N : i \in S
  <1> DEFINE Less == {ss \in Nat \X Nat : ss[1] < ss[2]}
             bad == {i \in 0 .. N : i \notin S}
  <1>1. OpToRel(<, Nat) = Less
    BY Zenon DEF OpToRel
  <1>2. IsWellFoundedOn(Less, Nat)
    BY <1>1, NatLessThanWellFounded, Zenon
  <1>3. ASSUME bad # {} PROVE FALSE
    <2>1. bad \subseteq Nat
      OBVIOUS
    <2>2. PICK i \in bad : \A j \in bad : ~ (<<j, i>> \in Less)
      <3> HIDE DEF Less, bad
      <3>1. QED
        BY <1>2, <1>3, <2>1, WFMin
    <2>3. i \in 1 .. N /\ i - 1 \in 0 .. N
      OBVIOUS
    <2>4. i - 1 \notin bad
      <3>1. <<i - 1, i>> \in Less
        BY <2>3
      <3>2. QED
        BY <2>2, <3>1
    <2>5. QED
      BY <2>3, <2>4
  <1>4. QED
    BY <1>3

\* The states f that a loop goes through in n steps.
Runs(f, n, T, base, step) ==
  /\ f \in [0 .. n -> T] /\ f[0] = base
  /\ \A i \in 1 .. n : f[i] = step[i][f[i - 1]]

StepsOf(N, T) == [1 .. N -> [T -> T]]

LEMMA LoopRuns ==
  ASSUME NEW N \in Nat, NEW T, NEW base \in T, NEW step \in StepsOf(N, T)
  PROVE  \E f : Runs(f, N, T, base, step)
  <1> DEFINE S == {n \in 0 .. N : \E f : Runs(f, n, T, base, step)}
  <1>1. 0 \in S
    <2> DEFINE g == [i \in 0 .. 0 |-> base]
    <2>1. Runs(g, 0, T, base, step)
      BY DEF Runs
    <2> HIDE DEF g
    <2>2. QED
      BY <2>1
  <1>2. ASSUME NEW n \in 1 .. N, n - 1 \in S PROVE n \in S
    <2>1. PICK f : Runs(f, n - 1, T, base, step)
      BY <1>2
    <2> DEFINE g == [i \in 0 .. n |-> IF i = n THEN step[n][f[n - 1]] ELSE f[i]]
    <2>2. f[n - 1] \in T
      BY <2>1 DEF Runs
    <2>3. step[n][f[n - 1]] \in T
      BY <2>2 DEF StepsOf
    <2>4. g \in [0 .. n -> T]
      BY <2>1, <2>3 DEF Runs
    <2>5. g[0] = base
      BY <2>1 DEF Runs
    <2>6. ASSUME NEW i \in 1 .. n PROVE g[i] = step[i][g[i - 1]]
      <3>1. i - 1 \in 0 .. n - 1 /\ g[i - 1] = f[i - 1]
        OBVIOUS
      <3>2. CASE i = n
        <4>1. n \in 0 .. n
          OBVIOUS
        <4>2. g[n] = step[n][f[n - 1]]
          BY <4>1
        <4> HIDE DEF g
        <4>3. QED
          BY <3>1, <3>2, <4>2
      <3>3. CASE i # n
        <4>1. i \in 1 .. n - 1
          BY <3>3
        <4>2. g[i] = f[i] /\ f[i] = step[i][f[i - 1]]
          BY <2>1, <4>1 DEF Runs
        <4>3. QED
          BY <3>1, <4>2
      <3>4. QED
        BY <3>2, <3>3
    <2> HIDE DEF g
    <2>7. Runs(g, n, T, base, step)
      BY <2>4, <2>5, <2>6 DEF Runs
    <2>8. QED
      BY <2>7
  <1>3. N \in S
    <2> HIDE DEF S
    <2>1. \A i \in 0 .. N : i \in S
      BY <1>1, <1>2, OneByOne
    <2>2. QED
      BY <2>1
  <1>4. QED
    BY <1>3

-----------------------------------------------------------------------------
(* ui_delete_id                                                            *)

Moves(rs) == [rs : [1 .. Len(rs) -> Row], w : Nat]

LEMMA MovedType ==
  ASSUME NEW rs \in Seq(Row), NEW k, NEW t \in Moves(rs), NEW i \in 1 .. Len(rs)
  PROVE  Moved(t, k, i) \in Moves(rs)
  <1>1. t.rs[i] \in Row /\ t.w + 1 \in Nat /\ t.rs \in [1 .. Len(rs) -> Row]
    BY DEF Moves
  <1>2. [t.rs EXCEPT ![t.w + 1] = t.rs[i]] \in [1 .. Len(rs) -> Row]
    BY <1>1
  <1>3. QED
    BY <1>1, <1>2 DEF Moves, Moved

\* The loop over the rows, from one to the next.
LEMMA CompactedRuns ==
  ASSUME NEW rs \in Seq(Row), NEW k \in 1 .. Len(rs)
  PROVE  \E t \in [0 .. Len(rs) -> Moves(rs)] :
           /\ t[0] = [rs |-> rs, w |-> 0]
           /\ \A i \in 1 .. Len(rs) : t[i] = Moved(t[i - 1], k, i)
           /\ Compacted(rs, k) = SubSeq(t[Len(rs)].rs, 1, t[Len(rs)].w)
  <1> DEFINE N == Len(rs)
             M == Moves(rs)
             base == [rs |-> rs, w |-> 0]
             step == [i \in 1 .. N |-> [x \in M |-> Moved(x, k, i)]]
             Eq(f) == f = [i \in 0 .. N |-> IF i = 0 THEN base ELSE Moved(f[i - 1], k, i)]
             t == CHOOSE f : Eq(f)
  <1>1. N \in Nat /\ base \in M
    BY DEF Moves
  <1>2. step \in StepsOf(N, M)
    BY MovedType DEF StepsOf
  <1>3. PICK f : Runs(f, N, M, base, step)
    <2> HIDE DEF M, step, base, N, Eq
    <2>1. QED
      BY <1>1, <1>2, LoopRuns
  <1>4. f \in [0 .. N -> M] /\ f[0] = base
    <2> HIDE DEF M, step, base, N, Eq
    <2>1. QED
      BY <1>3 DEF Runs
  <1>5. ASSUME NEW i \in 1 .. N PROVE f[i] = Moved(f[i - 1], k, i)
    <2>1. f[i] = step[i][f[i - 1]]
      <3> HIDE DEF M, N, step, base
      <3>1. QED
        BY <1>1, <1>3 DEF Runs
    <2>2. f[i - 1] \in M
      <3> HIDE DEF M, N, step, base
      <3>1. QED
        BY <1>1, <1>4
    <2> HIDE DEF M, N
    <2>3. QED
      BY <2>1, <2>2
  <1>6. Eq(f)
    <2> HIDE DEF M, base, step, N
    <2>1. QED
      BY <1>1, <1>4, <1>5
  <1>7. Eq(t)
    <2> HIDE DEF Eq
    <2>1. QED
      BY <1>6
  <1>8. Compacted(rs, k) = SubSeq(t[N].rs, 1, t[N].w)
    BY DEF Compacted
  <1> HIDE DEF t
  <1>9. t[0] = base /\ \A i \in 1 .. N : t[i] = Moved(t[i - 1], k, i)
    <2> HIDE DEF base, N
    <2>1. QED
      BY <1>1, <1>7
  <1>10. \A i \in 0 .. N : t[i] \in M
    <2> DEFINE S == {i \in 0 .. N : t[i] \in M}
    <2>1. 0 \in S
      BY <1>1, <1>9
    <2>2. \A i \in 1 .. N : i - 1 \in S => i \in S
      BY <1>1, <1>9, MovedType
    <2>3. \A i \in 0 .. N : i \in S
      <3> HIDE DEF S, N
      <3>1. QED
        BY <1>1, <2>1, <2>2, OneByOne
    <2>4. QED
      BY <2>3
  <1>11. t \in [0 .. N -> M]
    <2> HIDE DEF M, base, N
    <2>1. QED
      BY <1>7, <1>10
  <1>12. QED
    BY <1>8, <1>9, <1>11

LEMMA Removed ==
  ASSUME NEW S, NEW s \in Seq(S), NEW i \in 1 .. Len(s)
  PROVE  /\ RemoveAt(s, i) \in Seq(S) /\ Len(RemoveAt(s, i)) = Len(s) - 1
         /\ \A j \in 1 .. Len(s) - 1 :
              RemoveAt(s, i)[j] = IF j < i THEN s[j] ELSE s[j + 1]
  <1> DEFINE before == SubSeq(s, 1, i - 1)
             behind == SubSeq(s, i + 1, Len(s))
  <1>1. /\ before \in Seq(S) /\ Len(before) = i - 1
        /\ \A j \in 1 .. i - 1 : before[j] = s[j]
    BY SubSeqProperties
  <1>2. /\ behind \in Seq(S) /\ Len(behind) = Len(s) - i
        /\ \A j \in 1 .. Len(s) - i : behind[j] = s[i + j]
    BY SubSeqProperties
  <1> HIDE DEF before, behind
  <1>3. /\ (before \o behind) \in Seq(S)
        /\ Len(before \o behind) = Len(before) + Len(behind)
        /\ \A j \in 1 .. Len(before) + Len(behind) :
             (before \o behind)[j] = IF j <= Len(before) THEN before[j]
                                     ELSE behind[j - Len(before)]
    BY <1>1, <1>2, ConcatProperties
  <1> DEFINE less == before \o behind
  <1> HIDE DEF less
  <1>4. Len(s) \in Nat /\ i \in 1 .. Len(s)
    BY LenProperties
  <1>5. less \in Seq(S) /\ Len(less) = Len(s) - 1
    BY <1>1, <1>2, <1>3, <1>4 DEF less
  <1>6. ASSUME NEW j \in 1 .. Len(s) - 1
        PROVE  less[j] = IF j < i THEN s[j] ELSE s[j + 1]
    <2>1. less[j] = IF j <= i - 1 THEN before[j] ELSE behind[j - (i - 1)]
      BY <1>1, <1>2, <1>3, <1>4 DEF less
    <2>2. CASE j < i
      BY <1>1, <1>4, <2>1, <2>2
    <2>3. CASE ~(j < i)
      <3>1. j - (i - 1) \in 1 .. Len(s) - i /\ i + (j - (i - 1)) = j + 1
        BY <1>4, <2>3
      <3>2. behind[j - (i - 1)] = s[j + 1]
        BY <1>2, <3>1
      <3>3. QED
        BY <1>4, <2>1, <2>3, <3>2
    <2>4. QED
      BY <2>2, <2>3
  <1>7. RemoveAt(s, i) = less
    BY DEF RemoveAt, before, behind, less
  <1>8. QED
    BY <1>5, <1>6, <1>7

\* No id stands on two rows, but for the rows that have none.
Told(rs) == \A m, n \in 1 .. Len(rs) : m # n /\ rs[m].id # 0 => rs[m].id # rs[n].id

(* What the loop has made of the rows rs, k being the one to go, after i   *)
(* of them: the kept ones are at the head and the others where they were.  *)
Kept(rs, k, t, i) ==
  /\ t.w \in 0 .. i
  /\ \A j \in i + 1 .. Len(rs) : t.rs[j] = rs[j]
  /\ \A n \in 1 .. t.w : \E m \in 1 .. i : m # k /\ t.rs[n] = rs[m]
  /\ \A m \in 1 .. i : m # k /\ rs[m].id # 0 => \E n \in 1 .. t.w : t.rs[n] = rs[m]
  /\ \A m, n \in 1 .. t.w : m # n /\ t.rs[m].id # 0 => t.rs[m].id # t.rs[n].id

\* Where the loop reads the id, it finds that of the row to go, or the next.
Aliased(rs, k, t, i) ==
  IF i <= k THEN t.rs = rs /\ t.w = IF i = k THEN k - 1 ELSE i
  ELSE t.w >= k /\ t.rs[k] = rs[k + 1]

\* With an id on the next row every other one moves up by one place.
Shifted(rs, k, t, i) ==
  i > k /\ rs[k + 1].id # 0 =>
    /\ t.w = i - 1
    /\ \A j \in 1 .. i - 1 : t.rs[j] = IF j < k THEN rs[j] ELSE rs[j + 1]

\* A row that is kept, and is not the one to go.
LEMMA MovesUp ==
  ASSUME NEW rs \in Seq(Row), NEW k \in 1 .. Len(rs), Told(rs),
         NEW t \in Moves(rs), NEW i \in 1 .. Len(rs), i # k, Kept(rs, k, t, i - 1),
         NEW u, u = [rs |-> [t.rs EXCEPT ![t.w + 1] = rs[i]], w |-> t.w + 1]
  PROVE  Kept(rs, k, u, i)
  <1> DEFINE N == Len(rs)
  <1>1. /\ N \in Nat /\ \A n \in 1 .. N : rs[n] \in Row
        /\ t.rs \in [1 .. N -> Row] /\ t.w \in 0 .. i - 1
    BY DEF Moves, Kept
  <1> HIDE DEF N
  <1>2. /\ u.w = t.w + 1 /\ u.w \in 1 .. i /\ i \in 1 .. N
        /\ \A n \in 1 .. N : u.rs[n] = IF n = t.w + 1 THEN rs[i] ELSE t.rs[n]
    BY <1>1 DEF N
  <1>3. \A j \in i + 1 .. N : u.rs[j] = rs[j]
    BY <1>1, <1>2 DEF Kept, N
  <1>4. \A n \in 1 .. u.w : \E m \in 1 .. i : m # k /\ u.rs[n] = rs[m]
    <2>1. ASSUME NEW n \in 1 .. t.w PROVE \E m \in 1 .. i : m # k /\ u.rs[n] = rs[m]
      <3>1. PICK m \in 1 .. i - 1 : m # k /\ t.rs[n] = rs[m]
        BY DEF Kept
      <3>2. m \in 1 .. i /\ n \in 1 .. N /\ n # t.w + 1
        BY <1>1, <1>2
      <3>3. QED
        BY <1>2, <3>1, <3>2
    <2>2. u.rs[t.w + 1] = rs[i] /\ i \in 1 .. i
      BY <1>1, <1>2
    <2>3. \A n \in 1 .. u.w : n \in 1 .. t.w \/ n = t.w + 1
      BY <1>1, <1>2
    <2>4. ASSUME NEW n \in 1 .. u.w PROVE \E m \in 1 .. i : m # k /\ u.rs[n] = rs[m]
      <3>1. CASE n \in 1 .. t.w
        BY <2>1, <3>1
      <3>2. CASE n = t.w + 1
        BY <2>2, <3>2
      <3>3. QED
        BY <2>3, <3>1, <3>2
    <2>5. QED
      BY <2>4
  <1>5. ASSUME NEW m \in 1 .. i, m # k, rs[m].id # 0 PROVE \E n \in 1 .. u.w : u.rs[n] = rs[m]
    <2>1. CASE m = i
      <3>1. t.w + 1 \in 1 .. u.w /\ u.rs[t.w + 1] = rs[i]
        BY <1>1, <1>2
      <3>2. QED
        BY <2>1, <3>1
    <2>2. CASE m # i
      <3>1. m \in 1 .. i - 1
        BY <2>2
      <3>2. PICK n \in 1 .. t.w : t.rs[n] = rs[m]
        BY <1>5, <3>1 DEF Kept
      <3>3. n \in 1 .. u.w /\ n \in 1 .. N /\ n # t.w + 1
        BY <1>1, <1>2
      <3>4. QED
        BY <1>2, <3>2, <3>3
    <2>3. QED
      BY <2>1, <2>2
  <1>6. ASSUME NEW m \in 1 .. u.w, NEW n \in 1 .. u.w, m # n, u.rs[m].id # 0
        PROVE  u.rs[m].id # u.rs[n].id
    <2>0. \A j \in 1 .. u.w : j \in 1 .. t.w \/ j = t.w + 1
      BY <1>1, <1>2
    <2>1. u.rs[t.w + 1] = rs[i] /\ \A j \in 1 .. t.w : u.rs[j] = t.rs[j]
      BY <1>1, <1>2
    <2>2. \A j \in 1 .. t.w : \E l \in 1 .. i - 1 : t.rs[j] = rs[l]
      BY DEF Kept
    <2>3. \A l \in 1 .. i - 1 : rs[l].id = rs[i].id => rs[l].id = 0 /\ rs[i].id = 0
      BY <1>2 DEF Told, N
    <2>4. CASE m \in 1 .. t.w /\ n \in 1 .. t.w
      <3>1. \A a, b \in 1 .. t.w : a # b /\ t.rs[a].id # 0 => t.rs[a].id # t.rs[b].id
        BY DEF Kept
      <3>2. u.rs[m] = t.rs[m] /\ u.rs[n] = t.rs[n]
        BY <2>1, <2>4
      <3>3. QED
        BY <1>6, <2>4, <3>1, <3>2
    <2>5. CASE m = t.w + 1 /\ n \in 1 .. t.w
      <3>1. u.rs[m] = rs[i] /\ u.rs[n] = t.rs[n]
        BY <2>1, <2>5
      <3>2. QED
        BY <1>6, <2>2, <2>3, <2>5, <3>1
    <2>6. CASE n = t.w + 1 /\ m \in 1 .. t.w
      <3>1. u.rs[n] = rs[i] /\ u.rs[m] = t.rs[m]
        BY <2>1, <2>6
      <3>2. QED
        BY <1>6, <2>2, <2>3, <2>6, <3>1
    <2>7. QED
      BY <1>6, <2>0, <2>4, <2>5, <2>6
  <1>7. QED
    BY <1>2, <1>3, <1>4, <1>5, <1>6 DEF Kept, N

LEMMA MovedKeeps ==
  ASSUME NEW rs \in Seq(Row), NEW k \in 1 .. Len(rs), Told(rs), rs[k].id # 0,
         NEW t \in Moves(rs), NEW i \in 1 .. Len(rs),
         Kept(rs, k, t, i - 1), Aliased(rs, k, t, i - 1), Shifted(rs, k, t, i - 1)
  PROVE  /\ Kept(rs, k, Moved(t, k, i), i) /\ Aliased(rs, k, Moved(t, k, i), i)
         /\ Shifted(rs, k, Moved(t, k, i), i)
  <1> DEFINE N == Len(rs)
             up == [rs |-> [t.rs EXCEPT ![t.w + 1] = rs[i]], w |-> t.w + 1]
  <1>1. /\ N \in Nat /\ \A n \in 1 .. N : rs[n] \in Row
        /\ t.rs \in [1 .. N -> Row] /\ t.w \in 0 .. i - 1
    BY DEF Moves, Kept
  <1>2. t.rs[i] = rs[i]
    BY DEF Kept
  <1>3. Moved(t, k, i) = IF rs[i].id = t.rs[k].id THEN t ELSE up
    BY <1>2 DEF Moved
  <1>4. i # k => Kept(rs, k, up, i)
    BY MovesUp
  <1>5. CASE i < k
    <2>1. t.rs = rs /\ t.w = i - 1
      BY <1>1, <1>5 DEF Aliased
    <2>2. rs[i].id # rs[k].id
      BY <1>5 DEF Told
    <2>3. Moved(t, k, i) = up
      BY <1>3, <2>1, <2>2
    <2>4. up.rs = rs /\ up.w = i
      BY <1>1, <2>1
    <2> HIDE DEF up
    <2>5. Aliased(rs, k, up, i) /\ Shifted(rs, k, up, i)
      BY <1>1, <1>5, <2>4 DEF Aliased, Shifted
    <2>6. QED
      BY <1>4, <1>5, <2>3, <2>5
  <1>6. CASE i = k
    <2>1. t.rs = rs /\ t.w = k - 1
      BY <1>1, <1>6 DEF Aliased
    <2>2. Moved(t, k, i) = t
      BY <1>3, <1>6, <2>1
    <2>3. Aliased(rs, k, t, i) /\ Shifted(rs, k, t, i)
      BY <1>1, <1>6, <2>1 DEF Aliased, Shifted
    <2>4. Kept(rs, k, t, i)
      BY <1>1, <1>6, <2>1 DEF Kept
    <2>5. QED
      BY <2>2, <2>3, <2>4
  <1>7. CASE i = k + 1
    <2>1. t.rs = rs /\ t.w = k - 1
      BY <1>1, <1>7 DEF Aliased
    <2>2. rs[i].id # rs[k].id
      BY <1>7 DEF Told
    <2>3. Moved(t, k, i) = up
      BY <1>3, <2>1, <2>2
    <2>4. up.rs = [rs EXCEPT ![k] = rs[k + 1]] /\ up.w = k
      <3>1. t.w + 1 = k /\ rs[i] = rs[k + 1]
        BY <1>1, <1>7, <2>1
      <3>2. QED
        BY <2>1, <3>1
    <2> HIDE DEF up
    <2>5. Aliased(rs, k, up, i)
      BY <1>1, <1>7, <2>4 DEF Aliased
    <2>6. Shifted(rs, k, up, i)
      BY <1>1, <1>7, <2>4 DEF Shifted
    <2>7. QED
      BY <1>4, <1>7, <2>3, <2>5, <2>6
  <1>8. CASE i > k + 1
    <2>1. t.rs[k] = rs[k + 1] /\ t.w >= k /\ k + 1 \in 1 .. N
      BY <1>1, <1>8 DEF Aliased
    <2>2. CASE rs[i].id = rs[k + 1].id
      <3>1. rs[i].id = 0 /\ rs[k + 1].id = 0
        BY <1>8, <2>1, <2>2 DEF Told
      <3>2. Moved(t, k, i) = t
        BY <1>3, <2>1, <2>2
      <3>3. Aliased(rs, k, t, i) /\ Shifted(rs, k, t, i)
        BY <1>1, <1>8, <2>1, <3>1 DEF Aliased, Shifted
      <3>4. Kept(rs, k, t, i)
        <4>1. \A n \in 1 .. t.w : \E m \in 1 .. i : m # k /\ t.rs[n] = rs[m]
          BY <1>1 DEF Kept
        <4>2. ASSUME NEW m \in 1 .. i, m # k, rs[m].id # 0
              PROVE  \E n \in 1 .. t.w : t.rs[n] = rs[m]
          <5>1. m \in 1 .. i - 1
            BY <3>1, <4>2
          <5>2. QED
            BY <4>2, <5>1 DEF Kept
        <4>3. QED
          BY <1>1, <4>1, <4>2 DEF Kept
      <3>5. QED
        BY <3>2, <3>3, <3>4
    <2>3. CASE rs[i].id # rs[k + 1].id
      <3>1. Moved(t, k, i) = up
        BY <1>3, <2>1, <2>3
      <3>2. up.w = t.w + 1
        OBVIOUS
      <3>3. \A j \in 1 .. N : up.rs[j] = IF j = t.w + 1 THEN rs[i] ELSE t.rs[j]
        BY <1>1
      <3> HIDE DEF up
      <3>4. Aliased(rs, k, up, i)
        BY <1>1, <1>8, <2>1, <3>2, <3>3 DEF Aliased
      <3>5. ASSUME rs[k + 1].id # 0 PROVE Shifted(rs, k, up, i)
        <4>1. t.w = i - 2 /\ \A j \in 1 .. i - 2 : t.rs[j] = IF j < k THEN rs[j] ELSE rs[j + 1]
          BY <1>1, <1>8, <3>5 DEF Shifted
        <4>2. \A j \in 1 .. i - 1 : up.rs[j] = IF j < k THEN rs[j] ELSE rs[j + 1]
          <5>1. ASSUME NEW j \in 1 .. i - 2
                PROVE  up.rs[j] = IF j < k THEN rs[j] ELSE rs[j + 1]
            <6>1. j \in 1 .. N /\ j # t.w + 1
              BY <1>1, <4>1
            <6>2. QED
              BY <3>3, <4>1, <6>1
          <5>2. t.w + 1 = i - 1 /\ i - 1 \in 1 .. N /\ ~(i - 1 < k) /\ (i - 1) + 1 = i
            BY <1>1, <1>8, <4>1
          <5>3. up.rs[i - 1] = rs[(i - 1) + 1]
            BY <3>3, <5>2
          <5>4. \A j \in 1 .. i - 1 : j \in 1 .. i - 2 \/ j = i - 1
            BY <1>1
          <5>5. QED
            BY <5>1, <5>2, <5>3, <5>4
        <4>3. QED
          BY <1>1, <3>2, <4>1, <4>2 DEF Shifted
      <3>6. Shifted(rs, k, up, i)
        BY <3>5 DEF Shifted
      <3>7. QED
        BY <1>4, <1>8, <3>1, <3>4, <3>6
    <2>4. QED
      BY <2>2, <2>3
  <1>9. QED
    BY <1>1, <1>5, <1>6, <1>7, <1>8

LEMMA CompactedType ==
  ASSUME NEW rs \in Seq(Row), NEW k \in 1 .. Len(rs)
  PROVE  Compacted(rs, k) \in Seq(Row)
  <1> DEFINE N == Len(rs)
  <1>1. PICK t \in [0 .. N -> Moves(rs)] :
          /\ t[0] = [rs |-> rs, w |-> 0]
          /\ \A i \in 1 .. N : t[i] = Moved(t[i - 1], k, i)
          /\ Compacted(rs, k) = SubSeq(t[N].rs, 1, t[N].w)
    BY CompactedRuns
  <1>2. N \in Nat /\ t[N] \in Moves(rs)
    OBVIOUS
  <1> DEFINE S == {i \in 0 .. N : t[i].w <= i}
  <1>3. 0 \in S
    BY <1>1, <1>2
  <1>4. ASSUME NEW i \in 1 .. N, i - 1 \in S PROVE i \in S
    <2>1. i - 1 \in 0 .. N
      BY <1>2
    <2>2. PICK u, v : u = t[i - 1] /\ v = t[i]
      OBVIOUS
    <2>3. v = Moved(u, k, i) /\ u \in Moves(rs) /\ u.w <= i - 1
      BY <1>1, <1>4, <2>1, <2>2
    <2>4. v.w = u.w \/ v.w = u.w + 1
      BY <2>3 DEF Moved
    <2>5. v.w <= i
      BY <1>2, <2>3, <2>4 DEF Moves
    <2>6. QED
      BY <2>2, <2>5
  <1>5. \A i \in 0 .. N : i \in S
    <2> HIDE DEF S, N
    <2>1. QED
      BY <1>2, <1>3, <1>4, OneByOne
  <1>6. PICK e : e = t[N]
    OBVIOUS
  <1>7. e.rs \in [1 .. N -> Row] /\ e.w \in 0 .. N
    BY <1>2, <1>5, <1>6 DEF Moves
  <1>8. \A n \in 1 .. e.w : e.rs[n] \in Row
    BY <1>2, <1>7
  <1>9. SubSeq(e.rs, 1, e.w) \in Seq(Row)
    BY <1>7, <1>8, SubSeqProperties
  <1>10. QED
    BY <1>1, <1>6, <1>9

(* What a delete leaves: every row with an id but that one, and the rows   *)
(* with none that stand before the first of them to take its place.        *)
LEMMA CompactedTakesOut ==
  ASSUME NEW rs \in Seq(Row), NEW k \in 1 .. Len(rs), Told(rs), rs[k].id # 0,
         NEW c, c = Compacted(rs, k)
  PROVE  /\ c \in Seq(Row) /\ Len(c) <= Len(rs) /\ Told(c)
         /\ \A n \in 1 .. Len(c) : \E m \in 1 .. Len(rs) : c[n] = rs[m]
         /\ Numbered(c) = Numbered(rs) \ {rs[k]}
         /\ (k < Len(rs) => rs[k + 1].id # 0) => c = RemoveAt(rs, k)
  <1> DEFINE N == Len(rs)
  <1>1. PICK t \in [0 .. N -> Moves(rs)] :
          /\ t[0] = [rs |-> rs, w |-> 0]
          /\ \A i \in 1 .. N : t[i] = Moved(t[i - 1], k, i)
          /\ Compacted(rs, k) = SubSeq(t[N].rs, 1, t[N].w)
    BY CompactedRuns
  <1>2. N \in Nat /\ k \in 1 .. N /\ \A n \in 1 .. N : rs[n] \in Row
    OBVIOUS
  <1> DEFINE Good(i) == Kept(rs, k, t[i], i) /\ Aliased(rs, k, t[i], i) /\ Shifted(rs, k, t[i], i)
  <1>3. Good(N)
    <2> DEFINE S == {i \in 0 .. N : Good(i)}
    <2>1. 0 \in S
      <3>1. Kept(rs, k, t[0], 0)
        BY <1>1, <1>2 DEF Kept
      <3>2. Aliased(rs, k, t[0], 0) /\ Shifted(rs, k, t[0], 0)
        BY <1>1, <1>2 DEF Aliased, Shifted
      <3>3. QED
        BY <1>2, <3>1, <3>2
    <2>2. ASSUME NEW i \in 1 .. N, i - 1 \in S PROVE i \in S
      <3>1. t[i - 1] \in Moves(rs) /\ t[i] = Moved(t[i - 1], k, i)
        <4>1. i - 1 \in 0 .. N
          BY <1>2
        <4> HIDE DEF N
        <4>2. QED
          BY <1>1, <4>1
      <3>2. Good(i)
        BY <2>2, <3>1, MovedKeeps
      <3>3. QED
        BY <3>2
    <2>3. \A i \in 0 .. N : i \in S
      <3> HIDE DEF S, N
      <3>1. QED
        BY <1>2, <2>1, <2>2, OneByOne
    <2>4. QED
      BY <1>2, <2>3
  <1>4. PICK e : e = t[N]
    OBVIOUS
  <1>5. e \in Moves(rs) /\ Kept(rs, k, e, N) /\ Aliased(rs, k, e, N) /\ Shifted(rs, k, e, N)
    BY <1>1, <1>2, <1>3, <1>4
  <1>6. e.rs \in [1 .. N -> Row] /\ e.w \in 0 .. N
    BY <1>5 DEF Moves, Kept
  <1>7. c \in Seq(Row) /\ Len(c) = e.w /\ \A n \in 1 .. e.w : c[n] = e.rs[n]
    <2>1. c = SubSeq(e.rs, 1, e.w)
      BY <1>1, <1>4
    <2>2. \A n \in 1 .. e.w : e.rs[n] \in Row
      BY <1>6
    <2>3. QED
      BY <1>6, <2>1, <2>2, SubSeqProperties
  <1> HIDE DEF Good, N
  <1>8. \A n \in 1 .. Len(c) : \E m \in 1 .. N : m # k /\ c[n] = rs[m]
    BY <1>5, <1>7 DEF Kept
  <1>9. Told(c)
    <2>1. \A m, n \in 1 .. e.w : m # n /\ e.rs[m].id # 0 => e.rs[m].id # e.rs[n].id
      BY <1>5 DEF Kept
    <2>2. \A m, n \in 1 .. e.w : m # n /\ c[m].id # 0 => c[m].id # c[n].id
      BY <1>7, <2>1
    <2>3. QED
      BY <1>7, <2>2 DEF Told
  <1>10. Numbered(c) = Numbered(rs) \ {rs[k]}
    <2>1. ASSUME NEW r \in Numbered(c) PROVE r \in Numbered(rs) \ {rs[k]}
      <3>1. PICK n \in 1 .. Len(c) : c[n].id # 0 /\ r = c[n]
        BY DEF Numbered
      <3>2. PICK m \in 1 .. N : m # k /\ c[n] = rs[m]
        BY <1>8, <3>1
      <3>3. rs[m].id # rs[k].id
        BY <1>2, <3>1, <3>2 DEF Told, N
      <3>4. QED
        BY <3>1, <3>2, <3>3 DEF Numbered, N
    <2>2. ASSUME NEW r \in Numbered(rs), r # rs[k] PROVE r \in Numbered(c)
      <3>1. PICK m \in 1 .. N : rs[m].id # 0 /\ r = rs[m] /\ m # k
        BY <2>2 DEF Numbered, N
      <3>2. PICK n \in 1 .. e.w : e.rs[n] = rs[m]
        BY <1>5, <3>1 DEF Kept
      <3>3. QED
        BY <1>7, <3>1, <3>2 DEF Numbered
    <2>3. QED
      BY <2>1, <2>2
  <1>11. ASSUME k < N => rs[k + 1].id # 0 PROVE c = RemoveAt(rs, k)
    <2>1. e.w = N - 1 /\ \A j \in 1 .. N - 1 : e.rs[j] = IF j < k THEN rs[j] ELSE rs[j + 1]
      <3>1. CASE k < N
        BY <1>2, <1>5, <1>11, <3>1 DEF Shifted
      <3>2. CASE k = N
        BY <1>2, <1>5, <3>2 DEF Aliased
      <3>3. QED
        BY <1>2, <3>1, <3>2
    <2>2. PICK less : less = RemoveAt(rs, k)
      OBVIOUS
    <2>3. /\ less \in Seq(Row) /\ Len(less) = N - 1
          /\ \A j \in 1 .. N - 1 : less[j] = IF j < k THEN rs[j] ELSE rs[j + 1]
      BY <2>2, Removed DEF N
    <2>4. Len(c) = Len(less) /\ \A j \in 1 .. Len(c) : c[j] = less[j]
      BY <1>2, <1>7, <2>1, <2>3
    <2>5. c = less
      BY <1>7, <2>3, <2>4, SeqEqual
    <2>6. QED
      BY <2>2, <2>5
  <1>12. QED
    BY <1>6, <1>7, <1>8, <1>9, <1>10, <1>11 DEF N

-----------------------------------------------------------------------------
(* ui_parse_rows                                                           *)

\* The sequences put together, from one to the next.
LEMMA FlattenRuns ==
  ASSUME NEW T, NEW seqs \in Seq(Seq(T))
  PROVE  \E f \in [0 .. Len(seqs) -> Seq(T)] :
           /\ f[0] = <<>> /\ \A i \in 1 .. Len(seqs) : f[i] = f[i - 1] \o seqs[i]
           /\ FlattenSeq(seqs) = f[Len(seqs)]
  <1> DEFINE N == Len(seqs)
             A == Seq(T)
             step == [i \in 1 .. N |-> [x \in A |-> x \o seqs[i]]]
             Eq(g) == g = [i \in 1 .. N |-> IF i = 1 THEN seqs[i] ELSE g[i - 1] \o seqs[i]]
             flat == CHOOSE g : Eq(g)
             f == [i \in 0 .. N |-> IF i = 0 THEN <<>> ELSE flat[i]]
  <1>1. N \in Nat /\ <<>> \in A /\ \A i \in 1 .. N : seqs[i] \in A
    BY EmptySeq
  <1>2. CASE N = 0
    <2> DEFINE none == [i \in 0 .. 0 |-> <<>>]
    <2>1. seqs = <<>>
      BY <1>2
    <2>2. FlattenSeq(seqs) = <<>>
      BY <2>1 DEF FlattenSeq
    <2>3. none \in [0 .. 0 -> A] /\ none[0] = <<>>
      BY <1>1
    <2> HIDE DEF none, A
    <2>4. none \in [0 .. N -> A] /\ none[N] = <<>> /\ \A i \in 1 .. N : FALSE
      BY <1>2, <2>3
    <2>5. QED
      BY <2>2, <2>3, <2>4 DEF A
  <1>3. CASE N # 0
    <2>1. step \in StepsOf(N, A)
      BY <1>1, ConcatProperties DEF StepsOf
    <2>2. PICK F : Runs(F, N, A, <<>>, step)
      <3> HIDE DEF A, step, N
      <3>1. QED
        BY <1>1, <2>1, LoopRuns
    <2>3. F \in [0 .. N -> A] /\ F[0] = <<>>
      <3> HIDE DEF A, step, N
      <3>1. QED
        BY <2>2 DEF Runs
    <2>4. ASSUME NEW i \in 1 .. N PROVE F[i] = F[i - 1] \o seqs[i]
      <3>1. F[i] = step[i][F[i - 1]]
        <4> HIDE DEF A, step, N
        <4>1. QED
          BY <2>2 DEF Runs
      <3>2. F[i - 1] \in A
        <4> HIDE DEF A, step, N
        <4>1. QED
          BY <1>1, <2>3
      <3> HIDE DEF A, N
      <3>3. QED
        BY <3>1, <3>2
    <2>5. F[1] = seqs[1]
      <3>1. F[1] = <<>> \o seqs[1] /\ seqs[1] \in Seq(T)
        <4>1. 1 \in 1 .. N /\ 1 - 1 = 0
          BY <1>1, <1>3
        <4>2. F[1] = F[1 - 1] \o seqs[1]
          BY <2>4, <4>1
        <4>3. QED
          BY <1>1, <2>3, <4>1, <4>2
      <3>2. QED
        BY <3>1, ConcatEmptySeq
    <2> DEFINE G == [i \in 1 .. N |-> F[i]]
    <2>6. ASSUME NEW i \in 1 .. N
          PROVE  G[i] = IF i = 1 THEN seqs[i] ELSE G[i - 1] \o seqs[i]
      <3>1. i # 1 => i - 1 \in 1 .. N
        BY <1>1
      <3> HIDE DEF N
      <3>2. QED
        BY <2>4, <2>5, <3>1
    <2>7. Eq(G)
      <3> HIDE DEF N
      <3>1. QED
        BY <2>6
    <2>8. Eq(flat)
      <3> HIDE DEF Eq
      <3>1. QED
        BY <2>7
    <2>9. FlattenSeq(seqs) = flat[N]
      BY <1>3 DEF FlattenSeq
    <2> HIDE DEF flat
    <2>10. ASSUME NEW i \in 1 .. N
           PROVE  flat[i] = IF i = 1 THEN seqs[i] ELSE flat[i - 1] \o seqs[i]
      <3> HIDE DEF N
      <3>1. QED
        BY <2>8
    <2>11. /\ f[0] = <<>> /\ \A i \in 1 .. N : f[i] = flat[i]
           /\ f = [i \in 0 .. N |-> f[i]]
      BY <1>1
    <2> HIDE DEF f
    <2>12. ASSUME NEW i \in 1 .. N PROVE f[i] = f[i - 1] \o seqs[i]
      <3>1. CASE i = 1
        <4>1. 1 \in 1 .. N /\ 1 - 1 = 0
          BY <1>1, <1>3
        <4>2. f[1] = seqs[1] /\ f[1 - 1] = <<>> /\ seqs[1] \in Seq(T)
          BY <1>1, <2>10, <2>11, <4>1
        <4>3. seqs[1] = <<>> \o seqs[1]
          BY <4>2, ConcatEmptySeq
        <4>4. QED
          BY <3>1, <4>2, <4>3
      <3>2. CASE i # 1
        <4>1. i - 1 \in 1 .. N
          BY <1>1, <3>2
        <4>2. f[i - 1] = flat[i - 1] /\ f[i] = flat[i]
          BY <2>11, <4>1
        <4>3. QED
          BY <2>10, <3>2, <4>2
      <3>3. QED
        BY <3>1, <3>2
    <2>13. \A i \in 0 .. N : f[i] \in A
      <3> DEFINE S == {i \in 0 .. N : f[i] \in A}
      <3>1. 0 \in S
        <4>1. 0 \in 0 .. N /\ f[0] \in A
          BY <1>1, <2>11
        <4> HIDE DEF A, N
        <4>2. QED
          BY <4>1
      <3>2. ASSUME NEW i \in 1 .. N, i - 1 \in S PROVE i \in S
        <4>1. f[i - 1] \in Seq(T) /\ seqs[i] \in Seq(T)
          BY <1>1, <3>2
        <4>2. f[i - 1] \o seqs[i] \in Seq(T)
          BY <4>1, ConcatProperties
        <4>3. f[i] \in A
          BY <2>12, <4>2
        <4>4. QED
          BY <4>3
      <3>3. \A i \in 0 .. N : i \in S
        <4> HIDE DEF S, N
        <4>1. QED
          BY <1>1, <3>1, <3>2, OneByOne
      <3>4. QED
        BY <3>3
    <2>14. f \in [0 .. N -> A]
      <3> HIDE DEF N, A
      <3>1. QED
        BY <2>11, <2>13
    <2>15. f[N] = flat[N]
      <3>1. N \in 1 .. N
        BY <1>1, <1>3
      <3> HIDE DEF N
      <3>2. QED
        BY <2>11, <3>1
    <2>16. QED
      BY <2>9, <2>11, <2>12, <2>14, <2>15
  <1>4. QED
    BY <1>2, <1>3

LEMMA Greatest ==
  ASSUME NEW N \in Nat, NEW S, S \subseteq 0 .. N, S # {}
  PROVE  Max(S) \in S /\ \A y \in S : y <= Max(S)
  <1> DEFINE Has(i, x) == x \in S /\ \A y \in S : y <= i => y <= x
             P == {i \in 0 .. N : (\E y \in S : y <= i) => \E x : Has(i, x)}
  <1>1. 0 \in P
    <2>1. ASSUME NEW y \in S, y <= 0 PROVE Has(0, y)
      BY <2>1
    <2> HIDE DEF Has
    <2>2. QED
      BY <2>1
  <1>2. ASSUME NEW i \in 1 .. N, i - 1 \in P PROVE i \in P
    <2>1. CASE i \in S
      <3>1. Has(i, i)
        BY <2>1
      <3> HIDE DEF Has
      <3>2. QED
        BY <3>1
    <2>2. CASE i \notin S
      <3>1. \A y \in S : y <= i => y <= i - 1
        BY <2>2
      <3>2. \A x : Has(i - 1, x) => Has(i, x)
        BY <3>1
      <3>3. (\E y \in S : y <= i) => \E y \in S : y <= i - 1
        BY <3>1
      <3> HIDE DEF Has
      <3>4. QED
        BY <1>2, <3>2, <3>3
    <2>3. QED
      BY <2>1, <2>2
  <1>3. N \in P
    <2>1. \A i \in 0 .. N : i \in P
      <3> HIDE DEF P
      <3>1. QED
        BY <1>1, <1>2, OneByOne
    <2> HIDE DEF P
    <2>2. QED
      BY <2>1
  <1>4. PICK x : Has(N, x)
    <2>0. \A y \in S : y <= N
      OBVIOUS
    <2>1. \E y \in S : y <= N
      BY <2>0
    <2> HIDE DEF Has
    <2>2. QED
      BY <1>3, <2>1
  <1>5. x \in S /\ \A y \in S : x >= y
    BY <1>4
  <1>6. QED
    BY <1>5 DEF Max

\* The objects that a load goes through, and the bytes up to each.
LEMMA ParsedReads ==
  ASSUME NEW rs \in Seq(Row)
  PROVE  \E fit \in 0 .. Len(rs) : \E w \in [0 .. Len(rs) -> Nat] :
           /\ w[0] = 0 /\ \A i \in 1 .. Len(rs) : w[i] = w[i - 1] + Weight(rs[i])
           /\ \A n \in 0 .. Len(rs) : w[n] <= Buffer => n <= fit
           /\ LET read == FlattenSeq([n \in 1 .. fit |-> AsRead(rs[n])])
              IN Parsed(rs) = SubSeq(read, 1, Min({Len(read), MaxRows}))
  <1> DEFINE N == Len(rs)
             step == [i \in 1 .. N |-> [x \in Nat |-> x + Weight(rs[i])]]
             Eq(g) == g = [n \in 0 .. N |-> IF n = 0 THEN 0 ELSE g[n - 1] + Weight(rs[n])]
             w == CHOOSE g : Eq(g)
             fits == {n \in 0 .. N : w[n] <= Buffer}
  <1>1. N \in Nat /\ \A r : Weight(r) \in Nat
    BY DEF Weight
  <1>2. step \in StepsOf(N, Nat)
    BY <1>1 DEF StepsOf
  <1>3. PICK f : Runs(f, N, Nat, 0, step)
    <2> HIDE DEF step, N
    <2>1. QED
      BY <1>1, <1>2, LoopRuns
  <1>4. f \in [0 .. N -> Nat] /\ f[0] = 0
    <2> HIDE DEF step, N
    <2>1. QED
      BY <1>3 DEF Runs
  <1>5. ASSUME NEW i \in 1 .. N PROVE f[i] = f[i - 1] + Weight(rs[i])
    <2>1. f[i] = step[i][f[i - 1]]
      <3> HIDE DEF step, N
      <3>1. QED
        BY <1>3 DEF Runs
    <2>2. f[i - 1] \in Nat
      <3> HIDE DEF step, N
      <3>1. QED
        BY <1>1, <1>4
    <2> HIDE DEF N
    <2>3. QED
      BY <2>1, <2>2
  <1>6. Eq(f)
    <2> HIDE DEF step, N
    <2>1. QED
      BY <1>4, <1>5
  <1>7. Eq(w)
    <2> HIDE DEF Eq
    <2>1. QED
      BY <1>6
  <1>8. Parsed(rs) = LET read == FlattenSeq([n \in 1 .. Max(fits) |-> AsRead(rs[n])])
                     IN SubSeq(read, 1, Min({Len(read), MaxRows}))
    BY DEF Parsed
  <1> HIDE DEF w
  <1>9. w[0] = 0 /\ \A i \in 1 .. N : w[i] = w[i - 1] + Weight(rs[i])
    <2> HIDE DEF N
    <2>1. QED
      BY <1>1, <1>7
  <1>10. \A i \in 0 .. N : w[i] \in Nat
    <2> DEFINE S == {i \in 0 .. N : w[i] \in Nat}
    <2>1. 0 \in S
      BY <1>1, <1>9
    <2>2. \A i \in 1 .. N : i - 1 \in S => i \in S
      BY <1>1, <1>9
    <2>3. \A i \in 0 .. N : i \in S
      <3> HIDE DEF S, N
      <3>1. QED
        BY <1>1, <2>1, <2>2, OneByOne
    <2>4. QED
      BY <2>3
  <1>11. w \in [0 .. N -> Nat]
    <2> HIDE DEF N
    <2>1. QED
      BY <1>7, <1>10
  <1>12. 0 \in fits /\ fits \subseteq 0 .. N
    BY <1>1, <1>9, SizesAssumption
  <1>13. Max(fits) \in fits /\ \A n \in fits : n <= Max(fits)
    <2> HIDE DEF fits, N
    <2>1. QED
      BY <1>1, <1>12, Greatest
  <1>14. PICK fit : fit = Max(fits)
    OBVIOUS
  <1>15. fit \in 0 .. N /\ \A n \in 0 .. N : w[n] <= Buffer => n <= fit
    BY <1>13, <1>14
  <1>16. LET read == FlattenSeq([n \in 1 .. fit |-> AsRead(rs[n])])
         IN Parsed(rs) = SubSeq(read, 1, Min({Len(read), MaxRows}))
    BY <1>8, <1>14
  <1> HIDE DEF fits
  <1>17. QED
    BY <1>9, <1>11, <1>15, <1>16

LEMMA LesserOfTwo ==
  ASSUME NEW a \in Nat, NEW b \in Nat
  PROVE  Min({a, b}) = IF a <= b THEN a ELSE b
  <1> DEFINE least == IF a <= b THEN a ELSE b
  <1>1. least \in {a, b} /\ \A y \in {a, b} : least <= y
    OBVIOUS
  <1>2. \A x \in {a, b} : (\A y \in {a, b} : x <= y) => x = least
    OBVIOUS
  <1> HIDE DEF least
  <1>3. (CHOOSE x \in {a, b} : \A y \in {a, b} : x <= y) = least
    BY <1>1, <1>2
  <1>4. QED
    BY <1>3 DEF Min, least

LEMMA ReadRow ==
  ASSUME NEW r \in Row
  PROVE  /\ AsRead(r) \in Seq(Row) /\ Len(AsRead(r)) \in {1, 2}
         /\ AsRead(r)[1].id = r.id
         /\ Len(AsRead(r)) = 2 => AsRead(r)[2].id = 0
         /\ r.text \in {"plain", "cut"} => AsRead(r) = <<r>>
         /\ r.text = "brace" => AsRead(r) = <<[r EXCEPT !.text = "cut"]>>
  <1>1. PICK c : c = [r EXCEPT !.text = "cut"]
    OBVIOUS
  <1>2. PICK tail : tail = [id |-> 0, key |-> 0, text |-> "tail"]
    OBVIOUS
  <1>3. c \in Row /\ c.id = r.id /\ tail \in Row /\ tail.id = 0
    BY <1>1, <1>2 DEF Row, Texts
  <1>4. ASSUME NEW x \in Row PROVE <<x>> \in Seq(Row) /\ Len(<<x>>) = 1 /\ <<x>>[1] = x
    OBVIOUS
  <1>5. CASE r.text \in {"brace", "long"}
    <2>1. AsRead(r) = <<c>>
      BY <1>1, <1>5 DEF AsRead
    <2>2. r.text \notin {"plain", "cut"}
      BY <1>5
    <2>3. /\ AsRead(r) \in Seq(Row) /\ AsRead(r)[1] = c
          /\ Len(AsRead(r)) \in {1, 2} /\ Len(AsRead(r)) # 2
      BY <1>3, <1>4, <2>1
    <2>4. QED
      BY <1>1, <1>3, <2>1, <2>2, <2>3, Zenon
  <1>6. CASE r.text = "pair"
    <2>1. AsRead(r) = <<c, tail>>
      BY <1>1, <1>2, <1>6 DEF AsRead
    <2>2. r.text \notin {"plain", "cut", "brace"}
      BY <1>6
    <2>3. /\ AsRead(r) \in Seq(Row) /\ Len(AsRead(r)) = 2
          /\ AsRead(r)[1] = c /\ AsRead(r)[2] = tail
      BY <1>3, <2>1
    <2>4. QED
      BY <1>3, <2>2, <2>3, Zenon
  <1>7. CASE r.text \notin {"brace", "long", "pair"}
    <2>1. AsRead(r) = <<r>>
      BY <1>7 DEF AsRead
    <2>2. /\ AsRead(r) \in Seq(Row) /\ AsRead(r)[1] = r
          /\ Len(AsRead(r)) \in {1, 2} /\ Len(AsRead(r)) # 2
      BY <1>4, <2>1
    <2>3. QED
      BY <1>7, <2>1, <2>2, Zenon
  <1>8. QED
    BY <1>5, <1>6, <1>7

\* The ids on the rows that are read are those of the rows of the file.
ReadFrom(rs, read, i) ==
  /\ \A n \in 1 .. Len(read) : read[n].id # 0 => \E m \in 1 .. i : read[n].id = rs[m].id
  /\ Told(rs) => Told(read)

LEMMA ReadsOn ==
  ASSUME NEW rs \in Seq(Row), NEW i \in 1 .. Len(rs), NEW a \in Seq(Row),
         NEW b, b = AsRead(rs[i]), NEW read, read = a \o b, ReadFrom(rs, a, i - 1)
  PROVE  ReadFrom(rs, read, i)
  <1>1. /\ b \in Seq(Row) /\ Len(b) \in {1, 2} /\ b[1].id = rs[i].id
        /\ Len(b) = 2 => b[2].id = 0
    BY ReadRow
  <1>2. /\ Len(a) \in Nat /\ Len(read) = Len(a) + Len(b)
        /\ \A n \in 1 .. Len(a) : read[n] = a[n]
        /\ \A n \in 1 .. Len(b) : read[Len(a) + n] = b[n]
    <2>1. /\ Len(read) = Len(a) + Len(b) /\ Len(a) \in Nat /\ Len(b) \in Nat
          /\ \A n \in 1 .. Len(a) + Len(b) :
               read[n] = IF n <= Len(a) THEN a[n] ELSE b[n - Len(a)]
      BY <1>1, ConcatProperties, LenProperties
    <2>2. ASSUME NEW n \in 1 .. Len(b) PROVE read[Len(a) + n] = b[n]
      <3>1. /\ Len(a) + n \in 1 .. Len(a) + Len(b)
            /\ ~(Len(a) + n <= Len(a)) /\ Len(a) + n - Len(a) = n
        BY <2>1
      <3>2. QED
        BY <2>1, <3>1
    <2>3. QED
      BY <2>1, <2>2
  <1>3. ASSUME NEW n \in 1 .. Len(read)
        PROVE  \/ n \in 1 .. Len(a) /\ read[n] = a[n]
               \/ n = Len(a) + 1 /\ read[n].id = rs[i].id
               \/ n = Len(a) + 2 /\ read[n].id = 0
    <2>1. n \in 1 .. Len(a) \/ n = Len(a) + 1 \/ (n = Len(a) + 2 /\ Len(b) = 2)
      <3>1. CASE Len(b) = 1
        BY <1>2, <3>1
      <3>2. CASE Len(b) = 2
        BY <1>2, <3>2
      <3>3. QED
        BY <1>1, <3>1, <3>2
    <2>2. 1 \in 1 .. Len(b) /\ (Len(b) = 2 => 2 \in 1 .. Len(b))
      BY <1>1
    <2>3. QED
      BY <1>1, <1>2, <2>1, <2>2
  <1>4. \A n \in 1 .. Len(a) : a[n].id # 0 => \E m \in 1 .. i - 1 : a[n].id = rs[m].id
    BY DEF ReadFrom
  <1>5. ASSUME NEW n \in 1 .. Len(read), read[n].id # 0
        PROVE  \E m \in 1 .. i : read[n].id = rs[m].id
    <2>1. CASE n \in 1 .. Len(a) /\ read[n] = a[n]
      <3>1. PICK m \in 1 .. i - 1 : a[n].id = rs[m].id
        BY <1>4, <1>5, <2>1
      <3>2. m \in 1 .. i
        OBVIOUS
      <3>3. QED
        BY <2>1, <3>1, <3>2
    <2>2. CASE read[n].id = rs[i].id
      BY <2>2
    <2>3. QED
      BY <1>3, <1>5, <2>1, <2>2
  <1>6. ASSUME Told(rs) PROVE Told(read)
    <2>1. Told(a)
      BY <1>6 DEF ReadFrom
    <2>2. ASSUME NEW n \in 1 .. Len(a), a[n].id # 0 PROVE a[n].id # rs[i].id
      <3>1. PICK m \in 1 .. i - 1 : a[n].id = rs[m].id
        BY <1>4, <2>2
      <3>2. m \in 1 .. Len(rs) /\ m # i
        OBVIOUS
      <3>3. QED
        BY <1>6, <2>2, <3>1, <3>2 DEF Told
    <2>3. ASSUME NEW m \in 1 .. Len(read), NEW n \in 1 .. Len(read), m # n, read[m].id # 0,
                 read[m].id = read[n].id
          PROVE  FALSE
      <3>1. CASE m \in 1 .. Len(a) /\ n \in 1 .. Len(a)
        BY <1>2, <2>1, <2>3, <3>1 DEF Told
      <3>2. CASE m \in 1 .. Len(a) /\ n \notin 1 .. Len(a)
        BY <1>2, <1>3, <2>2, <2>3, <3>2
      <3>3. CASE m \notin 1 .. Len(a) /\ n \in 1 .. Len(a)
        BY <1>2, <1>3, <2>2, <2>3, <3>3
      <3>4. CASE m \notin 1 .. Len(a) /\ n \notin 1 .. Len(a)
        BY <1>3, <2>3, <3>4
      <3>5. QED
        BY <3>1, <3>2, <3>3, <3>4
    <2>4. QED
      BY <2>3 DEF Told
  <1>7. QED
    BY <1>5, <1>6 DEF ReadFrom

\* A load makes no two rows of one id from a file that has no such two.
LEMMA ParsedTold ==
  ASSUME NEW rs \in Seq(Row)
  PROVE  Parsed(rs) \in Seq(Row) /\ (Told(rs) => Told(Parsed(rs)))
  <1>1. PICK fit \in 0 .. Len(rs) :
          LET read == FlattenSeq([n \in 1 .. fit |-> AsRead(rs[n])])
          IN Parsed(rs) = SubSeq(read, 1, Min({Len(read), MaxRows}))
    BY ParsedReads
  <1> DEFINE objects == [n \in 1 .. fit |-> AsRead(rs[n])]
             read == FlattenSeq(objects)
  <1>2. objects \in Seq(Seq(Row)) /\ Len(objects) = fit /\ fit \in 0 .. Len(rs) /\ fit \in Nat
    <2>1. fit \in Nat /\ \A n \in 1 .. fit : rs[n] \in Row
      OBVIOUS
    <2>2. PICK A : A = Seq(Row)
      OBVIOUS
    <2>3. \A n \in 1 .. fit : AsRead(rs[n]) \in A
      BY <2>1, <2>2, ReadRow
    <2>4. objects \in Seq(A) /\ Len(objects) = fit
      BY <2>1, <2>3
    <2>5. QED
      BY <2>1, <2>2, <2>4
  <1>3. \A n \in 1 .. fit : objects[n] = AsRead(rs[n])
    OBVIOUS
  <1>4. Parsed(rs) = SubSeq(read, 1, Min({Len(read), MaxRows}))
    BY <1>1
  <1> HIDE DEF objects
  <1>5. PICK f \in [0 .. fit -> Seq(Row)] :
          /\ f[0] = <<>> /\ \A i \in 1 .. fit : f[i] = f[i - 1] \o objects[i]
          /\ read = f[fit]
    <2>1. \E f \in [0 .. Len(objects) -> Seq(Row)] :
            /\ f[0] = <<>> /\ \A i \in 1 .. Len(objects) : f[i] = f[i - 1] \o objects[i]
            /\ read = f[Len(objects)]
      BY <1>2, FlattenRuns
    <2>2. QED
      BY <1>2, <2>1
  <1> HIDE DEF read
  <1>6. read \in Seq(Row) /\ ReadFrom(rs, read, fit)
    <2> DEFINE S == {i \in 0 .. fit : ReadFrom(rs, f[i], i)}
    <2>1. 0 \in S
      BY <1>2, <1>5 DEF ReadFrom, Told
    <2>2. ASSUME NEW i \in 1 .. fit, i - 1 \in S PROVE i \in S
      <3>0. i \in 1 .. Len(rs) /\ i - 1 \in 0 .. fit
        BY <1>2
      <3>1. f[i - 1] \in Seq(Row) /\ f[i] = f[i - 1] \o AsRead(rs[i])
        BY <1>3, <1>5, <3>0
      <3>2. ReadFrom(rs, f[i], i)
        BY <2>2, <3>0, <3>1, ReadsOn
      <3>3. QED
        BY <3>2
    <2>3. \A i \in 0 .. fit : i \in S
      <3> HIDE DEF S
      <3>1. QED
        BY <1>2, <2>1, <2>2, OneByOne
    <2>4. QED
      BY <1>2, <1>5, <2>3
  <1>7. PICK m : m = Min({Len(read), MaxRows})
    OBVIOUS
  <1>8. m \in 0 .. Len(read) /\ Len(read) \in Nat
    <2>1. Len(read) \in Nat /\ MaxRows \in Nat
      BY <1>6, SizesAssumption
    <2>2. m = IF Len(read) <= MaxRows THEN Len(read) ELSE MaxRows
      BY <1>7, <2>1, LesserOfTwo
    <2>3. QED
      BY <2>1, <2>2
  <1>9. PICK p : p = Parsed(rs)
    OBVIOUS
  <1>10. p \in Seq(Row) /\ Len(p) = m /\ \A n \in 1 .. m : p[n] = read[n]
    <2>1. p = SubSeq(read, 1, m) /\ \A n \in 1 .. m : read[n] \in Row
      BY <1>4, <1>6, <1>7, <1>8, <1>9
    <2>2. QED
      BY <1>8, <2>1, SubSeqProperties
  <1>11. Told(rs) => Told(p)
    <2>1. Told(rs) => \A i, j \in 1 .. Len(read) :
                        i # j /\ read[i].id # 0 => read[i].id # read[j].id
      BY <1>6 DEF ReadFrom, Told
    <2>2. \A i \in 1 .. m : i \in 1 .. Len(read) /\ p[i] = read[i]
      BY <1>8, <1>10
    <2>3. Told(rs) => \A i, j \in 1 .. m : i # j /\ p[i].id # 0 => p[i].id # p[j].id
      BY <2>1, <2>2
    <2>4. QED
      BY <1>10, <2>3 DEF Told
  <1>12. QED
    BY <1>9, <1>10, <1>11

-----------------------------------------------------------------------------
(* Windows over an API *)

Places == {"absent", "closed", "load", "idle", "post", "delete", "save", "write"}

Typing ==
  /\ scene \in Scene
  /\ typed \in Nat /\ served \in Nat /\ api \in Seq(Row)
  /\ pc \in [Desks -> Places]
  /\ field \in [Desks -> Texts \cup {"none"}] /\ note \in [Desks -> Nat]

\* A window at its POST has a note in its field, and no two have the same.
Fields ==
  /\ \A d \in Desks : note[d] <= typed /\ (pc[d] = "post" => note[d] # 0)
  /\ \A d \in Desks : note[d] = 0 <=> field[d] = "none"
  /\ \A c, d \in Desks : note[c] = note[d] /\ note[c] # 0 => c = d

\* A note is in the API twice, or there and still in its field, only when an
\* answer was lost; and what left its field is accounted for.  An empty row
\* is no note.
Rows ==
  /\ \A n \in 1 .. Len(api) : api[n].key \in 0 .. typed
  /\ \A m, n \in 1 .. Len(api) :
       m # n /\ api[m].key = api[n].key => api[n].key \in lost \cup {0}
  /\ \A n \in 1 .. Len(api) : \A d \in Desks :
       note[d] = api[n].key => note[d] \in lost \cup {0}
  /\ made \subseteq dropped \cup refused \cup Keys(api)

Accounted == Typing /\ (scene.bound => Fields /\ Rows)

\* What the rows keep when one of them goes.
LEMMA RemovedKeys ==
  ASSUME NEW s \in Seq(Row), NEW i \in 1 .. Len(s)
  PROVE  \A m, n \in 1 .. Len(RemoveAt(s, i)) :
           \E k, l \in 1 .. Len(s) :
             /\ RemoveAt(s, i)[m] = s[k] /\ RemoveAt(s, i)[n] = s[l]
             /\ m # n => k # l
  <1> DEFINE less == RemoveAt(s, i)
  <1>1. Len(s) \in Nat /\ Len(less) = Len(s) - 1
    BY Removed
  <1>2. \A j \in 1 .. Len(s) - 1 : less[j] = IF j < i THEN s[j] ELSE s[j + 1]
    BY Removed
  <1> HIDE DEF less
  <1> DEFINE At(j) == IF j < i THEN j ELSE j + 1
  <1>3. \A j \in 1 .. Len(less) : At(j) \in 1 .. Len(s) /\ less[j] = s[At(j)]
    BY <1>1, <1>2
  <1>4. \A m, n \in 1 .. Len(less) : m # n => At(m) # At(n)
    BY <1>1
  <1> HIDE DEF At
  <1>5. QED
    BY <1>3, <1>4 DEF less

LEMMA InitAccounted == Init => Accounted
  <1> SUFFICES ASSUME Init PROVE Accounted
    OBVIOUS
  <1>1. scene \in Scene /\ api = <<>> /\ typed = 0 /\ served = 0
    BY ScenesAssumption DEF Init
  <1>2. Typing
    BY <1>1, EmptySeq DEF Init, Typing, Places
  <1>3. Fields /\ Rows
    BY <1>1 DEF Init, Fields, Rows
  <1>4. QED
    BY <1>2, <1>3 DEF Accounted

\* What the API's table holds after it has taken some rows more.
LEMMA Storing ==
  ASSUME Typing, NEW n \in Nat, NEW key \in Nat, NEW text \in Texts \cup {"none"},
         Stores(n, key, text)
  PROVE  /\ served' \in Nat /\ api' \in Seq(Row) /\ Len(api') = Len(api) + n
         /\ \A m \in 1 .. Len(api) : api'[m] = api[m]
         /\ \A m \in Len(api) + 1 .. Len(api) + n : api'[m].key = key
  <1> DEFINE more == [i \in 1 .. n |-> [id |-> served + i, key |-> key, text |-> text]]
  <1>1. served \in Nat /\ api \in Seq(Row) /\ Len(api) \in Nat
    BY DEF Typing
  <1>2. \A i \in 1 .. n : more[i] \in Row /\ more[i].key = key
    BY <1>1 DEF Row
  <1>3. more \in Seq(Row) /\ Len(more) = n
    BY <1>2
  <1>4. served' = served + n /\ api' = api \o more
    BY DEF Stores
  <1> HIDE DEF more
  <1>5. /\ (api \o more) \in Seq(Row) /\ Len(api \o more) = Len(api) + n
        /\ \A m \in 1 .. Len(api) + n :
             (api \o more)[m] = IF m <= Len(api) THEN api[m] ELSE more[m - Len(api)]
    BY <1>1, <1>3, ConcatProperties
  <1>6. \A m \in 1 .. Len(api) : api'[m] = api[m]
    BY <1>1, <1>4, <1>5
  <1>7. ASSUME NEW m \in Len(api) + 1 .. Len(api) + n PROVE api'[m].key = key
    <2>1. m - Len(api) \in 1 .. n /\ ~(m <= Len(api)) /\ m \in 1 .. Len(api) + n
      BY <1>1
    <2>2. api'[m] = more[m - Len(api)]
      BY <1>4, <1>5, <2>1
    <2>3. QED
      BY <1>2, <2>1, <2>2
  <1>8. QED
    BY <1>1, <1>4, <1>5, <1>6, <1>7

\* A note is stored and leaves its field, or an answer was lost, or an empty
\* row is stored.
Answered(d, n, key, text) ==
  \/ n = 1 /\ key = note[d] /\ text = field[d] /\ note'[d] = 0
  \/ key = note[d] /\ text = field[d] /\ note[d] \in lost'
  \/ key = 0 /\ text = "none"

LEMMA PostStores ==
  ASSUME Typing, NEW d \in Desks, Posts(d)
  PROVE  \E n \in 0 .. 2 : \E key \in {0, note[d]}, text \in Texts \cup {"none"} :
           /\ Stores(n, key, text)
           /\ Answered(d, n, key, text)
           /\ made' \subseteq made \cup refused' \cup (IF n = 0 THEN {} ELSE {key})
  <1>1. field[d] \in Texts \cup {"none"}
    BY DEF Typing
  <1>2. Cleared(d) => note'[d] = 0 /\ made' = made \cup {note[d]}
    BY DEF Cleared, Typing
  <1>3. CASE Inserts(d) /\ Cleared(d)
    <2>1. Stores(1, note[d], field[d]) /\ Answered(d, 1, note[d], field[d])
      BY <1>2, <1>3 DEF Inserts, Answered
    <2>2. 1 \in 0 .. 2
      OBVIOUS
    <2>3. QED
      BY <1>1, <1>2, <1>3, <2>1, <2>2
  <1>4. CASE /\ lost' = lost \cup {note[d]}
             /\ \/ /\ \E n \in 0 .. 2 : Stores(n, note[d], field[d]) \/ Stores(n, 0, "none")
                   /\ UNCHANGED made
                \/ Stores(2, note[d], field[d]) /\ Cleared(d)
    <2>1. \A n : Answered(d, n, note[d], field[d]) /\ Answered(d, n, 0, "none")
      BY <1>4 DEF Answered
    <2>2. 2 \in 0 .. 2 /\ 2 # 0
      OBVIOUS
    <2>3. CASE Stores(2, note[d], field[d]) /\ Cleared(d)
      BY <1>1, <1>2, <2>1, <2>2, <2>3
    <2>4. ASSUME UNCHANGED made, NEW n \in 0 .. 2, Stores(n, note[d], field[d])
          PROVE  \E key \in {0, note[d]}, text \in Texts \cup {"none"} :
                   Stores(n, key, text) /\ Answered(d, n, key, text)
      BY <1>1, <2>1, <2>4
    <2>5. ASSUME UNCHANGED made, NEW n \in 0 .. 2, Stores(n, 0, "none")
          PROVE  \E key \in {0, note[d]}, text \in Texts \cup {"none"} :
                   Stores(n, key, text) /\ Answered(d, n, key, text)
      BY <2>1, <2>5
    <2>6. QED
      BY <1>4, <2>3, <2>4, <2>5
  <1>5. CASE /\ refused' = refused \cup {note[d]} /\ Cleared(d)
             /\ \E n \in 0 .. 2 : Stores(n, 0, "none")
    <2>1. PICK n \in 0 .. 2 : Stores(n, 0, "none")
      BY <1>5
    <2>2. Answered(d, n, 0, "none")
      BY DEF Answered
    <2>3. made' \subseteq made \cup refused'
      BY <1>2, <1>5
    <2>4. QED
      BY <2>1, <2>2, <2>3
  <1>6. QED
    BY <1>3, <1>4, <1>5 DEF Posts

-----------------------------------------------------------------------------
(* Types *)

LEMMA Typed ==
  ASSUME Typing, NEW d \in Desks, Window(d)
  PROVE  Typing'
  <1> USE DEF Typing, Places
  <1>1. CASE Opens(d) \/ Refreshes(d) \/ Loads(d) \/ SaveOpens(d) \/ SaveWrites(d)
    BY <1>1 DEF Opens, Refreshes, Loads, SaveOpens, SaveWrites, Goes
  <1>2. CASE \E k \in 1 .. Len(rows[d]) : Deletes(d, k)
    BY <1>2 DEF Deletes, Goes
  <1>3. CASE Types(d)
    <2>1. PICK t \in scene.typed : field' = [field EXCEPT ![d] = t]
      BY <1>3 DEF Types
    <2>2. t \in Texts
      BY <2>1 DEF Scene
    <2>3. typed' \in Nat /\ note' = [note EXCEPT ![d] = typed']
      BY <1>3 DEF Types
    <2>4. QED
      BY <1>3, <2>1, <2>2, <2>3 DEF Types
  <1>c. Cleared(d) => /\ field' \in [Desks -> Texts \cup {"none"}]
                      /\ note' \in [Desks -> Nat]
    BY DEF Cleared
  <1>g. \A where \in Places : Goes(d, where) => pc' \in [Desks -> Places]
    BY DEF Goes
  <1>4. CASE Creates(d)
    <2>1. CASE scene.bound
      BY <1>4, <1>g, <2>1 DEF Creates
    <2>2. CASE ~scene.bound
      <3>1. Cleared(d) /\ Goes(d, "save") /\ UNCHANGED <<scene, typed, api, served>>
        BY <1>4, <2>2 DEF Creates
      <3>2. QED
        BY <1>c, <1>g, <3>1
    <2>3. QED
      BY <2>1, <2>2
  <1>5. CASE Posts(d)
    <2>1. /\ pc' \in [Desks -> Places] /\ field' \in [Desks -> Texts \cup {"none"}]
          /\ note' \in [Desks -> Nat]
      <3>1. \/ Cleared(d) /\ Goes(d, "load")
            \/ Goes(d, "idle") /\ UNCHANGED <<field, note>>
        BY <1>5 DEF Posts
      <3>2. QED
        BY <1>c, <1>g, <3>1
    <2>2. PICK n \in 0 .. 2, key \in {0, note[d]}, text \in Texts \cup {"none"} :
                 Stores(n, key, text)
      BY <1>5, PostStores
    <2>3. served' \in Nat /\ api' \in Seq(Row)
      <3>1. n \in Nat /\ key \in Nat
        OBVIOUS
      <3>2. QED
        BY <2>2, <3>1, Storing
    <2>4. QED
      BY <1>5, <2>1, <2>3 DEF Posts
  <1>6. CASE Asks(d)
    <2>1. api' \in Seq(Row)
      BY <1>6, Removed DEF Asks
    <2>2. QED
      BY <1>6, <2>1 DEF Asks, Goes
  <1>7. CASE Closes(d)
    BY <1>7 DEF Closes, Goes
  <1>8. QED
    BY <1>1, <1>2, <1>3, <1>4, <1>5, <1>6, <1>7 DEF Window

-----------------------------------------------------------------------------
(* Notes and rows *)

\* A step that moves a window's handler, or empties its field, and no note.
LEMMA Quiet ==
  ASSUME Typing, Fields, Rows, NEW d \in Desks, NEW where,
         pc' = [pc EXCEPT ![d] = where], where # "post" \/ note[d] # 0,
         UNCHANGED <<api, typed, history>>,
         \/ UNCHANGED <<field, note>>
         \/ /\ where # "post"
            /\ field' = [field EXCEPT ![d] = "none"] /\ note' = [note EXCEPT ![d] = 0]
  PROVE  Fields' /\ Rows'
  <1>1. \A c \in Desks : note'[c] = note[c] \/ (note'[c] = 0 /\ where # "post" /\ c = d)
    BY DEF Typing
  <1>2. Fields'
    BY <1>1 DEF Typing, Fields
  <1>3. Rows'
    BY <1>1 DEF Rows, Keys, history
  <1>4. QED
    BY <1>2, <1>3

LEMMA TypesKeeps ==
  ASSUME Typing, Fields, Rows, NEW d \in Desks, Types(d)
  PROVE  Fields' /\ Rows'
  <1>1. /\ typed' = typed + 1 /\ note' = [note EXCEPT ![d] = typed + 1]
        /\ UNCHANGED <<pc, api, history>>
    BY DEF Types
  <1>2. PICK t \in Texts : field' = [field EXCEPT ![d] = t]
    BY DEF Types, Typing, Scene
  <1>3. t # "none"
    BY DEF Texts
  <1>4. \A c \in Desks : note'[c] = IF c = d THEN typed + 1 ELSE note[c]
    BY <1>1 DEF Typing
  <1>5. \A c \in Desks : note[c] \in 0 .. typed
    BY DEF Typing, Fields
  <1>6. Fields'
    <2>1. \A c \in Desks : note'[c] <= typed' /\ (pc'[c] = "post" => note'[c] # 0)
      BY <1>1, <1>4, <1>5 DEF Fields, Typing
    <2>2. \A c \in Desks : note'[c] = 0 <=> field'[c] = "none"
      BY <1>2, <1>3, <1>4, <1>5 DEF Fields, Typing
    <2>3. \A b, c \in Desks : note'[b] = note'[c] /\ note'[b] # 0 => b = c
      BY <1>4, <1>5 DEF Fields, Typing
    <2>4. QED
      BY <2>1, <2>2, <2>3 DEF Fields
  <1>7. \A n \in 1 .. Len(api) : api[n].key \in 0 .. typed
    BY DEF Rows
  <1>8. Rows'
    <2>1. \A n \in 1 .. Len(api) : api[n].key \in 0 .. typed'
      BY <1>1, <1>7 DEF Typing
    <2>2. \A n \in 1 .. Len(api) : \A c \in Desks :
            note'[c] = api[n].key => note'[c] \in lost \cup {0}
      BY <1>4, <1>7 DEF Typing, Rows
    <2>3. QED
      BY <1>1, <2>1, <2>2 DEF Rows, Keys, history
  <1>9. QED
    BY <1>6, <1>8

\* A row that goes takes no account with it.
LEMMA AsksKeeps ==
  ASSUME Typing, Fields, Rows, NEW d \in Desks, Asks(d)
  PROVE  Fields' /\ Rows'
  <1>1. Fields'
    BY DEF Asks, Goes, Fields, Typing
  <1>2. /\ UNCHANGED <<typed, note, made, lost, refused>>
    BY DEF Asks
  <1>3. CASE UNCHANGED <<api, dropped>>
    BY <1>1, <1>2, <1>3 DEF Rows, Keys
  <1>4. ASSUME NEW i \in 1 .. Len(api), api' = RemoveAt(api, i),
               dropped' = dropped \cup (Keys(api) \ Keys(api'))
        PROVE  Rows'
    <2>0. api \in Seq(Row)
      BY DEF Typing
    <2>1. \A m, n \in 1 .. Len(api') :
            \E k, l \in 1 .. Len(api) :
              /\ api'[m] = api[k] /\ api'[n] = api[l]
              /\ m # n => k # l
      <3> DEFINE less == RemoveAt(api, i)
      <3>1. \A m, n \in 1 .. Len(less) :
              \E k, l \in 1 .. Len(api) :
                /\ less[m] = api[k] /\ less[n] = api[l]
                /\ m # n => k # l
        BY <2>0, RemovedKeys
      <3>2. api' = less
        BY <1>4
      <3> HIDE DEF less
      <3>3. QED
        BY <3>1, <3>2
    <2>2. \A n \in 1 .. Len(api') : api'[n].key \in 0 .. typed'
      BY <1>2, <2>1 DEF Rows
    <2>3. \A m, n \in 1 .. Len(api') :
            m # n /\ api'[m].key = api'[n].key => api'[n].key \in lost' \cup {0}
      <3> SUFFICES ASSUME NEW m \in 1 .. Len(api'), NEW n \in 1 .. Len(api'),
                          m # n, api'[m].key = api'[n].key
          PROVE  api'[n].key \in lost' \cup {0}
        OBVIOUS
      <3>1. PICK k, l \in 1 .. Len(api) : /\ api'[m] = api[k] /\ api'[n] = api[l]
                                          /\ k # l
        BY <2>1
      <3>2. QED
        BY <1>2, <3>1 DEF Rows
    <2>4. \A n \in 1 .. Len(api') : \A c \in Desks :
            note'[c] = api'[n].key => note'[c] \in lost' \cup {0}
      <3> SUFFICES ASSUME NEW n \in 1 .. Len(api'), NEW c \in Desks, note'[c] = api'[n].key
                   PROVE  note'[c] \in lost' \cup {0}
        OBVIOUS
      <3>1. PICK k \in 1 .. Len(api) : api'[n] = api[k]
        BY <2>1
      <3>2. note[c] = api[k].key
        BY <1>2, <3>1
      <3>3. QED
        BY <1>2, <3>2 DEF Rows
    <2>5. made' \subseteq dropped' \cup refused' \cup Keys(api')
      BY <1>2, <1>4 DEF Rows
    <2>6. Keys(api)' = Keys(api')
      BY DEF Keys
    <2>7. QED
      BY <2>2, <2>3, <2>4, <2>5, <2>6 DEF Rows
  <1>5. QED
    BY <1>1, <1>3, <1>4 DEF Asks

LEMMA PostsKeeps ==
  ASSUME Typing, Fields, Rows, NEW d \in Desks, Posts(d)
  PROVE  Fields' /\ Rows'
  <1> DEFINE k == note[d]
  <1>1. k \in 1 .. typed
    BY DEF Posts, Fields, Typing
  <1>2. UNCHANGED <<typed, dropped>> /\ lost \subseteq lost' /\ refused \subseteq refused'
    BY DEF Posts
  <1>3. \A c \in Desks : note'[c] = note[c] \/ (c = d /\ note'[c] = 0)
    BY DEF Posts, Cleared, Typing
  <1>4. Fields'
    <2>1. CASE Cleared(d) /\ Goes(d, "load")
      BY <1>2, <1>3, <2>1 DEF Cleared, Goes, Fields, Typing
    <2>2. CASE Goes(d, "idle") /\ UNCHANGED <<field, note>>
      BY <1>2, <2>2 DEF Goes, Fields, Typing
    <2>3. QED
      BY <2>1, <2>2 DEF Posts
  <1>5. PICK n \in 0 .. 2, key \in {0, k}, text \in Texts \cup {"none"} :
               /\ Stores(n, key, text)
               /\ Answered(d, n, key, text)
               /\ made' \subseteq made \cup refused' \cup (IF n = 0 THEN {} ELSE {key})
    BY PostStores
  <1>6. /\ Len(api) \in Nat /\ Len(api') = Len(api) + n
        /\ \A m \in 1 .. Len(api) : api'[m] = api[m]
        /\ \A m \in Len(api) + 1 .. Len(api) + n : api'[m].key = key
    <2>1. n \in Nat /\ key \in Nat
      BY <1>1, <1>5 DEF Typing
    <2>2. Len(api) \in Nat
      BY DEF Typing
    <2>3. QED
      BY <1>5, <2>1, <2>2, Storing
  <1>7. \A m \in 1 .. Len(api') : m \in 1 .. Len(api) \/ m \in Len(api) + 1 .. Len(api) + n
    BY <1>6
  <1>8. \A m \in 1 .. Len(api) : api[m].key = k => k \in lost
    BY <1>1 DEF Rows
  <1>9. \A m \in 1 .. Len(api') : api'[m].key \in 0 .. typed'
    <2>1. key \in 0 .. typed
      <3>1. typed \in Nat
        BY DEF Typing
      <3>2. QED
        BY <1>1, <1>5, <3>1
    <2>2. QED
      BY <1>2, <1>6, <1>7, <2>1 DEF Rows
  <1>10. n >= 2 => key \in lost' \cup {0}
    BY <1>5 DEF Answered
  <1>11. \A l, m \in 1 .. Len(api') :
            l # m /\ api'[l].key = api'[m].key => api'[m].key \in lost' \cup {0}
    <2> SUFFICES ASSUME NEW l \in 1 .. Len(api'), NEW m \in 1 .. Len(api'),
                        l # m, api'[l].key = api'[m].key
                 PROVE  api'[m].key \in lost' \cup {0}
      OBVIOUS
    <2>1. CASE l \in 1 .. Len(api) /\ m \in 1 .. Len(api)
      BY <1>2, <1>6, <2>1 DEF Rows
    <2>2. CASE l \in Len(api) + 1 .. Len(api) + n /\ m \in Len(api) + 1 .. Len(api) + n
      <3>1. n >= 2
        BY <1>6, <2>2
      <3>2. QED
        BY <1>6, <1>10, <2>2, <3>1
    <2>3. CASE \/ l \in 1 .. Len(api) /\ m \in Len(api) + 1 .. Len(api) + n
               \/ m \in 1 .. Len(api) /\ l \in Len(api) + 1 .. Len(api) + n
      <3>1. api'[m].key = key /\ \E i \in 1 .. Len(api) : api[i].key = key
        <4>1. CASE l \in 1 .. Len(api) /\ m \in Len(api) + 1 .. Len(api) + n
          BY <1>6, <4>1
        <4>2. CASE m \in 1 .. Len(api) /\ l \in Len(api) + 1 .. Len(api) + n
          BY <1>6, <4>2
        <4>3. QED
          BY <2>3, <4>1, <4>2
      <3>2. key = 0 \/ key \in lost
        BY <1>5, <1>8, <3>1
      <3>3. QED
        BY <1>2, <3>1, <3>2
    <2>4. QED
      BY <1>7, <2>1, <2>2, <2>3
  <1>12. \A m \in 1 .. Len(api') : \A c \in Desks :
            note'[c] = api'[m].key => note'[c] \in lost' \cup {0}
    <2>1. \A m \in 1 .. Len(api) : \A c \in Desks :
            note'[c] = api[m].key => note'[c] \in lost' \cup {0}
      BY <1>2, <1>3 DEF Rows
    <2>2. note'[d] = 0 \/ key = 0 \/ k \in lost'
      BY <1>5 DEF Answered
    <2>3. \A c \in Desks : note'[c] = k => c = d
      BY <1>1, <1>3 DEF Fields
    <2>4. \A c \in Desks : note'[c] = key => note'[c] \in lost' \cup {0}
      BY <1>1, <1>5, <2>2, <2>3
    <2>5. QED
      BY <1>6, <1>7, <2>1, <2>4
  <1>13. made' \subseteq dropped' \cup refused' \cup Keys(api')
    <2>1. \A m \in 1 .. Len(api) : m \in 1 .. Len(api')
      BY <1>6
    <2>2. Keys(api) \subseteq Keys(api')
      BY <1>6, <2>1 DEF Keys
    <2>3. n # 0 /\ key # 0 => key \in Keys(api')
      <3>1. n # 0 => Len(api) + 1 \in 1 .. Len(api') /\ api'[Len(api) + 1].key = key
        BY <1>6
      <3>2. QED
        BY <3>1 DEF Keys
    <2>4. 0 \notin made' \ made
      BY <1>1 DEF Posts, Cleared
    <2>5. QED
      BY <1>2, <1>5, <2>2, <2>3, <2>4 DEF Rows
  <1>14. Keys(api)' = Keys(api')
    BY DEF Keys
  <1>15. QED
    BY <1>4, <1>9, <1>11, <1>12, <1>13, <1>14 DEF Rows

LEMMA WindowKeeps ==
  ASSUME Typing, Fields, Rows, scene.bound, NEW d \in Desks, Window(d)
  PROVE  Fields' /\ Rows'
  <1>1. CASE Opens(d) \/ Refreshes(d) \/ Loads(d) \/ SaveOpens(d) \/ SaveWrites(d)
    <2>1. PICK where \in {"load", "idle", "write"} : Goes(d, where)
      BY <1>1 DEF Opens, Refreshes, Loads, SaveOpens, SaveWrites
    <2>2. UNCHANGED <<api, typed, history, field, note>>
      BY <1>1 DEF Opens, Refreshes, Loads, SaveOpens, SaveWrites
    <2>3. QED
      BY <2>1, <2>2, Quiet DEF Goes
  <1>2. CASE \E k \in 1 .. Len(rows[d]) : Deletes(d, k)
    <2>1. Goes(d, "delete") /\ UNCHANGED <<api, typed, history, field, note>>
      BY <1>2 DEF Deletes, history
    <2>2. QED
      BY <2>1, Quiet DEF Goes
  <1>3. CASE Creates(d)
    <2>1. /\ Goes(d, "post") /\ UNCHANGED <<api, typed, history, field, note>>
          /\ field[d] # "none"
      BY <1>3 DEF Creates, history
    <2>2. note[d] # 0
      BY <2>1 DEF Fields
    <2>3. QED
      BY <2>1, <2>2, Quiet DEF Goes
  <1>4. CASE Closes(d)
    <2>1. /\ Goes(d, "closed") /\ UNCHANGED <<api, typed, history>>
          /\ field' = [field EXCEPT ![d] = "none"] /\ note' = [note EXCEPT ![d] = 0]
      BY <1>4 DEF Closes
    <2>2. QED
      BY <2>1, Quiet DEF Goes
  <1>5. QED
    BY <1>1, <1>2, <1>3, <1>4, TypesKeeps, AsksKeeps, PostsKeeps DEF Window

LEMMA NextAccounted == Accounted /\ [Next]_vars => Accounted'
  <1> SUFFICES ASSUME Accounted, [Next]_vars PROVE Accounted'
    OBVIOUS
  <1>1. CASE UNCHANGED vars
    BY <1>1 DEF vars, window, history, Accounted, Typing, Fields, Rows, Keys
  <1>2. ASSUME NEW d \in Desks, Window(d) PROVE Accounted'
    <2>1. Typing'
      BY <1>2, Typed DEF Accounted
    <2>2. scene' = scene
      BY <1>2 DEF Window, Opens, Refreshes, Loads, Types, Creates, Posts, Asks, SaveOpens,
                  SaveWrites, Closes, Deletes
    <2>3. scene.bound => Fields' /\ Rows'
      BY <1>2, WindowKeeps DEF Accounted
    <2>4. QED
      BY <2>1, <2>2, <2>3 DEF Accounted
  <1>3. QED
    BY <1>1, <1>2 DEF Next

(* However many windows create, delete and reload over one Keel API, a     *)
(* note is stored twice only when an answer was lost, and is gone only     *)
(* when it was deleted or refused. (ui_post_create, http_do)               *)
THEOREM NotesAreAccounted == Spec => []CreatedOnce
  <1>1. ASSUME Accounted, scene.bound, NEW k \in 1 .. typed
        PROVE  /\ Stored(k) > 1 => k \in lost
               /\ Stored(k) = 0 => k \in dropped \cup refused \/ k \notin made
    <2> DEFINE places == {n \in 1 .. Len(api) : api[n].key = k}
    <2>1. Len(api) \in Nat /\ Rows /\ k # 0
      BY <1>1 DEF Accounted, Typing
    <2>2. IsFiniteSet(places)
      <3>1. IsFiniteSet(1 .. Len(api)) /\ places \subseteq 1 .. Len(api)
        BY <2>1, FS_Interval
      <3>2. QED
        BY <3>1, FS_Subset
    <2>3. ASSUME k \notin lost PROVE Stored(k) <= 1
      <3>1. \A m, n \in places : m = n
        BY <2>1, <2>3 DEF Rows
      <3>2. CASE places = {}
        BY <3>2, FS_EmptySet DEF Stored
      <3>3. ASSUME NEW n \in places PROVE Stored(k) <= 1
        <4>1. places = {n}
          BY <3>1, <3>3
        <4>2. Cardinality(places) = 1
          BY <4>1, FS_Singleton
        <4>3. QED
          BY <4>2 DEF Stored
      <3>4. QED
        BY <3>2, <3>3
    <2>4. Stored(k) \in Nat
      BY <2>2, FS_CardinalityType DEF Stored
    <2>5. ASSUME Stored(k) = 0 PROVE k \notin Keys(api)
      <3>1. places = {}
        BY <2>2, <2>5, FS_EmptySet DEF Stored
      <3>2. QED
        BY <3>1 DEF Keys
    <2>6. QED
      BY <2>1, <2>3, <2>4, <2>5 DEF Rows
  <1>2. Accounted => CreatedOnce
    BY <1>1 DEF CreatedOnce
  <1>3. QED
    BY InitAccounted, NextAccounted, <1>2, PTL DEF Spec

-----------------------------------------------------------------------------
(* The ids of a desk *)

Listing ==
  /\ rows \in [Desks -> Seq(Row)] /\ next \in [Desks -> Nat \ {0}]
  /\ file \in Seq(Row)

Below(rs, m) == \A n \in 1 .. Len(rs) : rs[n].id < m

\* A window's ids are its own, and below the next that it gives.
Desk(d) == Told(rows[d]) /\ Below(rows[d], next[d])

Distinct ==
  ~scene.bound /\ ~overlaid => Told(file) /\ \A d \in Desks : Desk(d)

IdsInv == Typing /\ Listing /\ Distinct

LEMMA RowFields ==
  ASSUME NEW rs \in Seq(Row)
  PROVE  /\ Len(rs) \in Nat
         /\ \A n \in 1 .. Len(rs) : rs[n] \in Row /\ rs[n].id \in Nat /\ rs[n].key \in Nat
  <1>1. \A r \in Row : r.id \in Nat /\ r.key \in Nat
    BY DEF Row
  <1>2. Len(rs) \in Nat /\ \A n \in 1 .. Len(rs) : rs[n] \in Row
    OBVIOUS
  <1>3. QED
    BY <1>1, <1>2

LEMMA NextIdBelow ==
  ASSUME NEW rs \in Seq(Row)
  PROVE  NextId(rs) \in Nat \ {0} /\ Below(rs, NextId(rs))
  <1> DEFINE N == Len(rs)
             ids == {0} \cup {rs[n].id : n \in 1 .. N}
             Top(i, x) == x \in ids /\ \A n \in 1 .. i : rs[n].id <= x
             S == {i \in 0 .. N : \E x : Top(i, x)}
  <1>1. N \in Nat /\ \A n \in 1 .. N : rs[n].id \in Nat
    BY RowFields
  <1>2. 0 \in S
    <2>1. Top(0, 0)
      OBVIOUS
    <2> HIDE DEF Top
    <2>2. QED
      BY <1>1, <2>1
  <1>3. ASSUME NEW i \in 1 .. N, i - 1 \in S PROVE i \in S
    <2>1. PICK x : Top(i - 1, x)
      <3> HIDE DEF Top
      <3>1. QED
        BY <1>3
    <2>2. \A n \in 1 .. i : n \in 1 .. i - 1 \/ n = i
      BY <1>1
    <2>3. x \in Nat /\ rs[i].id \in Nat /\ rs[i].id \in ids
      BY <1>1, <2>1
    <2>4. Top(i, x) \/ Top(i, rs[i].id)
      <3>1. CASE rs[i].id <= x
        BY <2>1, <2>2, <3>1
      <3>2. CASE ~(rs[i].id <= x)
        <4>1. \A n \in 1 .. i - 1 : rs[n].id <= rs[i].id
          BY <1>1, <2>1, <2>3, <3>2
        <4>2. QED
          BY <2>2, <2>3, <4>1
      <3>3. QED
        BY <3>1, <3>2
    <2> HIDE DEF Top
    <2>5. QED
      BY <2>4
  <1>4. \A i \in 0 .. N : i \in S
    <2> HIDE DEF S, N
    <2>1. QED
      BY <1>1, <1>2, <1>3, OneByOne
  <1>5. PICK x : Top(N, x)
    <2> HIDE DEF Top
    <2>1. QED
      BY <1>1, <1>4
  <1>6. x \in ids /\ \A y \in ids : x >= y
    BY <1>1, <1>5
  <1>7. PICK m : m = Max(ids)
    OBVIOUS
  <1>8. m \in ids /\ \A y \in ids : m >= y
    <2> HIDE DEF ids
    <2>1. QED
      BY <1>6, <1>7 DEF Max
  <1>9. NextId(rs) = m + 1
    BY <1>7 DEF NextId
  <1>10. m \in Nat /\ \A n \in 1 .. N : rs[n].id <= m
    BY <1>1, <1>8
  <1> HIDE DEF ids
  <1>11. QED
    BY <1>1, <1>9, <1>10 DEF Below

LEMMA InitIds == Init => IdsInv
  <1> SUFFICES ASSUME Init PROVE IdsInv
    OBVIOUS
  <1>1. Typing
    BY InitAccounted DEF Accounted
  <1>2. NoFile \in Seq(Row) /\ Len(NoFile) = 1
    BY DEF NoFile, Row
  <1>3. Told(NoFile)
    BY <1>2 DEF Told
  <1>4. Listing
    BY <1>2, EmptySeq DEF Init, Listing
  <1>5. \A d \in Desks : Desk(d)
    BY DEF Init, Desk, Told, Below
  <1>6. QED
    BY <1>1, <1>3, <1>4, <1>5 DEF Init, IdsInv, Distinct

LEMMA LoadsKeepsIds ==
  ASSUME IdsInv, NEW d \in Desks, Loads(d)
  PROVE  Listing' /\ Distinct'
  <1>1. UNCHANGED <<scene, file, overlaid>>
    BY DEF Loads
  <1>2. PICK all : all = IF scene.bound THEN api ELSE file
    OBVIOUS
  <1>3. \/ ShowsNone(d)
        \/ \E rs \in {<<>>, Parsed(all)} : Shows(d, rs)
    BY <1>2 DEF Loads
  <1>4. all \in Seq(Row) /\ (~scene.bound /\ ~overlaid => Told(all))
    BY <1>2 DEF IdsInv, Typing, Listing, Distinct
  <1>5. CASE ShowsNone(d)
    <2>1. rows' = [rows EXCEPT ![d] = <<>>] /\ next' = next
      BY <1>5 DEF ShowsNone
    <2>2. Listing'
      BY <1>1, <2>1, EmptySeq DEF IdsInv, Listing
    <2>3. Distinct'
      BY <1>1, <2>1 DEF IdsInv, Listing, Distinct, Desk, Told, Below
    <2>4. QED
      BY <2>2, <2>3
  <1>6. ASSUME NEW rs \in {<<>>, Parsed(all)}, Shows(d, rs) PROVE Listing' /\ Distinct'
    <2>1. rs \in Seq(Row) /\ (~scene.bound /\ ~overlaid => Told(rs))
      <3>1. CASE rs = <<>>
        BY <3>1, EmptySeq DEF Told
      <3>2. CASE rs = Parsed(all)
        BY <1>4, <3>2, ParsedTold
      <3>3. QED
        BY <3>1, <3>2
    <2>2. rows' = [rows EXCEPT ![d] = rs] /\ next' = [next EXCEPT ![d] = NextId(rs)]
      BY <1>6 DEF Shows
    <2>3. NextId(rs) \in Nat \ {0} /\ Below(rs, NextId(rs))
      BY <2>1, NextIdBelow
    <2>4. Listing'
      BY <1>1, <2>1, <2>2, <2>3 DEF IdsInv, Listing
    <2>5. ASSUME ~scene.bound, ~overlaid, NEW c \in Desks PROVE Desk(c)'
      BY <2>1, <2>2, <2>3, <2>5 DEF IdsInv, Listing, Distinct, Desk
    <2>6. QED
      BY <1>1, <2>4, <2>5 DEF IdsInv, Distinct
  <1>7. QED
    BY <1>3, <1>5, <1>6

\* The rows that a desk with one more note has.
LEMMA OneMore ==
  ASSUME NEW rs \in Seq(Row), NEW m \in Nat, Told(rs), Below(rs, m),
         NEW r \in Row, r.id = m, NEW more, more = Append(rs, r)
  PROVE  Told(more) /\ Below(more, m + 1)
  <1>1. /\ Len(rs) \in Nat /\ Len(more) = Len(rs) + 1 /\ more[Len(rs) + 1] = r
        /\ \A n \in 1 .. Len(rs) : more[n] = rs[n]
    BY AppendProperties
  <1>0. \A n \in 1 .. Len(rs) : rs[n].id \in Nat /\ rs[n].id < m
    BY RowFields DEF Below
  <1>2. \A n \in 1 .. Len(more) : n \in 1 .. Len(rs) \/ n = Len(rs) + 1
    BY <1>1
  <1>3. \A i, j \in 1 .. Len(more) : i # j /\ more[i].id # 0 => more[i].id # more[j].id
    BY <1>0, <1>1, <1>2 DEF Told
  <1>4. \A n \in 1 .. Len(more) : more[n].id < m + 1
    BY <1>0, <1>1, <1>2
  <1>5. QED
    BY <1>3, <1>4 DEF Told, Below

LEMMA CreatesKeepsIds ==
  ASSUME IdsInv, NEW d \in Desks, Creates(d)
  PROVE  Listing' /\ Distinct'
  <1>1. UNCHANGED <<scene, file, overlaid>>
    BY DEF Creates
  <1>2. CASE scene.bound
    BY <1>1, <1>2 DEF Creates, IdsInv, Listing, Distinct
  <1>3. CASE ~scene.bound
    <2>1. PICK r : r = [id |-> next[d], key |-> note[d], text |-> field[d]]
      OBVIOUS
    <2>2. PICK more : more = Append(rows[d], r)
      OBVIOUS
    <2>3. r \in Row /\ r.id = next[d] /\ rows[d] \in Seq(Row) /\ next[d] \in Nat
      BY <2>1 DEF IdsInv, Typing, Listing, Row
    <2>4. rows' = [rows EXCEPT ![d] = more] /\ next' = [next EXCEPT ![d] = @ + 1]
      BY <1>3, <2>1, <2>2 DEF Creates
    <2>5. more \in Seq(Row)
      BY <2>2, <2>3, AppendProperties
    <2>6. Listing'
      BY <1>1, <2>4, <2>5 DEF IdsInv, Listing
    <2>7. ASSUME ~overlaid, NEW c \in Desks PROVE Desk(c)'
      <3>1. Desk(c) /\ Desk(d)
        BY <1>3, <2>7 DEF IdsInv, Distinct
      <3>2. Told(more) /\ Below(more, next[d] + 1)
        BY <2>2, <2>3, <3>1, OneMore DEF Desk
      <3>3. QED
        BY <2>4, <3>1, <3>2 DEF IdsInv, Listing, Desk
    <2>8. QED
      BY <1>1, <2>6, <2>7 DEF IdsInv, Distinct
  <1>4. QED
    BY <1>2, <1>3

LEMMA DeletesKeepsIds ==
  ASSUME IdsInv, NEW d \in Desks, NEW k \in 1 .. Len(rows[d]), Deletes(d, k)
  PROVE  Listing' /\ Distinct'
  <1>1. UNCHANGED <<scene, next, file, overlaid>>
    BY DEF Deletes
  <1>2. CASE scene.bound
    BY <1>1, <1>2 DEF Deletes, IdsInv, Listing, Distinct
  <1>3. CASE ~scene.bound
    <2>1. PICK rs : rs = rows[d]
      OBVIOUS
    <2>2. PICK c : c = Compacted(rs, k)
      OBVIOUS
    <2>3. rs \in Seq(Row) /\ k \in 1 .. Len(rs) /\ rs[k].id # 0
      BY <2>1 DEF Deletes, IdsInv, Listing
    <2>4. rows' = [rows EXCEPT ![d] = c]
      BY <1>3, <2>1, <2>2 DEF Deletes
    <2>5. c \in Seq(Row)
      BY <2>2, <2>3, CompactedType
    <2>6. Listing'
      BY <1>1, <2>4, <2>5 DEF IdsInv, Listing
    <2>7. ASSUME ~overlaid, NEW e \in Desks PROVE Desk(e)'
      <3>1. Told(rs)
        BY <1>3, <2>1, <2>7 DEF IdsInv, Distinct, Desk
      <3>2. Desk(e) /\ Below(rs, next[d])
        BY <1>3, <2>1, <2>7 DEF IdsInv, Distinct, Desk
      <3>3. /\ Told(c)
            /\ \A n \in 1 .. Len(c) : \E m \in 1 .. Len(rs) : c[n] = rs[m]
        BY ONLY <2>2, <2>3, <3>1, CompactedTakesOut
      <3>4. Below(c, next[d])
        BY <3>2, <3>3 DEF Below
      <3>5. QED
        BY <1>1, <2>4, <3>2, <3>3, <3>4 DEF IdsInv, Listing, Desk
    <2>8. QED
      BY <1>1, <2>6, <2>7 DEF IdsInv, Distinct
  <1>4. QED
    BY <1>2, <1>3

\* The head of a file is told apart where the whole of it is.
LEMMA HeadTold ==
  ASSUME NEW rs \in Seq(Row), NEW m \in 0 .. Len(rs), NEW h, h = SubSeq(rs, 1, m)
  PROVE  h \in Seq(Row) /\ Len(h) = m /\ (Told(rs) => Told(h))
  <1>1. h \in Seq(Row) /\ Len(h) = m /\ \A n \in 1 .. m : h[n] = rs[n]
    BY SubSeqProperties
  <1>2. \A n \in 1 .. m : n \in 1 .. Len(rs)
    OBVIOUS
  <1>3. Told(rs) => \A i, j \in 1 .. m : i # j /\ h[i].id # 0 => h[i].id # h[j].id
    BY <1>1, <1>2 DEF Told
  <1>4. QED
    BY <1>1, <1>3 DEF Told

\* The rows at the head of the file, and what stays behind them.
LEMMA Overlay ==
  ASSUME file \in Seq(Row), NEW rs \in Seq(Row), NEW rest \in Leftovers
  PROVE  /\ rs \o rest \in Seq(Row)
         /\ rest = <<>> => rs \o rest = rs
         /\ file = <<>> => rest = <<>>
  <1>1. rest \in Seq(Row)
    <2>1. CASE rest = <<>>
      BY <2>1
    <2>2. ASSUME NEW m \in 2 .. Len(file), rest = SubSeq(file, m, Len(file))
          PROVE  rest \in Seq(Row)
      <3>1. m \in 1 .. Len(file) + 1 /\ Len(file) \in 0 .. Len(file)
        OBVIOUS
      <3>2. \A i \in m .. Len(file) : file[i] \in Row
        BY <3>1
      <3>3. QED
        BY <2>2, <3>1, <3>2, SubSeqProperties
    <2>3. QED
      BY <2>1, <2>2 DEF Leftovers
  <1>2. rs \o rest \in Seq(Row)
    BY <1>1, ConcatProperties
  <1>3. file = <<>> => rest = <<>>
    BY DEF Leftovers
  <1>4. rest = <<>> => rs \o rest = rs
    BY ConcatEmptySeq
  <1>5. QED
    BY <1>2, <1>3, <1>4

LEMMA SaveWritesKeepsIds ==
  ASSUME IdsInv, NEW d \in Desks, SaveWrites(d)
  PROVE  Listing' /\ Distinct'
  <1>1. UNCHANGED <<scene, rows, next>>
    BY DEF SaveWrites
  <1>2. PICK rs : rs = rows[d]
    OBVIOUS
  <1>3. rs \in Seq(Row) /\ file \in Seq(Row) /\ (~scene.bound /\ ~overlaid => Told(rs))
    BY <1>2 DEF IdsInv, Listing, Distinct, Desk
  <1>4. file' \in Seq(Row) /\ (~scene.bound /\ ~overlaid' => ~overlaid /\ Told(file'))
    <2>1. CASE \E rest \in Leftovers : /\ file' = rs \o rest
                                       /\ overlaid' = (overlaid \/ rest # <<>>)
      <3>1. PICK rest \in Leftovers : /\ file' = rs \o rest
                                      /\ overlaid' = (overlaid \/ rest # <<>>)
        BY <2>1
      <3>2. file' \in Seq(Row) /\ (rest = <<>> => file' = rs)
        BY <1>3, <3>1, Overlay
      <3>3. ~overlaid' => ~overlaid /\ rest = <<>>
        BY <3>1, Zenon
      <3>4. QED
        BY <1>3, <3>2, <3>3
    <2>2. CASE /\ \E m \in 0 .. Len(rs) - 1 : file' = SubSeq(rs, 1, m)
               /\ UNCHANGED overlaid
      <3>1. PICK m \in 0 .. Len(rs) - 1 : file' = SubSeq(rs, 1, m)
        BY <2>2
      <3>2. m \in 0 .. Len(rs)
        BY <1>3
      <3>3. file' \in Seq(Row) /\ (Told(rs) => Told(file'))
        BY <1>3, <3>1, <3>2, HeadTold
      <3>4. QED
        BY <1>3, <2>2, <3>3
    <2>3. QED
      BY <1>2, <2>1, <2>2 DEF SaveWrites
  <1>5. Listing'
    BY <1>1, <1>4 DEF IdsInv, Listing
  <1>6. QED
    BY <1>1, <1>4, <1>5 DEF IdsInv, Distinct, Desk

LEMMA WindowKeepsIds ==
  ASSUME IdsInv, NEW d \in Desks, Window(d)
  PROVE  IdsInv'
  <1>1. Typing'
    BY Typed DEF IdsInv
  <1>2. CASE Opens(d) \/ Refreshes(d) \/ Types(d) \/ Posts(d) \/ Asks(d)
    <2>1. UNCHANGED <<scene, rows, next, file, overlaid>>
      BY <1>2 DEF Opens, Refreshes, Types, Posts, Asks
    <2>2. QED
      BY <1>1, <2>1 DEF IdsInv, Listing, Distinct, Desk
  <1>3. CASE SaveOpens(d)
    <2>1. UNCHANGED <<scene, rows, next, overlaid>> /\ (file' = <<>> \/ UNCHANGED file)
      BY <1>3 DEF SaveOpens
    <2>2. Told(<<>>) /\ <<>> \in Seq(Row)
      BY EmptySeq DEF Told
    <2>3. QED
      BY <1>1, <2>1, <2>2 DEF IdsInv, Listing, Distinct, Desk
  <1>4. CASE Closes(d)
    <2>1. /\ UNCHANGED <<scene, file, overlaid>>
          /\ rows' = [rows EXCEPT ![d] = <<>>] /\ next' = [next EXCEPT ![d] = 1]
      BY <1>4 DEF Closes
    <2>2. Listing'
      BY <2>1, EmptySeq DEF IdsInv, Listing
    <2>3. ASSUME ~scene.bound, ~overlaid, NEW c \in Desks PROVE Desk(c)'
      <3>1. Desk(c) /\ Told(<<>>) /\ Below(<<>>, 1)
        BY <2>3 DEF IdsInv, Distinct, Told, Below
      <3>2. \/ rows'[c] = <<>> /\ next'[c] = 1
            \/ rows'[c] = rows[c] /\ next'[c] = next[c]
        BY <2>1 DEF IdsInv, Listing
      <3>3. QED
        BY <3>1, <3>2 DEF Desk
    <2>4. QED
      BY <1>1, <2>1, <2>2, <2>3 DEF IdsInv, Distinct
  <1>5. QED
    BY <1>1, <1>2, <1>3, <1>4, LoadsKeepsIds, CreatesKeepsIds, DeletesKeepsIds,
       SaveWritesKeepsIds DEF Window, IdsInv

LEMMA NextIds == IdsInv /\ [Next]_vars => IdsInv'
  <1> SUFFICES ASSUME IdsInv, [Next]_vars PROVE IdsInv'
    OBVIOUS
  <1>1. CASE UNCHANGED vars
    BY <1>1 DEF vars, window, history, IdsInv, Typing, Listing, Distinct, Desk
  <1>2. QED
    BY <1>1, WindowKeepsIds DEF Next

\* What one step of one window may do to a desk.
LEMMA DeletesOne ==
  ASSUME IdsInv, NEW c \in Desks, Window(c), NEW d \in Desks,
         pc[d] = "idle", pc'[d] = "save", Len(rows'[d]) <= Len(rows[d]), ~overlaid
  PROVE  \E k \in 1 .. Len(rows[d]) :
           /\ dropped' = dropped \cup {rows[d][k].key}
           /\ Numbered(rows'[d]) = Numbered(rows[d]) \ {rows[d][k]}
           /\ \/ rows'[d] = RemoveAt(rows[d], k)
              \/ k < Len(rows[d]) /\ rows[d][k + 1].id = 0
  <1>0. pc \in [Desks -> Places]
    BY DEF IdsInv, Typing
  <1>1. ~Opens(c) /\ ~Refreshes(c) /\ ~Loads(c) /\ ~Types(c) /\ ~Asks(c) /\ ~Closes(c)
    BY <1>0 DEF Opens, Refreshes, Loads, Types, Asks, Closes, Goes
  <1>2. ~Posts(c) /\ ~SaveOpens(c) /\ ~SaveWrites(c)
    BY <1>0 DEF Posts, SaveOpens, SaveWrites, Goes
  <1>3. ~Creates(c)
    <2>1. ASSUME Creates(c) PROVE FALSE
      <3>1. PICK where \in {"post", "save"} : pc' = [pc EXCEPT ![c] = where]
        BY <2>1 DEF Creates, Goes
      <3>2. c = d /\ where = "save"
        BY <1>0, <3>1
      <3>3. PICK r : rows' = [rows EXCEPT ![c] = Append(rows[c], r)] /\ r \in Row
        <4>1. ~scene.bound
          BY <1>0, <2>1, <3>2 DEF Creates, Goes
        <4>2. [id |-> next[c], key |-> note[c], text |-> field[c]] \in Row
          BY DEF IdsInv, Typing, Listing, Row
        <4>3. QED
          BY <2>1, <4>1, <4>2 DEF Creates
      <3>4. rows[d] \in Seq(Row) /\ rows'[d] = Append(rows[d], r)
        BY <3>2, <3>3 DEF IdsInv, Listing
      <3>5. Len(rows'[d]) = Len(rows[d]) + 1 /\ Len(rows[d]) \in Nat
        BY <3>3, <3>4, AppendProperties
      <3>6. QED
        BY <3>5
    <2>2. QED
      BY <2>1
  <1>4. PICK k \in 1 .. Len(rows[c]) : Deletes(c, k)
    BY <1>1, <1>2, <1>3 DEF Window
  <1>5. PICK where \in {"delete", "save"} : pc' = [pc EXCEPT ![c] = where]
    BY <1>4 DEF Deletes, Goes
  <1>6. c = d /\ where = "save"
    BY <1>0, <1>5
  <1>7. ~scene.bound
    BY <1>0, <1>4, <1>6 DEF Deletes, Goes
  <1>8. PICK rs : rs = rows[d]
    OBVIOUS
  <1>9. PICK x : x = Compacted(rs, k)
    OBVIOUS
  <1>10. rs \in Seq(Row) /\ k \in 1 .. Len(rs) /\ rs[k].id # 0 /\ Told(rs)
    BY <1>4, <1>6, <1>7, <1>8 DEF Deletes, IdsInv, Listing, Distinct, Desk
  <1>11. rows'[d] = x /\ dropped' = dropped \cup {rs[k].key}
    BY <1>4, <1>6, <1>7, <1>8, <1>9 DEF Deletes, IdsInv, Listing
  <1>12. /\ Numbered(x) = Numbered(rs) \ {rs[k]}
         /\ (k < Len(rs) => rs[k + 1].id # 0) => x = RemoveAt(rs, k)
    BY <1>9, <1>10, CompactedTakesOut
  <1>13. QED
    BY <1>8, <1>10, <1>11, <1>12

(* A delete takes the one note off the desk that was clicked, for any      *)
(* number of windows on the file, any failures and sizes, and whatever was *)
(* typed. (ui_delete_id, ui_parse_rows, ui_post_create)                    *)
THEOREM DeleteTakesOneNote == Spec => DeletesTheRow
  <1>1. IdsInv /\ [Next]_vars =>
          [\A d \in Desks :
             pc[d] = "idle" /\ pc'[d] = "save" /\ Len(rows'[d]) <= Len(rows[d]) /\ ~overlaid =>
               \E k \in 1 .. Len(rows[d]) :
                 /\ dropped' = dropped \cup {rows[d][k].key}
                 /\ Numbered(rows'[d]) = Numbered(rows[d]) \ {rows[d][k]}
                 /\ \/ rows'[d] = RemoveAt(rows[d], k)
                    \/ k < Len(rows[d]) /\ rows[d][k + 1].id = 0]_vars
    BY DeletesOne DEF Next
  <1>2. QED
    BY InitIds, NextIds, <1>1, PTL DEF Spec, DeletesTheRow

-----------------------------------------------------------------------------
(* A lone window on the file *)

Lone ==
  /\ ~scene.bound /\ Cardinality(scene.windows) = 1 /\ mishaps = 0
  /\ scene.typed \subseteq {"plain", "brace"}

Written == {"plain"} \cup (IF "brace" \in scene.typed THEN {"brace", "cut"} ELSE {})

\* Rows that stand for the notes of these keys, one each, with no text but these.
Listed(rs, keys, texts) ==
  /\ Len(rs) <= MaxRows /\ Keys(rs) = keys
  /\ \A n \in 1 .. Len(rs) : rs[n].id # 0 /\ rs[n].key # 0 /\ rs[n].text \in texts
  /\ \A m, n \in 1 .. Len(rs) : m # n => rs[m].key # rs[n].key

Saved == IF file = NoFile THEN <<>> ELSE file

Alone ==
  /\ \A c, d \in Desks : pc[c] # "absent" /\ pc[d] # "absent" => c = d
  /\ \A d \in Desks : pc[d] \notin {"post", "delete"}

\* A note in its field is none of those that ever left theirs.
Unmade ==
  /\ dropped \subseteq made /\ made \subseteq 1 .. typed
  /\ \A d \in Desks :
       /\ note[d] # 0 => pc[d] # "absent" /\ note[d] \in (1 .. typed) \ made
       /\ note[d] = 0 <=> field[d] = "none"
       /\ field[d] \in scene.typed \cup {"none"}

\* The notes are in the window or in the file, and in both but for a save.
Lists ==
  /\ \A d \in Desks :
       pc[d] \in {"idle", "save", "write"} => Listed(rows[d], made \ dropped, Written)
  /\ \A d \in Desks : pc[d] = "write" => file = <<>>
  /\ (\A d \in Desks : pc[d] \notin {"save", "write"}) => Listed(Saved, made \ dropped, Written)

InOrder == ~overlaid /\ Alone /\ Unmade /\ Lists

LoneInv == IdsInv /\ mishaps \in Nat /\ (Lone => InOrder)

\* The text of a note may be cut by a load, and it loses nothing else.
LEMMA ParsedWhole ==
  ASSUME NEW rs \in Seq(Row), Len(rs) <= MaxRows,
         \A n \in 1 .. Len(rs) : rs[n].text \in {"plain", "brace", "cut"}
  PROVE  /\ Len(Parsed(rs)) = Len(rs)
         /\ \A n \in 1 .. Len(rs) :
              /\ Parsed(rs)[n].id = rs[n].id /\ Parsed(rs)[n].key = rs[n].key
              /\ Parsed(rs)[n].text = IF rs[n].text = "plain" THEN "plain" ELSE "cut"
  <1>1. PICK fit \in 0 .. Len(rs), w \in [0 .. Len(rs) -> Nat] :
          /\ w[0] = 0 /\ \A i \in 1 .. Len(rs) : w[i] = w[i - 1] + Weight(rs[i])
          /\ \A n \in 0 .. Len(rs) : w[n] <= Buffer => n <= fit
          /\ LET read == FlattenSeq([n \in 1 .. fit |-> AsRead(rs[n])])
             IN Parsed(rs) = SubSeq(read, 1, Min({Len(read), MaxRows}))
    BY ParsedReads
  <1>2. Len(rs) \in Nat /\ \A n \in 1 .. Len(rs) : rs[n] \in Row
    OBVIOUS
  <1>3. PICK N \in Nat : N = Len(rs)
    BY <1>2
  <1>4. w[N] = N
    <2> DEFINE S == {i \in 0 .. N : w[i] = i}
    <2>1. 0 \in S
      BY <1>1, <1>3
    <2>2. ASSUME NEW i \in 1 .. N, i - 1 \in S PROVE i \in S
      <3>1. Weight(rs[i]) = 1
        BY <1>3 DEF Weight
      <3>2. w[i] = w[i - 1] + 1 /\ w[i - 1] = i - 1
        BY <1>1, <1>3, <2>2, <3>1
      <3>3. QED
        BY <3>2
    <2>3. \A i \in 0 .. N : i \in S
      <3> HIDE DEF S
      <3>1. QED
        BY <2>1, <2>2, OneByOne
    <2>4. QED
      BY <2>3
  <1>5. fit = N
    <2>1. N <= Buffer
      BY <1>3, BufferAssumption, SizesAssumption
    <2>2. N <= fit
      BY <1>1, <1>3, <1>4, <2>1
    <2>3. QED
      BY <1>3, <2>2
  <1> DEFINE objects == [n \in 1 .. N |-> AsRead(rs[n])]
             read == FlattenSeq(objects)
  <1>6. \A n \in 1 .. N : objects[n] = AsRead(rs[n])
    OBVIOUS
  <1>7. objects \in Seq(Seq(Row)) /\ Len(objects) = N
    <2>1. PICK A : A = Seq(Row)
      OBVIOUS
    <2>2. \A n \in 1 .. N : AsRead(rs[n]) \in A
      BY <1>2, <1>3, <2>1, ReadRow
    <2>3. objects \in Seq(A) /\ Len(objects) = N
      BY <2>2
    <2>4. QED
      BY <2>1, <2>3
  <1>8. Parsed(rs) = SubSeq(read, 1, Min({Len(read), MaxRows}))
    BY <1>1, <1>5
  <1> HIDE DEF objects
  <1>9. PICK f \in [0 .. N -> Seq(Row)] :
          /\ f[0] = <<>> /\ \A i \in 1 .. N : f[i] = f[i - 1] \o objects[i]
          /\ read = f[N]
    <2>1. \E f \in [0 .. Len(objects) -> Seq(Row)] :
            /\ f[0] = <<>> /\ \A i \in 1 .. Len(objects) : f[i] = f[i - 1] \o objects[i]
            /\ read = f[Len(objects)]
      BY <1>7, FlattenRuns
    <2>2. QED
      BY <1>7, <2>1
  <1> HIDE DEF read
  <1> DEFINE Same(r, n) == /\ r.id = rs[n].id /\ r.key = rs[n].key
                           /\ r.text = IF rs[n].text = "plain" THEN "plain" ELSE "cut"
  <1>10. ASSUME NEW n \in 1 .. N
         PROVE  \E r \in Row : AsRead(rs[n]) = <<r>> /\ Same(r, n)
    <2>1. rs[n] \in Row /\ rs[n].text \in {"plain", "brace", "cut"}
      BY <1>2, <1>3
    <2>2. CASE rs[n].text \in {"plain", "cut"}
      BY <2>1, <2>2, ReadRow
    <2>3. CASE rs[n].text = "brace"
      <3>1. PICK r : r = [rs[n] EXCEPT !.text = "cut"]
        OBVIOUS
      <3>2. r \in Row /\ Same(r, n)
        BY <2>1, <2>3, <3>1 DEF Row, Texts
      <3>3. AsRead(rs[n]) = <<r>>
        BY <2>1, <2>3, <3>1, ReadRow
      <3> HIDE DEF Same
      <3>4. QED
        BY <3>2, <3>3
    <2>4. QED
      BY <2>1, <2>2, <2>3
  <1> HIDE DEF Same
  <1> DEFINE At(i) == Len(f[i]) = i /\ \A n \in 1 .. i : Same(f[i][n], n)
             S == {i \in 0 .. N : At(i)}
  <1>11. N \in S
    <2>1. 0 \in S
      BY <1>9
    <2>2. ASSUME NEW i \in 1 .. N, i - 1 \in S PROVE i \in S
      <3>1. PICK a \in Seq(Row) : a = f[i - 1]
        BY <1>9
      <3>2. PICK r \in Row : AsRead(rs[i]) = <<r>> /\ Same(r, i)
        BY <1>10
      <3>3. PICK b \in Seq(Row) : b = f[i]
        BY <1>9
      <3>4. b = a \o <<r>>
        BY <1>6, <1>9, <3>1, <3>2, <3>3
      <3>5. Len(a) = i - 1 /\ \A n \in 1 .. i - 1 : Same(a[n], n)
        BY <2>2, <3>1
      <3>6. Len(b) = i /\ b[i] = r /\ \A n \in 1 .. i - 1 : b[n] = a[n]
        BY <3>4, <3>5
      <3>7. ASSUME NEW n \in 1 .. i PROVE Same(b[n], n)
        <4>1. CASE n = i
          BY <3>2, <3>6, <4>1, Zenon
        <4>2. CASE n # i
          <5>1. n \in 1 .. i - 1
            BY <4>2
          <5>2. QED
            BY <3>5, <3>6, <5>1, Zenon
        <4>3. QED
          BY <4>1, <4>2
      <3>8. QED
        BY <3>3, <3>6, <3>7
    <2>3. \A i \in 0 .. N : i \in S
      <3> HIDE DEF S
      <3>1. QED
        BY <2>1, <2>2, OneByOne
    <2>4. QED
      BY <2>3
  <1>12. read \in Seq(Row) /\ Len(read) = N /\ \A n \in 1 .. N : Same(read[n], n)
    <2>1. f[N] \in Seq(Row)
      BY <1>9
    <2>2. QED
      BY <1>9, <1>11, <2>1
  <1>13. Min({Len(read), MaxRows}) = N
    <2>1. MaxRows \in Nat /\ N <= MaxRows
      BY <1>3, SizesAssumption
    <2>2. Min({N, MaxRows}) = N
      BY <2>1, LesserOfTwo
    <2>3. QED
      BY <1>12, <2>2
  <1>14. PICK p : p = Parsed(rs)
    OBVIOUS
  <1>15. p = SubSeq(read, 1, N)
    BY <1>8, <1>13, <1>14
  <1>16. Len(p) = N /\ \A n \in 1 .. N : p[n] = read[n]
    BY <1>12, <1>15
  <1>17. \A n \in 1 .. N : Same(p[n], n)
    BY <1>12, <1>16
  <1>18. QED
    BY <1>3, <1>14, <1>16, <1>17 DEF Same

LEMMA InitLone == Init => LoneInv
  <1> SUFFICES ASSUME Init PROVE LoneInv
    OBVIOUS
  <1>1. IdsInv
    BY InitIds
  <1>2. mishaps \in Nat
    BY DEF Init
  <1>3. ASSUME Lone PROVE InOrder
    <2>1. PICK w : scene.windows = {w}
      <3>1. IsFiniteSet(scene.windows)
        BY <1>1, DesksAssumption, FS_Subset DEF IdsInv, Typing, Scene
      <3>2. QED
        BY <1>3, <3>1, FS_Singleton DEF Lone
    <2>2. Alone
      BY <2>1 DEF Init, Alone
    <2>3. Unmade
      BY DEF Init, Unmade
    <2>4. Listed(Saved, made \ dropped, Written)
      BY SizesAssumption DEF Init, Saved, Listed, Keys
    <2>5. Lists
      BY <2>4 DEF Init, Lists
    <2>6. QED
      BY <2>2, <2>3, <2>5 DEF Init, InOrder
  <1>4. QED
    BY <1>1, <1>2, <1>3 DEF LoneInv

\* A step of a window leaves it alone, or is a mishap.
LEMMA StillLone ==
  ASSUME mishaps \in Nat, NEW d \in Desks, Window(d)
  PROVE  /\ UNCHANGED scene /\ mishaps' \in Nat
         /\ Lone' => Lone /\ UNCHANGED mishaps
  <1>1. UNCHANGED scene
    BY DEF Window, Opens, Refreshes, Loads, Types, Creates, Posts, Asks, SaveOpens, SaveWrites,
           Closes, Deletes
  <1>2. mishaps' \in {mishaps, mishaps + 1}
    BY DEF Window, Opens, Refreshes, Loads, Types, Creates, Posts, Asks, SaveOpens, SaveWrites,
           Closes, Deletes, Mishap
  <1>3. Lone' => mishaps' = mishaps
    BY <1>2 DEF Lone
  <1>4. QED
    BY <1>1, <1>2, <1>3 DEF Lone

LEMMA InTexts == UNCHANGED scene => Written' = Written
  BY DEF Written

LEMMA LooksKeeps ==
  ASSUME IdsInv, Lone, InOrder, UNCHANGED scene, NEW d \in Desks,
         Opens(d) \/ Refreshes(d)
  PROVE  InOrder'
  <1>1. /\ UNCHANGED <<scene, rows, note, field, file, typed, made, dropped, overlaid>>
        /\ pc[d] \in {"closed", "idle"} /\ pc' = [pc EXCEPT ![d] = "load"]
    BY DEF Opens, Refreshes, Goes, history
  <1>2. pc \in [Desks -> Places] /\ Written' = Written
    BY InTexts DEF IdsInv, Typing
  <1>3. Alone'
    BY <1>1, <1>2 DEF InOrder, Alone
  <1>4. Unmade'
    BY <1>1, <1>2 DEF InOrder, Unmade
  <1>5. Saved' = Saved
    BY <1>1 DEF Saved
  <1>6. ASSUME NEW c \in Desks, pc'[c] # "load" PROVE pc[c] = pc'[c]
    BY <1>1, <1>2, <1>6
  <1>7. Lists'
    <2>1. ASSUME \A c \in Desks : pc'[c] \notin {"save", "write"}
          PROVE  \A c \in Desks : pc[c] \notin {"save", "write"}
      BY <1>1, <1>2, <2>1
    <2>2. QED
      BY <1>1, <1>2, <1>5, <1>6, <2>1 DEF InOrder, Lists
  <1>8. QED
    BY <1>1, <1>3, <1>4, <1>7 DEF InOrder

LEMMA TypesKeepsOrder ==
  ASSUME IdsInv, Lone, InOrder, UNCHANGED scene, NEW d \in Desks, Types(d)
  PROVE  InOrder'
  <1>1. UNCHANGED <<pc, rows, file, made, dropped, overlaid>>
    BY DEF Types, history
  <1>2. PICK t \in scene.typed : field' = [field EXCEPT ![d] = t]
    BY DEF Types
  <1>3. typed' = typed + 1 /\ note' = [note EXCEPT ![d] = typed + 1] /\ typed \in Nat
    BY DEF Types, IdsInv, Typing
  <1>4. t # "none" /\ pc[d] # "absent"
    BY DEF Types, Lone
  <1>5. /\ made \subseteq 1 .. typed
        /\ note \in [Desks -> Nat] /\ field \in [Desks -> Texts \cup {"none"}]
    BY DEF InOrder, Unmade, IdsInv, Typing
  <1>6. made \subseteq 1 .. typed + 1 /\ typed + 1 \in (1 .. typed + 1) \ made
    BY <1>3, <1>5
  <1>7. ASSUME NEW c \in Desks
        PROVE  /\ note'[c] # 0 => pc'[c] # "absent" /\ note'[c] \in (1 .. typed') \ made'
               /\ note'[c] = 0 <=> field'[c] = "none"
               /\ field'[c] \in scene'.typed \cup {"none"}
    <2>1. CASE c = d
      <3>1. note'[c] = typed + 1 /\ field'[c] = t /\ typed + 1 # 0
        BY <1>2, <1>3, <1>5, <2>1
      <3>2. QED
        BY <1>1, <1>3, <1>4, <1>6, <2>1, <3>1
    <2>2. CASE c # d
      <3>1. note'[c] = note[c] /\ field'[c] = field[c] /\ pc'[c] = pc[c]
        BY <1>1, <1>2, <1>3, <1>5, <2>2
      <3>2. 1 .. typed \subseteq 1 .. typed'
        BY <1>3
      <3>3. QED
        BY <1>1, <3>1, <3>2 DEF InOrder, Unmade
    <2>3. QED
      BY <2>1, <2>2
  <1>8. Unmade'
    BY <1>1, <1>3, <1>6, <1>7 DEF InOrder, Unmade
  <1>9. Alone' /\ Lists'
    BY <1>1, InTexts DEF InOrder, Alone, Lists, Saved
  <1>10. QED
    BY <1>1, <1>8, <1>9 DEF InOrder

\* A load lists what is in the file.
LEMMA ParsedListed ==
  ASSUME NEW rs \in Seq(Row), NEW keys, Lone, Listed(rs, keys, Written)
  PROVE  Listed(Parsed(rs), keys, Written)
  <1>1. Written \subseteq {"plain", "brace", "cut"}
    BY DEF Lone, Written
  <1>2. PICK p : p = Parsed(rs)
    OBVIOUS
  <1>3. /\ Len(p) = Len(rs)
        /\ \A n \in 1 .. Len(rs) :
             /\ p[n].id = rs[n].id /\ p[n].key = rs[n].key
             /\ p[n].text = IF rs[n].text = "plain" THEN "plain" ELSE "cut"
    BY <1>1, <1>2, ParsedWhole DEF Listed
  <1>4. \A t \in Written : (IF t = "plain" THEN "plain" ELSE "cut") \in Written
    BY DEF Lone, Written
  <1>5. Keys(p) = Keys(rs)
    BY <1>3 DEF Keys
  <1>6. QED
    BY <1>2, <1>3, <1>4, <1>5 DEF Listed

LEMMA LoadsKeepsOrder ==
  ASSUME IdsInv, Lone, InOrder, UNCHANGED <<scene, mishaps>>, mishaps \in Nat,
         NEW d \in Desks, Loads(d)
  PROVE  InOrder'
  <1>1. /\ UNCHANGED <<note, field, file, typed, made, dropped, overlaid>>
        /\ pc[d] = "load" /\ pc' = [pc EXCEPT ![d] = "idle"] /\ ~scene.bound
    BY DEF Loads, Goes, history, Lone
  <1>2. pc \in [Desks -> Places] /\ rows \in [Desks -> Seq(Row)] /\ file \in Seq(Row)
    BY DEF IdsInv, Typing, Listing
  <1>3. ~Mishap
    BY DEF Mishap
  <1>4. PICK rs : rows' = [rows EXCEPT ![d] = rs]
                  /\ rs = IF file = NoFile THEN <<>> ELSE Parsed(file)
    BY <1>1, <1>3 DEF Loads, Shows, ShowsNone
  <1>5. \A c \in Desks : c # d => pc[c] = "absent"
    BY <1>1 DEF InOrder, Alone
  <1>6. Listed(Saved, made \ dropped, Written)
    BY <1>1, <1>5 DEF InOrder, Lists
  <1>7. Listed(rs, made \ dropped, Written)
    <2>1. CASE file = NoFile
      BY <1>4, <1>6, <2>1 DEF Saved
    <2>2. CASE file # NoFile
      <3>1. Listed(file, made \ dropped, Written)
        BY <1>6, <2>2 DEF Saved
      <3>2. QED
        BY <1>2, <1>4, <2>2, <3>1, ParsedListed
    <2>3. QED
      BY <2>1, <2>2
  <1>8. \A c \in Desks : \/ c = d /\ pc'[c] = "idle" /\ rows'[c] = rs
                         \/ c # d /\ pc'[c] = "absent"
    BY <1>1, <1>2, <1>4, <1>5
  <1>9. Alone' /\ Unmade'
    BY <1>1, <1>5, <1>8 DEF InOrder, Alone, Unmade
  <1>10. Saved' = Saved /\ Written' = Written
    BY <1>1, InTexts DEF Saved
  <1>11. Lists'
    BY <1>1, <1>6, <1>7, <1>8, <1>10 DEF Lists
  <1>12. QED
    BY <1>1, <1>9, <1>11 DEF InOrder

\* One more note at the end of a list.
LEMMA MoreListed ==
  ASSUME NEW rs \in Seq(Row), NEW keys, NEW texts, Listed(rs, keys, texts), Len(rs) < MaxRows,
         NEW r \in Row, r.id # 0, r.key # 0, r.key \notin keys, r.text \in texts,
         NEW more, more = Append(rs, r)
  PROVE  Listed(more, keys \cup {r.key}, texts)
  <1>1. /\ Len(rs) \in Nat /\ Len(more) = Len(rs) + 1 /\ more[Len(rs) + 1] = r
        /\ \A n \in 1 .. Len(rs) : more[n] = rs[n]
    BY AppendProperties
  <1>2. \A n \in 1 .. Len(more) : n \in 1 .. Len(rs) \/ n = Len(rs) + 1
    BY <1>1
  <1>3. Len(more) <= MaxRows
    BY <1>1, SizesAssumption
  <1>4. \A n \in 1 .. Len(rs) : rs[n].key \in keys
    BY DEF Listed, Keys
  <1>5. Keys(more) = keys \cup {r.key}
    <2>1. ASSUME NEW key \in Keys(more) PROVE key \in keys \cup {r.key}
      <3>1. PICK n \in 1 .. Len(more) : key = more[n].key
        BY DEF Keys
      <3>2. QED
        BY <1>1, <1>2, <1>4, <3>1
    <2>2. ASSUME NEW key \in keys PROVE key \in Keys(more)
      <3>1. PICK n \in 1 .. Len(rs) : key = rs[n].key /\ key # 0
        BY <2>2 DEF Listed, Keys
      <3>2. n \in 1 .. Len(more) /\ more[n].key = key
        BY <1>1, <3>1
      <3>3. QED
        BY <3>1, <3>2 DEF Keys
    <2>3. r.key \in Keys(more)
      <3>1. Len(rs) + 1 \in 1 .. Len(more)
        BY <1>1
      <3>2. QED
        BY <1>1, <3>1 DEF Keys
    <2>4. QED
      BY <2>1, <2>2, <2>3
  <1>6. ASSUME NEW n \in 1 .. Len(more)
        PROVE  more[n].id # 0 /\ more[n].key # 0 /\ more[n].text \in texts
    BY <1>1, <1>2 DEF Listed
  <1>7. ASSUME NEW m \in 1 .. Len(more), NEW n \in 1 .. Len(more), m # n
        PROVE  more[m].key # more[n].key
    <2>1. CASE m \in 1 .. Len(rs) /\ n \in 1 .. Len(rs)
      BY <1>1, <1>7, <2>1 DEF Listed
    <2>2. CASE m \in 1 .. Len(rs) /\ n = Len(rs) + 1
      BY <1>1, <1>4, <2>2
    <2>3. CASE m = Len(rs) + 1 /\ n \in 1 .. Len(rs)
      BY <1>1, <1>4, <2>3
    <2>4. QED
      BY <1>2, <1>7, <2>1, <2>2, <2>3
  <1>8. QED
    BY <1>3, <1>5, <1>6, <1>7 DEF Listed

LEMMA CreatesKeepsOrder ==
  ASSUME IdsInv, Lone, InOrder, UNCHANGED scene, NEW d \in Desks, Creates(d)
  PROVE  InOrder'
  <1>1. PICK r : r = [id |-> next[d], key |-> note[d], text |-> field[d]]
    OBVIOUS
  <1>2. PICK rs : rs = rows[d]
    OBVIOUS
  <1>3. PICK more : more = Append(rs, r)
    OBVIOUS
  <1>4. /\ pc[d] = "idle" /\ field[d] # "none" /\ Len(rs) < MaxRows
        /\ rows' = [rows EXCEPT ![d] = more] /\ pc' = [pc EXCEPT ![d] = "save"]
        /\ field' = [field EXCEPT ![d] = "none"] /\ note' = [note EXCEPT ![d] = 0]
        /\ made' = made \cup {note[d]} /\ UNCHANGED <<file, typed, dropped, overlaid>>
    BY <1>1, <1>2, <1>3 DEF Creates, Cleared, Goes, Lone
  <1>5. /\ pc \in [Desks -> Places] /\ rows \in [Desks -> Seq(Row)]
        /\ field \in [Desks -> Texts \cup {"none"}] /\ note \in [Desks -> Nat]
        /\ rs \in Seq(Row) /\ r \in Row /\ next[d] # 0
    BY <1>1, <1>2 DEF IdsInv, Typing, Listing, Row
  <1>6. \A c \in Desks : c # d => pc[c] = "absent"
    BY <1>4 DEF InOrder, Alone
  <1>7. note[d] # 0 /\ note[d] \in 1 .. typed /\ note[d] \notin made /\ field[d] \in scene.typed
    BY <1>4 DEF InOrder, Unmade
  <1>8. Listed(more, made' \ dropped', Written)
    <2>1. Listed(rs, made \ dropped, Written)
      BY <1>2, <1>4 DEF InOrder, Lists
    <2>2. r.id # 0 /\ r.key = note[d] /\ r.text \in Written
      BY <1>1, <1>5, <1>7 DEF Lone, Written
    <2>3. Listed(more, (made \ dropped) \cup {note[d]}, Written)
      BY <1>3, <1>4, <1>5, <1>7, <2>1, <2>2, MoreListed
    <2>4. made' \ dropped' = (made \ dropped) \cup {note[d]}
      BY <1>4, <1>7 DEF InOrder, Unmade
    <2>5. QED
      BY <2>3, <2>4
  <1>9. \A c \in Desks : \/ c = d /\ pc'[c] = "save" /\ rows'[c] = more
                                  /\ note'[c] = 0 /\ field'[c] = "none"
                         \/ c # d /\ pc'[c] = "absent" /\ note'[c] = note[c]
                                  /\ field'[c] = field[c]
    BY <1>4, <1>5, <1>6
  <1>10. Alone'
    BY <1>9 DEF Alone
  <1>11. Unmade'
    <2>1. made' \subseteq 1 .. typed' /\ dropped' \subseteq made'
      BY <1>4, <1>7 DEF InOrder, Unmade
    <2>2. ASSUME NEW c \in Desks
          PROVE  /\ note'[c] = 0 /\ field'[c] = "none"
      BY <1>6, <1>9 DEF InOrder, Unmade
    <2>3. QED
      BY <2>1, <2>2 DEF Unmade
  <1>12. Lists'
    <2>1. Written' = Written
      BY InTexts
    <2>2. QED
      BY <1>8, <1>9, <2>1 DEF Lists
  <1>13. QED
    BY <1>4, <1>10, <1>11, <1>12 DEF InOrder

\* One note less on a list.
LEMMA LessListed ==
  ASSUME NEW rs \in Seq(Row), NEW keys, NEW texts, Listed(rs, keys, texts),
         NEW k \in 1 .. Len(rs), NEW less, less = RemoveAt(rs, k)
  PROVE  Listed(less, keys \ {rs[k].key}, texts)
  <1> DEFINE At(j) == IF j < k THEN j ELSE j + 1
  <1>1. /\ Len(rs) \in Nat /\ Len(less) = Len(rs) - 1
        /\ \A j \in 1 .. Len(rs) - 1 : less[j] = IF j < k THEN rs[j] ELSE rs[j + 1]
    BY Removed
  <1>2. \A j \in 1 .. Len(less) : At(j) \in 1 .. Len(rs) /\ At(j) # k /\ less[j] = rs[At(j)]
    BY <1>1
  <1>3. \A i, j \in 1 .. Len(less) : i # j => At(i) # At(j)
    BY <1>1
  <1>4. \A m \in 1 .. Len(rs) : m # k => \E j \in 1 .. Len(less) : less[j] = rs[m]
    <2>1. ASSUME NEW m \in 1 .. Len(rs), m # k PROVE \E j \in 1 .. Len(less) : less[j] = rs[m]
      <3>1. CASE m < k
        <4>1. m \in 1 .. Len(rs) - 1 /\ less[m] = rs[m]
          BY <1>1, <3>1
        <4>2. QED
          BY <1>1, <4>1
      <3>2. CASE ~(m < k)
        <4>1. m - 1 \in 1 .. Len(rs) - 1 /\ ~(m - 1 < k) /\ m - 1 + 1 = m
          BY <1>1, <2>1, <3>2
        <4>2. less[m - 1] = rs[m]
          BY <1>1, <4>1
        <4>3. QED
          BY <1>1, <4>1, <4>2
      <3>3. QED
        BY <3>1, <3>2
    <2>2. QED
      BY <2>1
  <1> HIDE DEF At
  <1>5. Len(less) <= MaxRows
    BY <1>1, SizesAssumption DEF Listed
  <1>6. Keys(less) = keys \ {rs[k].key}
    <2>1. ASSUME NEW key \in Keys(less) PROVE key \in keys /\ key # rs[k].key
      <3>1. PICK j \in 1 .. Len(less) : key = less[j].key /\ key # 0
        BY <2>1 DEF Keys
      <3>2. At(j) \in 1 .. Len(rs) /\ At(j) # k /\ key = rs[At(j)].key
        BY <1>2, <3>1
      <3>3. QED
        BY <3>1, <3>2 DEF Listed, Keys
    <2>2. ASSUME NEW key \in keys, key # rs[k].key PROVE key \in Keys(less)
      <3>1. PICK m \in 1 .. Len(rs) : key = rs[m].key /\ key # 0
        BY <2>2 DEF Listed, Keys
      <3>2. PICK j \in 1 .. Len(less) : less[j] = rs[m]
        BY <1>4, <2>2, <3>1
      <3>3. QED
        BY <3>1, <3>2 DEF Keys
    <2>3. QED
      BY <2>1, <2>2
  <1>7. ASSUME NEW n \in 1 .. Len(less)
        PROVE  less[n].id # 0 /\ less[n].key # 0 /\ less[n].text \in texts
    BY <1>2 DEF Listed
  <1>8. ASSUME NEW m \in 1 .. Len(less), NEW n \in 1 .. Len(less), m # n
        PROVE  less[m].key # less[n].key
    BY <1>2, <1>3, <1>8 DEF Listed
  <1>9. QED
    BY <1>5, <1>6, <1>7, <1>8 DEF Listed

LEMMA DeletesKeepsOrder ==
  ASSUME IdsInv, Lone, InOrder, UNCHANGED scene, NEW d \in Desks,
         NEW k \in 1 .. Len(rows[d]), Deletes(d, k)
  PROVE  InOrder'
  <1>1. PICK rs : rs = rows[d]
    OBVIOUS
  <1>2. PICK less : less = Compacted(rs, k)
    OBVIOUS
  <1>3. /\ pc[d] = "idle" /\ rs[k].id # 0 /\ k \in 1 .. Len(rs)
        /\ rows' = [rows EXCEPT ![d] = less] /\ pc' = [pc EXCEPT ![d] = "save"]
        /\ dropped' = dropped \cup {rs[k].key}
        /\ UNCHANGED <<field, note, file, typed, made, overlaid>>
    BY <1>1, <1>2 DEF Deletes, Goes, Lone
  <1>4. /\ pc \in [Desks -> Places] /\ rows \in [Desks -> Seq(Row)] /\ rs \in Seq(Row)
        /\ Told(rs)
    BY <1>1 DEF IdsInv, Typing, Listing, Distinct, Desk, Lone, InOrder
  <1>5. \A c \in Desks : c # d => pc[c] = "absent"
    BY <1>3 DEF InOrder, Alone
  <1>6. Listed(rs, made \ dropped, Written)
    BY <1>1, <1>3 DEF InOrder, Lists
  <1>7. less = RemoveAt(rs, k)
    <2>1. k < Len(rs) => rs[k + 1].id # 0
      <3>1. k < Len(rs) => k + 1 \in 1 .. Len(rs)
        BY <1>3, <1>4
      <3>2. QED
        BY <1>6, <3>1 DEF Listed
    <2>2. QED
      BY <1>2, <1>3, <1>4, <2>1, CompactedTakesOut
  <1>8. Listed(less, made' \ dropped', Written)
    <2>1. Listed(less, (made \ dropped) \ {rs[k].key}, Written)
      BY <1>3, <1>4, <1>6, <1>7, LessListed
    <2>2. made' \ dropped' = (made \ dropped) \ {rs[k].key}
      BY <1>3
    <2>3. QED
      BY <2>1, <2>2
  <1>9. \A c \in Desks : \/ c = d /\ pc'[c] = "save" /\ rows'[c] = less
                         \/ c # d /\ pc'[c] = "absent"
    BY <1>3, <1>4, <1>5
  <1>10. Alone'
    BY <1>9 DEF Alone
  <1>11. Unmade'
    <2>1. rs[k].key \in made
      BY <1>3, <1>6 DEF Listed, Keys
    <2>2. \A c \in Desks : pc[c] # "absent" => pc'[c] # "absent"
      BY <1>5, <1>9
    <2>3. QED
      BY <1>3, <2>1, <2>2 DEF InOrder, Unmade
  <1>12. Lists'
    <2>1. Written' = Written
      BY InTexts
    <2>2. QED
      BY <1>8, <1>9, <2>1 DEF Lists
  <1>13. QED
    BY <1>3, <1>10, <1>11, <1>12 DEF InOrder

\* A save goes from the rows to a file that is empty, and so is whole.
LEMMA SavesKeepsOrder ==
  ASSUME IdsInv, Lone, InOrder, UNCHANGED <<scene, mishaps>>, mishaps \in Nat,
         NEW d \in Desks, SaveOpens(d) \/ SaveWrites(d)
  PROVE  InOrder'
  <1>1. ~Mishap
    BY DEF Mishap
  <1>2. UNCHANGED <<rows, field, note, typed, made, dropped>>
    BY DEF SaveOpens, SaveWrites, history
  <1>3. /\ pc \in [Desks -> Places] /\ rows[d] \in Seq(Row) /\ Len(rows[d]) \in Nat
    BY RowFields DEF IdsInv, Typing, Listing
  <1>4. pc[d] \in {"save", "write"} /\ \A c \in Desks : c # d => pc[c] = "absent"
    BY DEF InOrder, Alone, SaveOpens, SaveWrites
  <1>5. Listed(rows[d], made \ dropped, Written) /\ Written' = Written
    BY <1>4, InTexts DEF InOrder, Lists
  <1>6. \/ pc' = [pc EXCEPT ![d] = "write"] /\ file' = <<>> /\ overlaid' = overlaid
        \/ pc' = [pc EXCEPT ![d] = "idle"] /\ file' = rows[d] /\ overlaid' = FALSE
    <2>1. CASE SaveOpens(d)
      BY <1>1, <2>1 DEF SaveOpens, Goes
    <2>2. CASE SaveWrites(d)
      <3>1. file = <<>> /\ overlaid = FALSE
        BY <2>2 DEF SaveWrites, InOrder, Lists
      <3>2. /\ \E rest \in Leftovers : /\ file' = rows[d] \o rest
                                       /\ overlaid' = (overlaid \/ rest # <<>>)
            /\ pc' = [pc EXCEPT ![d] = "idle"]
        BY <1>1, <2>2 DEF SaveWrites, Goes
      <3>3. PICK rest \in Leftovers : /\ file' = rows[d] \o rest
                                      /\ overlaid' = (overlaid \/ rest # <<>>)
        BY <3>2
      <3>4. rest = <<>> /\ file' = rows[d]
        BY <1>3, <3>1, <3>3, Overlay DEF IdsInv, Listing
      <3>5. overlaid' = FALSE
        BY <3>1, <3>3, <3>4, Zenon
      <3>6. QED
        BY <3>2, <3>4, <3>5
    <2>3. QED
      BY <2>1, <2>2
  <1>7. ~overlaid'
    BY <1>6 DEF InOrder
  <1>8. \A c \in Desks : \/ c = d /\ pc'[c] \in {"write", "idle"}
                         \/ c # d /\ pc'[c] = "absent"
    BY <1>3, <1>4, <1>6
  <1>9. Alone'
    BY <1>8 DEF Alone
  <1>10. Unmade'
    <2>1. \A c \in Desks : pc[c] # "absent" => pc'[c] # "absent"
      BY <1>4, <1>8
    <2>2. QED
      BY <1>2, <2>1 DEF InOrder, Unmade
  <1>11. Lists'
    <2>1. ASSUME \A c \in Desks : pc'[c] \notin {"save", "write"}
          PROVE  Listed(Saved', made \ dropped, Written)
      <3>1. file' = rows[d]
        BY <1>3, <1>6, <2>1
      <3>2. file' # NoFile
        <4>1. 1 \in 1 .. Len(NoFile) /\ NoFile[1].id = 0
          BY DEF NoFile
        <4>2. \A n \in 1 .. Len(rows[d]) : rows[d][n].id # 0
          BY <1>5 DEF Listed
        <4>3. QED
          BY <3>1, <4>1, <4>2, Zenon
      <3>3. Saved' = rows[d]
        BY <3>1, <3>2 DEF Saved
      <3>4. QED
        BY <1>5, <3>3
    <2>2. \A c \in Desks : pc'[c] = "write" => file' = <<>>
      BY <1>3, <1>6, <1>8
    <2>3. \A c \in Desks : pc'[c] \in {"idle", "save", "write"} =>
            Listed(rows'[c], made' \ dropped', Written')
      BY <1>2, <1>5, <1>8
    <2>4. QED
      BY <1>2, <1>5, <2>1, <2>2, <2>3 DEF Lists
  <1>12. QED
    BY <1>7, <1>9, <1>10, <1>11 DEF InOrder

LEMMA ClosesKeepsOrder ==
  ASSUME IdsInv, Lone, InOrder, UNCHANGED <<scene, mishaps>>, mishaps \in Nat,
         NEW d \in Desks, Closes(d)
  PROVE  InOrder'
  <1>1. /\ pc[d] = "idle" /\ pc' = [pc EXCEPT ![d] = "closed"]
        /\ field' = [field EXCEPT ![d] = "none"] /\ note' = [note EXCEPT ![d] = 0]
        /\ UNCHANGED <<file, typed, made, dropped, overlaid>>
    BY DEF Closes, Goes, history, Mishap
  <1>2. /\ pc \in [Desks -> Places] /\ note \in [Desks -> Nat]
        /\ field \in [Desks -> Texts \cup {"none"}]
    BY DEF IdsInv, Typing
  <1>3. \A c \in Desks : c # d => pc[c] = "absent"
    BY <1>1 DEF InOrder, Alone
  <1>4. \A c \in Desks : \/ c = d /\ pc'[c] = "closed" /\ note'[c] = 0 /\ field'[c] = "none"
                         \/ c # d /\ pc'[c] = "absent" /\ note'[c] = note[c]
                                  /\ field'[c] = field[c]
    BY <1>1, <1>2, <1>3
  <1>5. Alone'
    BY <1>4 DEF Alone
  <1>6. Unmade'
    <2>1. \A c \in Desks : note'[c] = 0 /\ field'[c] = "none"
      BY <1>3, <1>4 DEF InOrder, Unmade
    <2>2. QED
      BY <1>1, <2>1 DEF InOrder, Unmade
  <1>7. Lists'
    <2>1. Listed(Saved, made \ dropped, Written)
      BY <1>1, <1>3 DEF InOrder, Lists
    <2>2. Saved' = Saved /\ Written' = Written
      BY <1>1, InTexts DEF Saved
    <2>3. \A c \in Desks : pc'[c] \notin {"idle", "save", "write"}
      BY <1>4
    <2>4. QED
      BY <1>1, <2>1, <2>2, <2>3 DEF Lists
  <1>8. QED
    BY <1>1, <1>5, <1>6, <1>7 DEF InOrder

LEMMA WindowKeepsOrder ==
  ASSUME LoneInv, NEW d \in Desks, Window(d)
  PROVE  LoneInv'
  <1>1. IdsInv' /\ UNCHANGED scene /\ mishaps' \in Nat /\ (Lone' => Lone /\ UNCHANGED mishaps)
    BY WindowKeepsIds, StillLone DEF LoneInv
  <1>2. ASSUME Lone' PROVE InOrder'
    <2>1. IdsInv /\ Lone /\ InOrder /\ UNCHANGED <<scene, mishaps>> /\ mishaps \in Nat
      BY <1>1, <1>2 DEF LoneInv
    <2>2. ~Posts(d) /\ ~Asks(d)
      BY <2>1 DEF InOrder, Alone, Posts, Asks
    <2>3. QED
      BY <2>1, <2>2, LooksKeeps, TypesKeepsOrder, LoadsKeepsOrder, CreatesKeepsOrder,
         DeletesKeepsOrder, SavesKeepsOrder, ClosesKeepsOrder DEF Window
  <1>3. QED
    BY <1>1, <1>2 DEF LoneInv

LEMMA NextLone == LoneInv /\ [Next]_vars => LoneInv'
  <1> SUFFICES ASSUME LoneInv, [Next]_vars PROVE LoneInv'
    OBVIOUS
  <1>1. CASE UNCHANGED vars
    <2>1. IdsInv'
      BY <1>1, NextIds DEF LoneInv
    <2>2. Saved' = Saved /\ Written' = Written
      BY <1>1 DEF vars, Saved, Written
    <2>3. QED
      BY <1>1, <2>1, <2>2
         DEF vars, window, history, LoneInv, Lone, InOrder, Alone, Unmade, Lists
  <1>2. QED
    BY <1>1, WindowKeepsOrder DEF Next

\* No two of the rows stand for one note.
LEMMA ListedCounts ==
  ASSUME NEW rs \in Seq(Row), NEW keys, NEW texts, Listed(rs, keys, texts)
  PROVE  Len(rs) = Cardinality(keys)
  <1>1. PICK N \in Nat : N = Len(rs)
    BY RowFields
  <1> DEFINE f == [n \in 1 .. N |-> rs[n].key]
  <1>2. \A n \in 1 .. N : rs[n].key \in keys /\ f[n] = rs[n].key
    BY <1>1 DEF Listed, Keys
  <1>3. \A key \in keys : \E n \in 1 .. N : key = f[n]
    BY <1>1 DEF Listed, Keys
  <1>4. \A m, n \in 1 .. N : m # n => f[m] # f[n]
    BY <1>1 DEF Listed
  <1>5. f \in [1 .. N -> keys]
    BY <1>2
  <1> HIDE DEF f
  <1>6. f \in Bijection(1 .. N, keys)
    BY <1>3, <1>4, <1>5, Fun_IsBij
  <1>7. IsFiniteSet(1 .. N) /\ Cardinality(1 .. N) = N
    BY FS_Interval
  <1>8. QED
    BY <1>1, <1>6, <1>7, FS_Bijection DEF ExistsBijection

(* A lone window that meets no mishap loses no note, with any number of    *)
(* notes, and a desk of any size that a load can read, over any number of  *)
(* reloads and restarts. (ui_keep_save, ui_keep_load, ui_parse_rows)       *)
THEOREM LoneWindowKeepsItsNotes == Spec => []LoneDeskKeeps
  <1>1. LoneInv => LoneDeskKeeps
    <2> SUFFICES ASSUME LoneInv, Lone, AtRest
                 PROVE  /\ Keys(Saved) = made \ dropped /\ Len(Saved) = Cardinality(Keys(Saved))
                        /\ "brace" \notin scene.typed =>
                             \A n \in 1 .. Len(Saved) : Saved[n].text = "plain"
      BY DEF LoneDeskKeeps, Lone, Saved
    <2>1. Listed(Saved, made \ dropped, Written)
      BY DEF LoneInv, InOrder, Lists, AtRest
    <2>2. Saved \in Seq(Row)
      BY EmptySeq DEF Saved, LoneInv, IdsInv, Listing
    <2>3. Len(Saved) = Cardinality(made \ dropped) /\ Keys(Saved) = made \ dropped
      BY <2>1, <2>2, ListedCounts DEF Listed
    <2>4. QED
      BY <2>1, <2>3 DEF Listed, Written
  <1>2. QED
    BY InitLone, NextLone, <1>1, PTL DEF Spec
=============================================================================
