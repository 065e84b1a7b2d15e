--------------------------- MODULE Stream_proofs ---------------------------
(***************************************************************************)
(* Proofs about the slots and the echoes of Stream, for every number of    *)
(* peers, slots and frames.                                                *)
(*                                                                         *)
(* An echo is followed through four places: what the peer sent, what is    *)
(* still on its way up, the answers on their way down and what it heard.   *)
(* Reads ties the first two, Writes the last two, and Read, the number of  *)
(* messages taken, ties both: while the session listens, what was heard    *)
(* and what is on its way down answer exactly the messages taken, but for  *)
(* the one in the server's hand.  A frame of which nothing was sent keeps  *)
(* its place on the way; the first one that was cut ends the account, for  *)
(* the peer is Up no longer and hears what is Garbled.                     *)
(***************************************************************************)
EXTENDS Stream, FiniteSetTheorems, SequenceTheorems, TLAPS

InSession == spc \in {"hear", "reply", "hangup"}

\* Whom the server has accepted, and what it keeps for them.
Stages == {"none", "queued", "held", "closed"}
Standings == {"new", "wiring", "open", "torn", "told", "gone"}

LEMMA StageNames ==
  /\ "none" \in Stages /\ "queued" \in Stages /\ "held" \in Stages /\ "closed" \in Stages
  /\ "wiring" \in Standings /\ "open" \in Standings /\ "told" \in Standings
  /\ "gone" \in Standings /\ "new" \in Standings /\ "torn" \in Standings
  BY DEF Stages, Standings

Types ==
  /\ spc \in {"hail", "shake", "hear", "reply", "hangup", "dead"}
  /\ srv \in [Peers -> Stages] /\ peer \in [Peers -> Standings]
  /\ backlog \in Seq(Peers)
  /\ spc \in {"shake", "hear", "reply", "hangup"} => cur \in Peers

\* A peer that has not come is nowhere.
Strangers ==
  \A p \in Peers :
    peer[p] = "new" =>
      /\ srv[p] = "none"
      /\ \A i \in 1 .. Len(backlog) : backlog[i] # p
      /\ spc \in {"shake", "hear", "reply", "hangup"} => cur # p

\* Outside a session every slot is free; in one its own is taken.
SlotsFollow ==
  /\ spc \in {"hail", "shake"} =>
       /\ table = [i \in Slots |-> NoPeer]
       /\ \A p \in Peers : srv[p] # "held"
  /\ InSession =>
       /\ id \in Slots
       /\ table = [i \in Slots |-> IF i = id THEN cur ELSE NoPeer]
       /\ \A p \in Peers : srv[p] = "held" <=> p = cur

Sessions == Types /\ Strangers /\ SlotsFollow

LEMMA InitSessions == Init => Sessions
  <1> SUFFICES ASSUME Init PROVE Sessions
    OBVIOUS
  <1>1. Types
    BY StageNames, EmptySeq DEF Init, Types
  <1>2. Strangers
    <2>1. Len(backlog) = 0
      BY EmptySeq DEF Init
    <2>2. \A p \in Peers : srv[p] = "none" /\ spc = "hail"
      BY DEF Init
    <2>3. QED
      BY <2>1, <2>2 DEF Strangers
  <1>3. SlotsFollow
    BY DEF Init, SlotsFollow, InSession
  <1>4. QED
    BY <1>1, <1>2, <1>3 DEF Sessions

\* A step within a session, or of a peer that was known already.
LEMMA SessionGoesOn ==
  ASSUME Sessions, UNCHANGED <<backlog, cur, id, table, srv>>,
         spc' = spc \/ (InSession /\ spc' \in {"hear", "reply", "hangup"}),
         peer' \in [Peers -> Standings],
         \A p \in Peers : peer'[p] = "new" => peer[p] = "new"
  PROVE  Sessions'
  <1>1. Types'
    BY DEF Sessions, Types, InSession
  <1>2. Strangers' /\ SlotsFollow'
    BY DEF Sessions, Strangers, SlotsFollow, InSession
  <1>3. QED
    BY <1>1, <1>2 DEF Sessions

\* Nobody gets a slot: the connection is closed and the next one hailed.
LEMMA SessionEnds ==
  ASSUME Sessions, UNCHANGED <<backlog, cur, id, peer>>,
         spc \in {"shake", "hangup"}, spc' = "hail",
         srv' = [srv EXCEPT ![cur] = "closed"],
         table' = [i \in Slots |-> NoPeer]
  PROVE  Sessions'
  <1>1. Types'
    BY StageNames DEF Sessions, Types
  <1>2. Strangers' /\ SlotsFollow'
    BY DEF Sessions, Types, Strangers, SlotsFollow, InSession
  <1>3. QED
    BY <1>1, <1>2 DEF Sessions

LEMMA ServerKeepsSessions ==
  ASSUME Sessions, Server
  PROVE  Sessions'
  <1>a. Types /\ Strangers /\ SlotsFollow
    BY DEF Sessions
  <1>1. CASE Accept
    <2>1. /\ spc = "hail" /\ backlog # <<>> /\ cur' = Head(backlog)
          /\ backlog' = Tail(backlog) /\ spc' = "shake"
          /\ UNCHANGED <<id, table, srv, peer>>
      BY <1>1 DEF Accept
    <2>2. /\ Head(backlog) \in Peers /\ Tail(backlog) \in Seq(Peers)
          /\ Len(Tail(backlog)) = Len(backlog) - 1 /\ Len(backlog) \in Nat \ {0}
          /\ \A i \in 1 .. Len(Tail(backlog)) : Tail(backlog)[i] = backlog[i + 1]
          /\ Head(backlog) = backlog[1]
      BY <1>a, <2>1, HeadTailProperties DEF Types
    <2>3. Types' /\ SlotsFollow'
      BY <1>a, <2>1, <2>2 DEF Types, SlotsFollow, InSession
    <2>4. Strangers'
      BY <1>a, <2>1, <2>2 DEF Strangers
    <2>5. QED
      BY <2>3, <2>4 DEF Sessions
  <1>2. CASE Shake
    <2>1. spc = "shake" /\ cur \in Peers /\ UNCHANGED <<backlog, cur, peer>>
      BY <1>a, <1>2 DEF Shake, Types
    <2>2. CASE Unused # {}
      <3>1. PICK i \in Slots :
              /\ id' = i /\ table' = [table EXCEPT ![i] = cur]
              /\ srv' = [srv EXCEPT ![cur] = "held"] /\ spc' = "hear"
        <4>1. \A k \in Unused : k \in Nat
          BY BoundsAssumption DEF Unused, Slots
        <4>2. PICK i \in Unused : \A l \in Unused : i <= l
          <5>1. PICK k \in Unused : \A l \in 0 .. k - 1 : l \notin Unused
            <6>1. table = [i \in Slots |-> NoPeer]
              BY <1>a, <2>1 DEF SlotsFollow
            <6>2. 0 \in Unused
              BY <6>1, BoundsAssumption DEF Unused, Slots
            <6>3. QED
              BY <6>2
          <5>2. QED
            BY <4>1, <5>1
        <4>3. (CHOOSE k \in Unused : \A l \in Unused : k <= l) \in Unused
          BY <4>2
        <4>4. QED
          BY <1>2, <2>2, <4>3 DEF Shake, Unused
      <3>2. Types'
        BY <1>a, <2>1, <3>1, StageNames DEF Types
      <3>3. Strangers'
        BY <1>a, <2>1, <3>1 DEF Strangers, Types
      <3>4. SlotsFollow'
        BY <1>a, <2>1, <3>1 DEF SlotsFollow, Types, InSession
      <3>5. QED
        BY <3>2, <3>3, <3>4 DEF Sessions
    <2>3. CASE Unused = {}
      BY <1>2, <1>a, <2>1, <2>3, SessionEnds DEF Shake, SlotsFollow
    <2>4. QED
      BY <2>2, <2>3
  <1>3. CASE ShakeFails
    BY <1>a, <1>3, SessionEnds DEF ShakeFails, SlotsFollow
  <1>4. CASE HearText \/ HearMedia \/ HearPing \/ HearChat \/ HearEnd \/ HearNothing \/ Reply
    <2>1. /\ UNCHANGED <<backlog, cur, id, table, srv, peer>>
          /\ InSession /\ spc' \in {"hear", "reply", "hangup"}
      BY <1>4
      DEF HearText, HearMedia, HearPing, HearChat, HearEnd, HearNothing, Reply, Takes,
          InSession, server
    <2>2. QED
      BY <1>a, <2>1, SessionGoesOn DEF Types
  <1>5. CASE Hangup
    <2>1. /\ spc = "hangup" /\ srv' = [srv EXCEPT ![cur] = "closed"]
          /\ table' = [table EXCEPT ![id] = NoPeer] /\ spc' = "hail"
          /\ UNCHANGED <<backlog, cur, id, peer>>
      BY <1>5 DEF Hangup
    <2>2. table = [i \in Slots |-> IF i = id THEN cur ELSE NoPeer]
      BY <1>a, <2>1 DEF SlotsFollow, InSession
    <2>3. table' = [i \in Slots |-> NoPeer]
      BY <2>1, <2>2
    <2>4. QED
      BY <2>1, <2>3, SessionEnds
  <1>6. CASE Killed
    <2>1. /\ spc' = "dead" /\ backlog' = <<>> /\ UNCHANGED peer
          /\ srv' = [p \in Peers |-> IF srv[p] = "none" THEN "none" ELSE "closed"]
      BY <1>6 DEF Killed
    <2>2. Types'
      BY <1>a, <2>1, StageNames, EmptySeq DEF Types
    <2>3. Strangers' /\ SlotsFollow'
      BY <1>a, <2>1, EmptySeq DEF Strangers, SlotsFollow, InSession
    <2>4. QED
      BY <2>2, <2>3 DEF Sessions
  <1>7. QED
    BY <1>1, <1>2, <1>3, <1>4, <1>5, <1>6 DEF Server

LEMMA PeersKeepSessions ==
  ASSUME Sessions, NEW q \in Peers,
         \/ Connect(q) \/ Wired(q) \/ Chat(q) \/ PeerHears(q) \/ PeerMishears(q)
         \/ Leave(q) \/ \E f \in Says[q] : Say(q, f)
  PROVE  Sessions'
  <1>a. Types /\ Strangers /\ SlotsFollow
    BY DEF Sessions
  <1>1. CASE Connect(q)
    <2>1. /\ peer[q] = "new" /\ peer' = [peer EXCEPT ![q] = "wiring"]
          /\ srv' = [srv EXCEPT ![q] = "queued"] /\ backlog' = Append(backlog, q)
          /\ UNCHANGED <<spc, cur, id, table>>
      BY <1>1 DEF Connect, server
    <2>2. /\ Append(backlog, q) \in Seq(Peers)
          /\ Len(Append(backlog, q)) = Len(backlog) + 1 /\ Len(backlog) \in Nat
          /\ \A i \in 1 .. Len(backlog) : Append(backlog, q)[i] = backlog[i]
          /\ Append(backlog, q)[Len(backlog) + 1] = q
      BY <1>a, AppendProperties, LenProperties DEF Types
    <2>3. srv[q] = "none" /\ (spc \in {"shake", "hear", "reply", "hangup"} => cur # q)
      BY <1>a, <2>1 DEF Strangers
    <2>4. Types'
      BY <1>a, <2>1, <2>2, StageNames DEF Types
    <2>5. Strangers'
      BY <1>a, <2>1, <2>2, <2>3 DEF Strangers, Types
    <2>6. SlotsFollow'
      BY <1>a, <2>1, <2>3 DEF SlotsFollow, Types, InSession
    <2>7. QED
      BY <2>4, <2>5, <2>6 DEF Sessions
  <1>2. CASE \/ Wired(q) \/ Chat(q) \/ PeerHears(q) \/ PeerMishears(q)
            \/ Leave(q) \/ \E f \in Says[q] : Say(q, f)
    <2>1. /\ UNCHANGED <<backlog, spc, cur, id, table, srv>>
          /\ \/ UNCHANGED peer
             \/ peer' = [peer EXCEPT ![q] = "open"]
             \/ peer' = [peer EXCEPT ![q] = "told"]
             \/ peer' = [peer EXCEPT ![q] = "torn"]
             \/ peer' = [peer EXCEPT ![q] = "gone"]
      BY <1>2 DEF Wired, Chat, PeerHears, PeerMishears, Leave, Say, server
    <2>2. /\ peer' \in [Peers -> Standings]
          /\ \A p \in Peers : peer'[p] = "new" => peer[p] = "new"
      BY <1>a, <2>1, StageNames DEF Types
    <2>3. QED
      BY <2>1, <2>2, SessionGoesOn
  <1>3. QED
    BY <1>1, <1>2

LEMMA NextSessions == Sessions /\ [Next]_vars => Sessions'
  <1> SUFFICES ASSUME Sessions, [Next]_vars PROVE Sessions'
    OBVIOUS
  <1>1. CASE UNCHANGED vars
    BY <1>1, SessionGoesOn DEF vars, server, Sessions, Types
  <1>2. QED
    BY <1>1, ServerKeepsSessions, PeersKeepSessions DEF Next

(* A slot is in use exactly while its connection is held, and a session's  *)
(* id names its own connection. (stream_slot, buraaq_stream_hangup)        *)
THEOREM SlotsAlwaysMatch == Spec => []SlotsMatch
  <1>1. Sessions => SlotsMatch
    BY PeersAssumption DEF Sessions, Types, SlotsFollow, SlotsMatch, InSession
  <1>2. QED
    BY InitSessions, NextSessions, <1>1, PTL DEF Spec

-----------------------------------------------------------------------------
(* What the peers hear *)

Up(p) == peer[p] \in {"wiring", "open"}
Listening == spc \in {"hear", "reply"}
IsEcho(f) == f.op \notin {"welcome", "pong", "close"}

FrameTypes ==
  /\ up \in [Peers -> Seq(Frame)] /\ down \in [Peers -> Seq(Frame)]
  /\ sent \in [Peers -> Seq(Frame)] /\ got \in [Peers -> Seq(Frame)]
  /\ msg \in Frame

\* A connection is accepted once.
Queue ==
  /\ \A i \in 1 .. Len(backlog) : srv[backlog[i]] = "queued"
  /\ \A i, j \in 1 .. Len(backlog) : backlog[i] = backlog[j] => i = j
  /\ spc = "shake" =>
       srv[cur] = "queued" /\ \A i \in 1 .. Len(backlog) : backlog[i] # cur

\* Nothing passes before the handshake, and its answer comes first.
Welcomed(p) ==
  /\ srv[p] \in {"none", "queued"} =>
       /\ sent[p] = <<>> /\ got[p] = <<>> /\ up[p] = <<>> /\ down[p] = <<>>
       /\ peer[p] \in {"new", "wiring", "gone"}
  /\ peer[p] = "wiring" =>
       \/ down[p] = <<>> /\ srv[p] # "held"
       \/ down[p] # <<>> /\ down[p][1].op = "welcome"
  /\ \A j \in 1 .. Len(down[p]) :
       down[p][j].op = "welcome" => peer[p] = "wiring" /\ j = 1

Arrivals == FrameTypes /\ Queue /\ \A p \in Peers : Welcomed(p)

\* How many frames of the peer the server has taken.
Taken(p) == Len(sent[p]) - Len(up[p])

\* While the peer stays, what is on its way is the end of what it sent.
Reads(p) ==
  Up(p) /\ Listening /\ cur = p =>
    /\ Len(up[p]) <= Len(sent[p])
    /\ \A i \in 1 .. Len(up[p]) : up[p][i] = sent[p][Taken(p) + i]
    /\ \A i \in 1 .. Taken(p) : ~Stops(sent[p][i])
    /\ spc = "reply" => /\ Taken(p) \in Messages(p) /\ msg = sent[p][Taken(p)]
                        /\ heard = msg.op

\* The messages that are answered, and the one that is being answered.
Read(p) == Cardinality(Messages(p) \cap 1 .. Taken(p))
Pending == IF spc = "reply" THEN 1 ELSE 0

\* n tells of each frame of d how many messages it and those before answer.
Counts(p, d, first, n) ==
  /\ n \in [0 .. Len(d) -> Nat] /\ n[0] = first
  /\ \A j \in 1 .. Len(d) :
       /\ IsEcho(d[j]) => n[j] = n[j - 1] + 1 /\ Returns(p, n[j], d[j])
       /\ ~IsEcho(d[j]) => n[j] = n[j - 1]

Writes(p) ==
  Up(p) =>
    \E n \in [0 .. Len(down[p]) -> Nat] :
      /\ Counts(p, down[p], Len(got[p]), n)
      /\ Listening /\ cur = p => n[Len(down[p])] + Pending = Read(p)

Heard(p) ==
  \A n \in 1 .. Len(got[p]) : got[p][n] # Garbled => Returns(p, n, got[p][n])

Flow(p) == Reads(p) /\ Writes(p) /\ Heard(p)

\* The inductive invariant.
Conversations == Sessions /\ Arrivals /\ \A p \in Peers : Flow(p)

-----------------------------------------------------------------------------
(* Lemmas on messages and their answers *)

LEMMA SeqFacts ==
  ASSUME NEW s \in Seq(Frame), s # <<>>
  PROVE  /\ Len(s) \in Nat \ {0} /\ Head(s) = s[1] /\ Head(s) \in Frame
         /\ Tail(s) \in Seq(Frame) /\ Len(Tail(s)) = Len(s) - 1
         /\ \A i \in 1 .. Len(s) - 1 : Tail(s)[i] = s[i + 1]
  BY HeadTailProperties, LenProperties, EmptySeq

LEMMA AppendFacts ==
  ASSUME NEW s \in Seq(Frame), NEW f \in Frame
  PROVE  /\ Append(s, f) \in Seq(Frame) /\ Len(s) \in Nat
         /\ Len(Append(s, f)) = Len(s) + 1 /\ Append(s, f)[Len(s) + 1] = f
         /\ \A i \in 1 .. Len(s) : Append(s, f)[i] = s[i]
         /\ Append(s, f) # <<>>
  BY AppendProperties, LenProperties, EmptySeq

\* A message more, or none, at the next place.
LEMMA NextRank ==
  ASSUME NEW S, NEW c \in Nat
  PROVE  /\ Cardinality(S \cap 1 .. c) \in Nat
         /\ c + 1 \in S => Cardinality(S \cap 1 .. c + 1) = Cardinality(S \cap 1 .. c) + 1
         /\ c + 1 \notin S => Cardinality(S \cap 1 .. c + 1) = Cardinality(S \cap 1 .. c)
  <1>1. IsFiniteSet(1 .. c)
    BY FS_Interval
  <1>2. IsFiniteSet(S \cap 1 .. c)
    BY <1>1, FS_Subset
  <1>3. Cardinality(S \cap 1 .. c) \in Nat
    BY <1>2, FS_CardinalityType
  <1>4. 1 .. c + 1 = (1 .. c) \cup {c + 1} /\ c + 1 \notin 1 .. c
    OBVIOUS
  <1>5. ASSUME c + 1 \in S
        PROVE  Cardinality(S \cap 1 .. c + 1) = Cardinality(S \cap 1 .. c) + 1
    <2>1. S \cap 1 .. c + 1 = (S \cap 1 .. c) \cup {c + 1} /\ c + 1 \notin S \cap 1 .. c
      BY <1>4, <1>5
    <2>2. QED
      BY <1>2, <2>1, FS_AddElement
  <1>6. ASSUME c + 1 \notin S
        PROVE  S \cap 1 .. c + 1 = S \cap 1 .. c
    BY <1>4, <1>6
  <1>7. QED
    BY <1>3, <1>5, <1>6

\* What was answered stays so while the peer says more.
LEMMA ReturnsStay ==
  ASSUME NEW p \in Peers, FrameTypes, NEW n, NEW f, Returns(p, n, f),
         sent'[p] = sent[p] \/ \E g \in Frame : sent'[p] = Append(sent[p], g)
  PROVE  Returns(p, n, f)'
  <1>1. sent[p] \in Seq(Frame) /\ Len(sent[p]) \in Nat
    BY DEF FrameTypes
  <1>2. /\ Len(sent'[p]) >= Len(sent[p]) /\ Len(sent'[p]) \in Nat
        /\ \A i \in 1 .. Len(sent[p]) : sent'[p][i] = sent[p][i]
    BY <1>1, AppendFacts
  <1>3. PICK k \in Messages(p) :
          /\ Cardinality(Messages(p) \cap 1 .. k) = n
          /\ \A i \in 1 .. k : ~Stops(sent[p][i])
          /\ f \in Outcomes(Echo(sent[p][k], sent[p][k].op))
    BY DEF Returns
  <1>4. k \in 1 .. Len(sent[p])
    BY <1>3 DEF Messages
  <1>5. \A i \in 1 .. k : i \in Messages(p)' <=> i \in Messages(p)
    BY <1>1, <1>2, <1>4 DEF Messages
  <1>6. Messages(p)' \cap 1 .. k = Messages(p) \cap 1 .. k
    BY <1>5
  <1>7. k \in Messages(p)'
    BY <1>3, <1>4, <1>5
  <1>8. \A i \in 1 .. k : ~Stops(sent'[p][i])
    BY <1>1, <1>2, <1>3, <1>4
  <1>9. QED
    BY <1>2, <1>3, <1>4, <1>6, <1>7, <1>8 DEF Returns

LEMMA CountsStay ==
  ASSUME NEW p \in Peers, FrameTypes, NEW d, NEW first, NEW n, Counts(p, d, first, n),
         sent'[p] = sent[p] \/ \E g \in Frame : sent'[p] = Append(sent[p], g)
  PROVE  Counts(p, d, first, n)'
  BY ReturnsStay DEF Counts

\* A frame more on its way to the peer.
LEMMA CountsAppend ==
  ASSUME NEW p \in Peers, NEW d \in Seq(Frame), NEW f \in Frame, NEW first,
         NEW n \in [0 .. Len(d) -> Nat], Counts(p, d, first, n),
         IsEcho(f) => Returns(p, n[Len(d)] + 1, f)
  PROVE  \E m \in [0 .. Len(d) + 1 -> Nat] :
           /\ Counts(p, Append(d, f), first, m)
           /\ m[Len(d) + 1] = n[Len(d)] + IF IsEcho(f) THEN 1 ELSE 0
  <1> DEFINE last == n[Len(d)] + IF IsEcho(f) THEN 1 ELSE 0
             m == [j \in 0 .. Len(d) + 1 |-> IF j = Len(d) + 1 THEN last ELSE n[j]]
             e == Append(d, f)
  <1>1. /\ Len(d) \in Nat /\ Len(e) = Len(d) + 1 /\ e[Len(d) + 1] = f
        /\ \A i \in 1 .. Len(d) : e[i] = d[i]
    BY AppendFacts
  <1>2. last \in Nat
    BY <1>1
  <1> HIDE DEF last, e
  <1>3. /\ m \in [0 .. Len(d) + 1 -> Nat] /\ m[Len(d) + 1] = last
        /\ \A j \in 0 .. Len(d) : m[j] = n[j]
    BY <1>1, <1>2
  <1> HIDE DEF m
  <1>4. n[0] = first
    BY DEF Counts
  <1>5. ASSUME NEW j \in 1 .. Len(d)
        PROVE  /\ IsEcho(e[j]) => m[j] = m[j - 1] + 1 /\ Returns(p, m[j], e[j])
               /\ ~IsEcho(e[j]) => m[j] = m[j - 1]
    <2>1. m[j] = n[j] /\ m[j - 1] = n[j - 1] /\ e[j] = d[j]
      BY <1>1, <1>3
    <2>2. QED
      BY <2>1 DEF Counts
  <1>6. /\ IsEcho(f) => m[Len(d) + 1] = m[Len(d)] + 1 /\ Returns(p, m[Len(d) + 1], f)
        /\ ~IsEcho(f) => m[Len(d) + 1] = m[Len(d)]
    BY <1>1, <1>3 DEF last
  <1>7. Counts(p, e, first, m)
    <2>1. m[0] = first
      BY <1>1, <1>3, <1>4
    <2>2. ASSUME NEW j \in 1 .. Len(e)
          PROVE  /\ IsEcho(e[j]) => m[j] = m[j - 1] + 1 /\ Returns(p, m[j], e[j])
                 /\ ~IsEcho(e[j]) => m[j] = m[j - 1]
      <3>1. CASE j \in 1 .. Len(d)
        BY <1>5, <3>1
      <3>2. CASE j = Len(d) + 1
        <4>1. j - 1 = Len(d) /\ e[j] = f
          BY <1>1, <3>2
        <4>2. QED
          BY <1>6, <3>2, <4>1
      <3>3. QED
        BY <1>1, <3>1, <3>2
    <2>3. QED
      BY <1>1, <1>3, <2>1, <2>2 DEF Counts
  <1>8. QED
    BY <1>3, <1>7 DEF last, e

\* The first of them is heard.
LEMMA CountsTail ==
  ASSUME NEW p \in Peers, NEW d \in Seq(Frame), d # <<>>, NEW first,
         NEW n \in [0 .. Len(d) -> Nat], Counts(p, d, first, n)
  PROVE  \E m \in [0 .. Len(Tail(d)) -> Nat] :
           /\ Counts(p, Tail(d), n[1], m)
           /\ m[Len(Tail(d))] = n[Len(d)]
  <1> DEFINE m == [j \in 0 .. Len(d) - 1 |-> n[j + 1]]
             e == Tail(d)
  <1>1. /\ Len(d) \in Nat \ {0} /\ Len(e) = Len(d) - 1
        /\ \A i \in 1 .. Len(d) - 1 : e[i] = d[i + 1]
    BY SeqFacts
  <1>2. m \in [0 .. Len(d) - 1 -> Nat]
    BY <1>1
  <1>3. \A j \in 0 .. Len(d) - 1 : m[j] = n[j + 1]
    OBVIOUS
  <1> HIDE DEF m, e
  <1>4. m[0] = n[1] /\ m[Len(e)] = n[Len(d)]
    BY <1>1, <1>3
  <1>5. ASSUME NEW j \in 1 .. Len(e)
        PROVE  /\ IsEcho(e[j]) => m[j] = m[j - 1] + 1 /\ Returns(p, m[j], e[j])
               /\ ~IsEcho(e[j]) => m[j] = m[j - 1]
    <2>1. j + 1 \in 1 .. Len(d) /\ (j + 1) - 1 = j /\ (j - 1) + 1 = j
      BY <1>1
    <2>2. m[j] = n[j + 1] /\ m[j - 1] = n[j] /\ e[j] = d[j + 1]
      BY <1>1, <1>3, <2>1
    <2>3. QED
      BY <2>1, <2>2 DEF Counts
  <1>6. Counts(p, e, n[1], m)
    BY <1>1, <1>2, <1>4, <1>5 DEF Counts
  <1>7. QED
    BY <1>1, <1>2, <1>4, <1>6 DEF e

-----------------------------------------------------------------------------
(* Frames and the queue *)

LEMMA FrameFacts ==
  /\ Plain("welcome") \in Frame /\ Plain("close") \in Frame /\ NoMsg \in Frame
  /\ \A f \in Frame : [op |-> "pong", body |-> f.body] \in Frame
  /\ \A f \in Frame : \A kind : Echo(f, kind) \in Frame /\ IsEcho(Echo(f, kind))
  /\ ~IsEcho(Plain("welcome")) /\ ~IsEcho(Plain("close"))
  /\ \A body : ~IsEcho([op |-> "pong", body |-> body])
  /\ Garbled \in Frame
  BY DEF Plain, NoMsg, Garbled, Frame, Bodies, Media, Echo, Grown, IsEcho

\* What comes of a frame is a frame of its kind.
LEMMA OutcomeFacts ==
  ASSUME NEW f \in Frame, NEW g \in Outcomes(f)
  PROVE  g \in Frame /\ g.op = f.op /\ (IsEcho(g) <=> IsEcho(f))
  BY DEF Outcomes, Frame, Bodies, Media, IsEcho

LEMMA Delivered ==
  ASSUME FrameTypes, NEW p \in Peers, NEW f \in Frame, Queues(p, f)
  PROVE  /\ down' \in [Peers -> Seq(Frame)]
         /\ \A q \in Peers : q # p \/ peer[p] = "gone" => down'[q] = down[q]
         /\ peer[p] # "gone" => down'[p] = Append(down[p], f)
  <1>1. CASE peer[p] = "gone"
    BY <1>1 DEF Queues, FrameTypes
  <1>2. CASE peer[p] # "gone"
    <2>1. down' = [down EXCEPT ![p] = Append(@, f)]
      BY <1>2 DEF Queues
    <2>2. Append(down[p], f) \in Seq(Frame)
      BY AppendProperties DEF FrameTypes
    <2>3. QED
      BY <1>2, <2>1, <2>2 DEF FrameTypes
  <1>3. QED
    BY <1>1, <1>2

\* What the server takes from the frames on their way.
LEMMA Took ==
  ASSUME FrameTypes, cur \in Peers, NEW ops, Takes(ops)
  PROVE  /\ Next1 \in Frame /\ Next1 = up[cur][1] /\ Next1.op \in ops /\ ~Ends(Next1)
         /\ up' \in [Peers -> Seq(Frame)] /\ up'[cur] = Tail(up[cur])
         /\ up[cur] # <<>> /\ \A q \in Peers : q # cur => up'[q] = up[q]
  <1>1. up[cur] \in Seq(Frame) /\ up[cur] # <<>> /\ up' = [up EXCEPT ![cur] = Tail(@)]
    BY DEF FrameTypes, Takes
  <1>2. Tail(up[cur]) \in Seq(Frame) /\ Head(up[cur]) = up[cur][1] /\ Head(up[cur]) \in Frame
    BY <1>1, SeqFacts
  <1>3. QED
    BY <1>1, <1>2 DEF Takes, Next1, FrameTypes

LEMMA ServerFrameTypes ==
  ASSUME Sessions, FrameTypes, Server
  PROVE  FrameTypes'
  <1>a. spc \in {"shake", "hear", "reply", "hangup"} => cur \in Peers
    BY DEF Sessions, Types
  <1>b. /\ up \in [Peers -> Seq(Frame)] /\ down \in [Peers -> Seq(Frame)]
        /\ sent \in [Peers -> Seq(Frame)] /\ got \in [Peers -> Seq(Frame)] /\ msg \in Frame
    BY DEF FrameTypes
  <1>1. CASE Accept \/ ShakeFails \/ Killed \/ HearChat \/ HearNothing
    BY <1>1, <1>b DEF Accept, ShakeFails, Killed, HearChat, HearNothing, server, FrameTypes
  <1>2. CASE Shake
    <2>1. Queues(cur, Plain("welcome")) /\ UNCHANGED <<up, sent, got, msg>> /\ cur \in Peers
      BY <1>2, <1>a DEF Shake
    <2>2. QED
      BY <1>b, <2>1, Delivered, FrameFacts DEF FrameTypes
  <1>3. CASE HearText \/ HearMedia
    <2>1. PICK ops : Takes(ops) /\ UNCHANGED <<down, sent, got>> /\ (msg' = Next1 \/ msg' = msg)
      BY <1>3 DEF HearText, HearMedia, Takes
    <2>2. cur \in Peers
      BY <1>a, <2>1 DEF Takes
    <2>3. QED
      BY <1>b, <2>1, <2>2, Took DEF FrameTypes
  <1>4. CASE HearPing
    <2>1. /\ Takes({"ping"}) /\ UNCHANGED <<msg, sent, got>>
          /\ Deliver(cur, [op |-> "pong", body |-> Next1.body])
      BY <1>4 DEF HearPing, Takes
    <2>2. cur \in Peers
      BY <1>a, <2>1 DEF Takes
    <2>3. Next1 \in Frame /\ up' \in [Peers -> Seq(Frame)]
      BY <2>1, <2>2, Took
    <2>4. [op |-> "pong", body |-> Next1.body] \in Frame
      BY <2>3, FrameFacts
    <2>5. down' \in [Peers -> Seq(Frame)]
      BY <2>1, <2>2, <2>4, Delivered, OutcomeFacts DEF Deliver
    <2>6. QED
      BY <1>b, <2>1, <2>3, <2>5 DEF FrameTypes
  <1>5. CASE HearEnd
    <2>1. /\ up[cur] # <<>> /\ up' = [up EXCEPT ![cur] = Tail(@)] /\ cur \in Peers
          /\ UNCHANGED <<down, sent, got, msg>>
      BY <1>5, <1>a DEF HearEnd
    <2>2. Tail(up[cur]) \in Seq(Frame)
      BY <1>b, <2>1, SeqFacts
    <2>3. QED
      BY <1>b, <2>1, <2>2 DEF FrameTypes
  <1>6. CASE Reply
    <2>1. Deliver(cur, Echo(msg, heard)) /\ UNCHANGED <<up, sent, got>> /\ msg' = NoMsg
          /\ cur \in Peers
      BY <1>6, <1>a DEF Reply
    <2>2. Echo(msg, heard) \in Frame
      BY <1>b, FrameFacts
    <2>3. QED
      BY <1>b, <2>1, <2>2, Delivered, OutcomeFacts, FrameFacts DEF FrameTypes, Deliver
  <1>7. CASE Hangup
    <2>1. /\ Deliver(cur, Plain("close")) /\ UNCHANGED <<sent, got>> /\ msg' = NoMsg
          /\ cur \in Peers /\ up' = [up EXCEPT ![cur] = <<>>]
      BY <1>7, <1>a DEF Hangup
    <2>2. up' \in [Peers -> Seq(Frame)]
      BY <1>b, <2>1, EmptySeq
    <2>3. QED
      BY <1>b, <2>1, <2>2, Delivered, OutcomeFacts, FrameFacts DEF FrameTypes, Deliver
  <1>8. QED
    BY <1>1, <1>2, <1>3, <1>4, <1>5, <1>6, <1>7 DEF Server

LEMMA PeerFrameTypes ==
  ASSUME FrameTypes, NEW q \in Peers,
         \/ Connect(q) \/ Wired(q) \/ Chat(q) \/ PeerHears(q) \/ PeerMishears(q)
         \/ Leave(q) \/ \E f \in Says[q] : Say(q, f)
  PROVE  FrameTypes'
  <1>b. /\ up \in [Peers -> Seq(Frame)] /\ down \in [Peers -> Seq(Frame)]
        /\ sent \in [Peers -> Seq(Frame)] /\ got \in [Peers -> Seq(Frame)] /\ msg \in Frame
    BY DEF FrameTypes
  <1>1. CASE Connect(q) \/ Chat(q)
    BY <1>1, <1>b DEF Connect, Chat, server, FrameTypes
  <1>2. CASE Wired(q)
    <2>1. Tail(down[q]) \in Seq(Frame)
      BY <1>2, <1>b, SeqFacts DEF Wired
    <2>2. QED
      BY <1>2, <1>b, <2>1 DEF Wired, server, FrameTypes
  <1>3. CASE PeerHears(q) \/ PeerMishears(q)
    <2>1. /\ Tail(down[q]) \in Seq(Frame) /\ Append(got[q], Head(down[q])) \in Seq(Frame)
          /\ Append(got[q], Garbled) \in Seq(Frame)
      BY <1>3, <1>b, SeqFacts, FrameFacts, AppendProperties DEF PeerHears, PeerMishears
    <2>2. /\ down' = [down EXCEPT ![q] = Tail(@)] /\ UNCHANGED <<up, sent, msg>>
          /\ \/ UNCHANGED got
             \/ got' = [got EXCEPT ![q] = @]
             \/ got' = [got EXCEPT ![q] = Append(@, Garbled)]
             \/ got' = [got EXCEPT ![q] = Append(@, Head(down[q]))]
      BY <1>3 DEF PeerHears, PeerMishears, server
    <2>3. QED
      BY <1>b, <2>1, <2>2 DEF FrameTypes
  <1>4. CASE Leave(q)
    <2>1. Append(up[q], Plain("close")) \in Seq(Frame) /\ <<>> \in Seq(Frame)
      BY <1>b, FrameFacts, AppendProperties, EmptySeq
    <2>2. QED
      BY <1>4, <1>b, <2>1 DEF Leave, server, FrameTypes
  <1>5. ASSUME NEW f \in Says[q], Say(q, f) PROVE FrameTypes'
    <2>1. f \in Frame
      BY SaysAssumption DEF Whole
    <2>2. Append(up[q], f) \in Seq(Frame) /\ Append(sent[q], f) \in Seq(Frame)
      BY <1>b, <2>1, AppendProperties
    <2>3. QED
      BY <1>5, <1>b, <2>2 DEF Say, server, FrameTypes
  <1>6. QED
    BY <1>1, <1>2, <1>3, <1>4, <1>5

LEMMA QueueStays ==
  ASSUME Sessions, Queue, Next
  PROVE  Queue'
  <1>a. /\ backlog \in Seq(Peers) /\ srv \in [Peers -> Stages]
        /\ spc \in {"shake", "hear", "reply", "hangup"} => cur \in Peers
    BY DEF Sessions, Types
  <1>b. Strangers /\ SlotsFollow
    BY DEF Sessions
  <1>c. \A i \in 1 .. Len(backlog) : backlog[i] \in Peers
    BY <1>a
  <1>1. CASE Accept
    <2>1. /\ cur' = Head(backlog) /\ backlog' = Tail(backlog) /\ backlog # <<>>
          /\ UNCHANGED srv
      BY <1>1 DEF Accept
    <2>2. /\ Len(Tail(backlog)) = Len(backlog) - 1 /\ Len(backlog) \in Nat \ {0}
          /\ \A i \in 1 .. Len(Tail(backlog)) : Tail(backlog)[i] = backlog[i + 1]
          /\ Head(backlog) = backlog[1]
      BY <1>a, <2>1, HeadTailProperties
    <2>3. \A i, j \in 1 .. Len(backlog') : backlog'[i] = backlog'[j] => i = j
      BY <2>1, <2>2 DEF Queue
    <2>4. \A i \in 1 .. Len(backlog') : srv'[backlog'[i]] = "queued" /\ backlog'[i] # cur'
      BY <2>1, <2>2 DEF Queue
    <2>5. srv'[cur'] = "queued"
      BY <2>1, <2>2 DEF Queue
    <2>6. QED
      BY <2>3, <2>4, <2>5 DEF Queue
  <1>2. CASE Shake \/ ShakeFails
    <2>1. /\ spc = "shake" /\ spc' # "shake" /\ UNCHANGED backlog
          /\ \E where \in {"held", "closed"} : srv' = [srv EXCEPT ![cur] = where]
      BY <1>2 DEF Shake, ShakeFails
    <2>2. QED
      BY <1>a, <1>c, <2>1 DEF Queue
  <1>3. CASE HearText \/ HearMedia \/ HearPing \/ HearChat \/ HearEnd \/ HearNothing \/ Reply
    <2>1. UNCHANGED <<backlog, srv>> /\ spc' # "shake"
      BY <1>3
      DEF HearText, HearMedia, HearPing, HearChat, HearEnd, HearNothing, Reply, Takes, server
    <2>2. QED
      BY <2>1 DEF Queue
  <1>4. CASE Hangup
    <2>1. /\ spc = "hangup" /\ spc' = "hail" /\ UNCHANGED backlog
          /\ srv' = [srv EXCEPT ![cur] = "closed"]
      BY <1>4 DEF Hangup
    <2>2. srv[cur] = "held"
      BY <1>a, <1>b, <2>1 DEF SlotsFollow, InSession
    <2>3. QED
      BY <1>a, <1>c, <2>1, <2>2 DEF Queue
  <1>5. CASE Killed
    <2>1. spc' = "dead" /\ Len(backlog') = 0
      BY <1>5, EmptySeq DEF Killed
    <2>2. QED
      BY <2>1 DEF Queue
  <1>6. ASSUME NEW q \in Peers, Connect(q) PROVE Queue'
    <2>1. /\ peer[q] = "new" /\ srv' = [srv EXCEPT ![q] = "queued"]
          /\ backlog' = Append(backlog, q) /\ UNCHANGED <<spc, cur>>
      BY <1>6 DEF Connect, server
    <2>2. /\ Len(backlog') = Len(backlog) + 1 /\ Len(backlog) \in Nat
          /\ \A i \in 1 .. Len(backlog) : backlog'[i] = backlog[i]
          /\ backlog'[Len(backlog) + 1] = q
      BY <1>a, <2>1, AppendProperties, LenProperties
    <2>3. /\ \A i \in 1 .. Len(backlog) : backlog[i] # q
          /\ spc = "shake" => cur # q
      BY <1>b, <2>1 DEF Strangers
    <2>4. \A i, j \in 1 .. Len(backlog') : backlog'[i] = backlog'[j] => i = j
      BY <2>2, <2>3 DEF Queue
    <2>5. \A i \in 1 .. Len(backlog') : srv'[backlog'[i]] = "queued"
      BY <1>a, <1>c, <2>1, <2>2, <2>3 DEF Queue
    <2>6. spc' = "shake" => srv'[cur'] = "queued"
                              /\ \A i \in 1 .. Len(backlog') : backlog'[i] # cur'
      BY <1>a, <2>1, <2>2, <2>3 DEF Queue
    <2>7. QED
      BY <2>4, <2>5, <2>6 DEF Queue
  <1>7. ASSUME NEW q \in Peers,
               \/ Wired(q) \/ Chat(q) \/ PeerHears(q) \/ PeerMishears(q)
               \/ Leave(q) \/ \E f \in Says[q] : Say(q, f)
        PROVE  Queue'
    <2>1. UNCHANGED <<backlog, spc, cur, srv>>
      BY <1>7 DEF Wired, Chat, PeerHears, PeerMishears, Leave, Say, server
    <2>2. QED
      BY <2>1 DEF Queue
  <1>8. QED
    BY <1>1, <1>2, <1>3, <1>4, <1>5, <1>6, <1>7 DEF Next, Server

\* A frame more to a peer that has been welcomed.
LEMMA WelcomedMore ==
  ASSUME FrameTypes, NEW p \in Peers, NEW f \in Frame, Welcomed(p),
         srv[p] = "held", srv'[p] \notin {"none", "queued"}, peer'[p] = peer[p],
         f.op # "welcome", down'[p] = down[p] \/ down'[p] = Append(down[p], f)
  PROVE  Welcomed(p)'
  <1>1. CASE down'[p] = down[p]
    BY <1>1 DEF Welcomed
  <1>2. CASE down'[p] = Append(down[p], f)
    <2>1. /\ Len(down[p]) \in Nat /\ Len(down'[p]) = Len(down[p]) + 1
          /\ down'[p][Len(down[p]) + 1] = f /\ down'[p] # <<>>
          /\ \A i \in 1 .. Len(down[p]) : down'[p][i] = down[p][i]
      <3> DEFINE more == Append(down[p], f)
      <3>1. down[p] \in Seq(Frame)
        BY DEF FrameTypes
      <3>2. /\ Len(down[p]) \in Nat /\ Len(more) = Len(down[p]) + 1
            /\ more[Len(down[p]) + 1] = f /\ more # <<>>
            /\ \A i \in 1 .. Len(down[p]) : more[i] = down[p][i]
        BY <3>1, AppendFacts
      <3>3. down'[p] = more
        BY <1>2
      <3> HIDE DEF more
      <3>4. QED
        BY <3>2, <3>3
    <2>2. down[p] # <<>> => Len(down[p]) # 0
      BY EmptySeq, SeqFacts DEF FrameTypes
    <2>3. peer'[p] = "wiring" => down'[p][1].op = "welcome"
      BY <2>1, <2>2 DEF Welcomed
    <2>4. \A j \in 1 .. Len(down'[p]) :
            down'[p][j].op = "welcome" => peer'[p] = "wiring" /\ j = 1
      BY <2>1 DEF Welcomed
    <2>5. QED
      BY <2>1, <2>3, <2>4 DEF Welcomed
  <1>3. QED
    BY <1>1, <1>2

LEMMA ServerWelcomes ==
  ASSUME Sessions, Arrivals, Server, NEW p \in Peers
  PROVE  Welcomed(p)'
  <1>a. /\ srv \in [Peers -> Stages] /\ peer \in [Peers -> Standings]
        /\ spc \in {"shake", "hear", "reply", "hangup"} => cur \in Peers
        /\ SlotsFollow
    BY DEF Sessions, Types
  <1>b. FrameTypes /\ Queue /\ Welcomed(p) /\ \A q \in Peers : Welcomed(q)
    BY DEF Arrivals
  <1>h. ASSUME InSession PROVE cur \in Peers /\ srv[cur] = "held"
    BY <1>a, <1>h DEF SlotsFollow, InSession
  <1>1. CASE Accept
    BY <1>1, <1>b DEF Accept, Welcomed
  <1>2. CASE Shake
    <2>1. /\ spc = "shake" /\ cur \in Peers /\ Queues(cur, Plain("welcome"))
          /\ UNCHANGED <<peer, up, sent, got>>
          /\ \E where \in {"held", "closed"} : srv' = [srv EXCEPT ![cur] = where]
      BY <1>2, <1>a DEF Shake
    <2>2. CASE p # cur
      <3>1. down'[p] = down[p] /\ srv'[p] = srv[p]
        BY <1>a, <1>b, <2>1, <2>2, Delivered, FrameFacts
      <3>2. QED
        BY <1>b, <2>1, <3>1 DEF Welcomed
    <2>3. CASE p = cur
      <3>1. /\ srv[p] = "queued" /\ srv'[p] \in {"held", "closed"} /\ down[p] = <<>>
            /\ peer[p] \in {"new", "wiring", "gone"}
        BY <1>a, <1>b, <2>1, <2>3 DEF Queue, Welcomed
      <3>2. peer[p] # "new"
        BY <2>1, <2>3 DEF Sessions, Strangers
      <3>3. CASE peer[p] = "gone"
        <4>1. down'[p] = <<>>
          BY <1>b, <2>1, <2>3, <3>1, <3>3, Delivered, FrameFacts
        <4>2. Len(down'[p]) = 0
          BY <4>1, EmptySeq
        <4>3. QED
          BY <2>1, <3>1, <3>3, <4>1, <4>2 DEF Welcomed
      <3>4. CASE peer[p] = "wiring"
        <4>1. down'[p] = Append(<<>>, Plain("welcome"))
          BY <1>b, <2>1, <2>3, <3>1, <3>4, Delivered, FrameFacts
        <4>2. /\ Len(down'[p]) = 1 /\ down'[p] # <<>> /\ down'[p][1] = Plain("welcome")
          BY <4>1, AppendFacts, FrameFacts, EmptySeq
        <4>3. down'[p][1].op = "welcome"
          BY <4>2 DEF Plain
        <4>4. QED
          BY <2>1, <3>1, <3>4, <4>2, <4>3 DEF Welcomed
      <3>5. QED
        BY <3>1, <3>2, <3>3, <3>4
    <2>4. QED
      BY <2>2, <2>3
  <1>3. CASE ShakeFails
    <2>1. /\ spc = "shake" /\ cur \in Peers /\ srv[cur] = "queued"
          /\ srv' = [srv EXCEPT ![cur] = "closed"] /\ UNCHANGED <<peer, up, down, sent, got>>
      BY <1>3, <1>a, <1>b DEF ShakeFails, Queue
    <2>2. srv'[p] = srv[p] \/ srv'[p] = "closed"
      BY <1>a, <2>1
    <2>3. QED
      BY <1>b, <2>1, <2>2 DEF Welcomed
  <1>4. CASE HearText \/ HearMedia \/ HearChat \/ HearEnd \/ HearNothing
    <2>1. /\ UNCHANGED <<peer, srv, down, sent, got>> /\ InSession
          /\ UNCHANGED up \/ up' = [up EXCEPT ![cur] = Tail(@)]
      BY <1>4
      DEF HearText, HearMedia, HearChat, HearEnd, HearNothing, Takes, InSession, server
    <2>2. srv[p] \in {"none", "queued"} => up'[p] = up[p]
      BY <1>b, <1>h, <2>1 DEF FrameTypes
    <2>3. QED
      BY <1>b, <2>1, <2>2 DEF Welcomed
  <1>5. ASSUME NEW f \in Frame, f.op # "welcome", Deliver(cur, f), InSession,
               UNCHANGED <<peer, sent, got>>,
               \A q \in Peers : q # cur => up'[q] = up[q] /\ srv'[q] = srv[q],
               srv'[cur] \notin {"none", "queued"}
        PROVE  Welcomed(p)'
    <2>1. CASE p # cur
      <3>1. down'[p] = down[p]
        BY <1>5, <1>b, <1>h, <2>1, Delivered, OutcomeFacts DEF Deliver
      <3>2. QED
        BY <1>5, <1>b, <2>1, <3>1 DEF Welcomed
    <2>2. CASE p = cur
      <3>1. PICK g \in Outcomes(f) : Queues(cur, g)
        BY <1>5 DEF Deliver
      <3>2. g \in Frame /\ g.op # "welcome"
        BY <1>5, OutcomeFacts
      <3>3. down'[p] = down[p] \/ down'[p] = Append(down[p], g)
        BY <1>5, <1>b, <2>2, <3>1, <3>2, Delivered
      <3>4. QED
        BY <1>5, <1>b, <1>h, <2>2, <3>2, <3>3, WelcomedMore
    <2>3. QED
      BY <2>1, <2>2
  <1>6. CASE HearPing
    <2>1. /\ Takes({"ping"}) /\ Deliver(cur, [op |-> "pong", body |-> Next1.body])
          /\ InSession /\ UNCHANGED <<peer, srv, sent, got>>
      BY <1>6 DEF HearPing, Takes, InSession
    <2>2. Next1 \in Frame /\ \A q \in Peers : q # cur => up'[q] = up[q]
      BY <1>b, <1>h, <2>1, Took
    <2>3. [op |-> "pong", body |-> Next1.body] \in Frame
      BY <2>2, FrameFacts
    <2>4. QED
      BY <1>5, <1>h, <2>1, <2>2, <2>3
  <1>7. CASE Reply
    <2>1. /\ Deliver(cur, Echo(msg, heard)) /\ InSession
          /\ UNCHANGED <<peer, srv, up, sent, got>>
      BY <1>7 DEF Reply, InSession
    <2>2. Echo(msg, heard) \in Frame /\ IsEcho(Echo(msg, heard))
      BY <1>b, FrameFacts DEF FrameTypes
    <2>3. Echo(msg, heard).op # "welcome"
      BY <2>2 DEF IsEcho, Media
    <2>4. QED
      BY <1>5, <1>h, <2>1, <2>2, <2>3
  <1>8. CASE Hangup
    <2>1. /\ Deliver(cur, Plain("close")) /\ InSession /\ UNCHANGED <<peer, sent, got>>
          /\ srv' = [srv EXCEPT ![cur] = "closed"] /\ up' = [up EXCEPT ![cur] = <<>>]
      BY <1>8 DEF Hangup, InSession
    <2>2. /\ \A q \in Peers : q # cur => up'[q] = up[q] /\ srv'[q] = srv[q]
          /\ srv'[cur] = "closed"
      BY <1>a, <1>b, <1>h, <2>1 DEF FrameTypes
    <2>3. Plain("close").op # "welcome" /\ Plain("close") \in Frame
      BY FrameFacts DEF Plain
    <2>4. QED
      BY <1>5, <2>1, <2>2, <2>3
  <1>9. CASE Killed
    <2>1. /\ UNCHANGED <<peer, up, down, sent, got>>
          /\ srv' = [q \in Peers |-> IF srv[q] = "none" THEN "none" ELSE "closed"]
      BY <1>9 DEF Killed
    <2>2. srv'[p] = IF srv[p] = "none" THEN "none" ELSE "closed"
      BY <2>1
    <2>3. QED
      BY <1>b, <2>1, <2>2 DEF Welcomed
  <1>10. QED
    BY <1>1, <1>2, <1>3, <1>4, <1>6, <1>7, <1>8, <1>9 DEF Server

LEMMA PeersWelcomed ==
  ASSUME Sessions, Arrivals, NEW p \in Peers, NEW q \in Peers,
         \/ Connect(q) \/ Wired(q) \/ Chat(q) \/ PeerHears(q) \/ PeerMishears(q)
         \/ Leave(q) \/ \E f \in Says[q] : Say(q, f)
  PROVE  Welcomed(p)'
  <1>a. /\ srv \in [Peers -> Stages] /\ peer \in [Peers -> Standings]
    BY DEF Sessions, Types
  <1>b. FrameTypes /\ Welcomed(p) /\ Welcomed(q)
    BY DEF Arrivals
  <1>c. down[p] \in Seq(Frame) /\ Len(down[p]) \in Nat
    BY <1>b DEF FrameTypes
  <1>1. CASE p # q
    <2>1. /\ down'[p] = down[p] /\ up'[p] = up[p] /\ sent'[p] = sent[p] /\ got'[p] = got[p]
          /\ peer'[p] = peer[p] /\ srv'[p] = srv[p]
      BY <1>1, <1>a, <1>b
      DEF Connect, Wired, Chat, PeerHears, PeerMishears, Leave, Say, server, FrameTypes
    <2>2. QED
      BY <1>b, <2>1 DEF Welcomed
  <1>2. CASE p = q /\ Connect(q)
    <2>1. /\ peer[p] = "new" /\ peer'[p] = "wiring" /\ srv'[p] = "queued"
          /\ UNCHANGED <<up, down, sent, got>>
      BY <1>2, <1>a DEF Connect
    <2>2. srv[p] = "none"
      BY <2>1 DEF Sessions, Strangers
    <2>3. down[p] = <<>> /\ Len(down[p]) = 0
      BY <1>b, <2>2, EmptySeq DEF Welcomed
    <2>4. QED
      BY <1>b, <2>1, <2>2, <2>3 DEF Welcomed
  <1>3. CASE p = q /\ (Wired(q) \/ PeerHears(q) \/ PeerMishears(q))
    <2>1. /\ down[p] # <<>> /\ down'[p] = Tail(down[p]) /\ srv' = srv
          /\ peer[p] \in {"wiring", "open", "torn"} /\ peer'[p] \in {"open", "told", "torn"}
      BY <1>3, <1>a, <1>b DEF Wired, PeerHears, PeerMishears, FrameTypes, server
    <2>2. /\ Len(down'[p]) = Len(down[p]) - 1
          /\ \A i \in 1 .. Len(down[p]) - 1 : down'[p][i] = down[p][i + 1]
      BY <1>c, <2>1, SeqFacts
    <2>3. \A j \in 1 .. Len(down'[p]) : down'[p][j].op # "welcome"
      <3> SUFFICES ASSUME NEW j \in 1 .. Len(down'[p]) PROVE down'[p][j].op # "welcome"
        OBVIOUS
      <3>1. j + 1 \in 1 .. Len(down[p]) /\ j + 1 # 1 /\ down'[p][j] = down[p][j + 1]
        BY <1>c, <2>2
      <3>2. QED
        BY <1>b, <3>1 DEF Welcomed
    <2>4. srv[p] \notin {"none", "queued"}
      BY <1>b, <2>1 DEF Welcomed
    <2>5. QED
      BY <2>1, <2>3, <2>4 DEF Welcomed
  <1>4. CASE p = q /\ Leave(q)
    <2>1. /\ peer'[p] = "gone" /\ down'[p] = <<>> /\ UNCHANGED <<srv, sent, got>>
          /\ srv[p] \in {"none", "queued"} => up'[p] = up[p]
      BY <1>4, <1>a, <1>b DEF Leave, server, FrameTypes
    <2>2. Len(down'[p]) = 0
      BY <2>1, EmptySeq
    <2>3. QED
      BY <1>b, <2>1, <2>2 DEF Welcomed
  <1>5. CASE p = q /\ (Chat(q) \/ \E f \in Says[q] : Say(q, f))
    <2>1. srv[p] = "held" /\ UNCHANGED <<srv, peer, down>>
      BY <1>5 DEF Chat, Say, server
    <2>2. QED
      BY <1>b, <2>1 DEF Welcomed
  <1>6. QED
    BY <1>1, <1>2, <1>3, <1>4, <1>5

LEMMA NextArrivals == Sessions /\ Arrivals /\ [Next]_vars => Arrivals'
  <1> SUFFICES ASSUME Sessions, Arrivals, [Next]_vars PROVE Arrivals'
    OBVIOUS
  <1>1. CASE UNCHANGED vars
    BY <1>1 DEF vars, server, Arrivals, FrameTypes, Queue, Welcomed
  <1>2. CASE Next
    <2>1. FrameTypes'
      BY <1>2, ServerFrameTypes, PeerFrameTypes DEF Next, Arrivals
    <2>2. Queue'
      BY <1>2, QueueStays DEF Arrivals
    <2>3. \A p \in Peers : Welcomed(p)'
      BY <1>2, ServerWelcomes, PeersWelcomed DEF Next
    <2>4. QED
      BY <2>1, <2>2, <2>3 DEF Arrivals
  <1>3. QED
    BY <1>1, <1>2

-----------------------------------------------------------------------------
(* The conversation of one peer *)

\* Nothing of the peer's own changes, but that its session may end.
LEMMA FlowKept ==
  ASSUME NEW p \in Peers, FrameTypes, Flow(p),
         sent'[p] = sent[p], got'[p] = got[p],
         Up(p)' => Up(p) /\ down'[p] = down[p],
         (Up(p)' /\ Listening' /\ cur' = p) =>
           /\ Listening /\ cur = p /\ up'[p] = up[p]
           /\ UNCHANGED <<spc, msg, heard>>
  PROVE  Flow(p)'
  <1>1. ASSUME NEW n, NEW f, Returns(p, n, f) PROVE Returns(p, n, f)'
    BY <1>1, ReturnsStay
  <1>2. Heard(p)'
    <2>1. \A k \in 1 .. Len(got[p]) : got[p][k] # Garbled => Returns(p, k, got[p][k])'
      BY <1>1 DEF Flow, Heard
    <2>2. QED
      BY <2>1 DEF Heard
  <1>3. Messages(p)' = Messages(p)
    BY DEF Messages
  <1>4. Reads(p)'
    BY <1>3 DEF Flow, Reads, Taken
  <1>5. ASSUME Up(p)' PROVE Writes(p)'
    <2>1. PICK n \in [0 .. Len(down[p]) -> Nat] :
            /\ Counts(p, down[p], Len(got[p]), n)
            /\ Listening /\ cur = p => n[Len(down[p])] + Pending = Read(p)
      BY <1>5 DEF Flow, Writes
    <2>2. Counts(p, down[p], Len(got[p]), n)'
      <3>1. PICK d, first : d = down[p] /\ first = Len(got[p])
        OBVIOUS
      <3>2. Counts(p, d, first, n)'
        BY <2>1, <3>1, CountsStay
      <3>3. d = down'[p] /\ first = Len(got'[p])
        BY <1>5, <3>1
      <3>4. QED
        BY <3>2, <3>3 DEF Counts
    <2>3. Listening' /\ cur' = p => n[Len(down'[p])] + Pending' = Read(p)'
      BY <1>3, <1>5, <2>1 DEF Pending, Read, Taken
    <2>4. QED
      BY <1>5, <2>1, <2>2, <2>3 DEF Writes
  <1>6. QED
    BY <1>2, <1>4, <1>5 DEF Flow, Writes

\* A frame is written to the peer of the session, or was lost with it.
LEMMA WritesMore ==
  ASSUME NEW p \in Peers, FrameTypes, NEW f \in Frame, Up(p),
         sent'[p] = sent[p], got'[p] = got[p], down'[p] = Append(down[p], f),
         NEW n \in [0 .. Len(down[p]) -> Nat], Counts(p, down[p], Len(got[p]), n),
         IsEcho(f) => Returns(p, n[Len(down[p])] + 1, f),
         Listening' /\ cur' = p =>
           n[Len(down[p])] + (IF IsEcho(f) THEN 1 ELSE 0) + Pending' = Read(p)'
  PROVE  Writes(p)'
  <1>1. down[p] \in Seq(Frame) /\ Len(down[p]) \in Nat
    BY LenProperties DEF FrameTypes
  <1>2. PICK m \in [0 .. Len(down[p]) + 1 -> Nat] :
           /\ Counts(p, Append(down[p], f), Len(got[p]), m)
           /\ m[Len(down[p]) + 1] = n[Len(down[p])] + IF IsEcho(f) THEN 1 ELSE 0
    BY <1>1, CountsAppend
  <1>3. Len(down'[p]) = Len(down[p]) + 1
    BY <1>1, AppendProperties
  <1>4. Counts(p, down[p], Len(got[p]), m)'
    <2>1. PICK d, first : d = Append(down[p], f) /\ first = Len(got[p])
      OBVIOUS
    <2>2. Counts(p, d, first, m)'
      BY <1>2, <2>1, CountsStay
    <2>3. d = down'[p] /\ first = Len(got'[p])
      BY <2>1
    <2>4. QED
      BY <2>2, <2>3 DEF Counts
  <1>5. m \in [0 .. Len(down'[p]) -> Nat]
    BY <1>2, <1>3
  <1>6. Listening' /\ cur' = p => m[Len(down'[p])] + Pending' = Read(p)'
    BY <1>2, <1>3
  <1>7. QED
    BY <1>4, <1>5, <1>6 DEF Writes

\* What is on its way to the peer stays, and counts as before.
LEMMA WritesSame ==
  ASSUME NEW p \in Peers, FrameTypes, Up(p),
         sent'[p] = sent[p], got'[p] = got[p], down'[p] = down[p],
         NEW n \in [0 .. Len(down[p]) -> Nat], Counts(p, down[p], Len(got[p]), n),
         Listening' /\ cur' = p => n[Len(down[p])] + Pending' = Read(p)'
  PROVE  Writes(p)'
  <1>1. PICK d, first : d = down[p] /\ first = Len(got[p])
    OBVIOUS
  <1>2. Counts(p, d, first, n)'
    BY <1>1, CountsStay
  <1>3. d = down'[p] /\ first = Len(got'[p])
    BY <1>1
  <1>4. Counts(p, down[p], Len(got[p]), n)'
    BY <1>2, <1>3 DEF Counts
  <1>5. QED
    BY <1>4 DEF Writes

\* The server takes the next frame of the peer's.
LEMMA TakesOne ==
  ASSUME FrameTypes, NEW p \in Peers, cur = p, Up(p), Reads(p), NEW ops, Takes(ops)
  PROVE  /\ Taken(p) \in Nat /\ Taken(p) + 1 \in 1 .. Len(sent[p])
         /\ sent[p][Taken(p) + 1] = Next1
         /\ Taken(p)' = Taken(p) + 1
         /\ Len(up'[p]) <= Len(sent'[p])
         /\ \A i \in 1 .. Len(up'[p]) : up'[p][i] = sent'[p][Taken(p)' + i]
         /\ ~Stops(Next1) => \A i \in 1 .. Taken(p)' : ~Stops(sent'[p][i])
  <1>1. spc = "hear" /\ UNCHANGED <<cur, sent>>
    BY DEF Takes
  <1>2. /\ up[p] \in Seq(Frame) /\ up[p] # <<>> /\ Len(sent[p]) \in Nat
        /\ up'[p] = Tail(up[p]) /\ Next1 = up[p][1]
    BY Took, LenProperties DEF FrameTypes
  <1>3. /\ Len(up[p]) \in Nat \ {0} /\ Len(up'[p]) = Len(up[p]) - 1
        /\ \A i \in 1 .. Len(up[p]) - 1 : up'[p][i] = up[p][i + 1]
    BY <1>2, SeqFacts
  <1>4. /\ Len(up[p]) <= Len(sent[p])
        /\ \A i \in 1 .. Len(up[p]) : up[p][i] = sent[p][Taken(p) + i]
        /\ \A i \in 1 .. Taken(p) : ~Stops(sent[p][i])
    BY <1>1 DEF Reads, Listening
  <1>5. /\ Taken(p) \in Nat /\ Taken(p) + 1 \in 1 .. Len(sent[p])
        /\ Taken(p)' = Taken(p) + 1
    <2>1. Taken(p) = Len(sent[p]) - Len(up[p]) /\ Taken(p)' = Len(sent[p]) - Len(up'[p])
      BY <1>1 DEF Taken
    <2>2. PICK a, b : a = Len(sent[p]) /\ b = Len(up[p])
      OBVIOUS
    <2>3. a \in Nat /\ b \in Nat \ {0} /\ b <= a
      BY <1>2, <1>3, <1>4, <2>2
    <2>4. Taken(p) = a - b /\ Taken(p)' = a - (b - 1)
      BY <1>3, <2>1, <2>2
    <2>5. a - b \in Nat /\ (a - b) + 1 \in 1 .. a /\ a - (b - 1) = (a - b) + 1
      BY <2>3
    <2>6. QED
      BY <2>2, <2>4, <2>5
  <1>6. sent[p][Taken(p) + 1] = Next1
    BY <1>2, <1>3, <1>4
  <1>7. ASSUME NEW i \in 1 .. Len(up'[p])
        PROVE  up'[p][i] = sent'[p][Taken(p)' + i]
    <2>1. i + 1 \in 1 .. Len(up[p]) /\ i \in 1 .. Len(up[p]) - 1
      BY <1>3
    <2>2. up'[p][i] = sent[p][Taken(p) + (i + 1)]
      BY <1>3, <1>4, <2>1
    <2>3. Taken(p) + (i + 1) = Taken(p)' + i
      BY <1>5, <2>1
    <2>4. QED
      BY <1>1, <2>2, <2>3
  <1>8. ASSUME ~Stops(Next1), NEW i \in 1 .. Taken(p)' PROVE ~Stops(sent'[p][i])
    <2>1. i \in 1 .. Taken(p) \/ i = Taken(p) + 1
      BY <1>5
    <2>2. QED
      BY <1>1, <1>4, <1>6, <1>8, <2>1
  <1>9. Len(up'[p]) <= Len(sent'[p])
    BY <1>1, <1>2, <1>3, <1>4
  <1>10. QED
    BY <1>5, <1>6, <1>7, <1>8, <1>9

LEMMA HeardKept ==
  ASSUME NEW p \in Peers, FrameTypes, Heard(p), got'[p] = got[p],
         sent'[p] = sent[p] \/ \E g \in Frame : sent'[p] = Append(sent[p], g)
  PROVE  Heard(p)'
  <1>1. \A k \in 1 .. Len(got[p]) : got[p][k] # Garbled => Returns(p, k, got[p][k])'
    BY ReturnsStay DEF Heard
  <1>2. QED
    BY <1>1 DEF Heard

\* A text, a clip or a shot is taken, and will be answered.
LEMMA HearMessage ==
  ASSUME FrameTypes, NEW p \in Peers, cur = p, Up(p), Up(p)', Flow(p), NEW ops, Takes(ops),
         ops \subseteq {"text"} \cup Media, ~Stops(Next1),
         msg' = Next1, heard' = Next1.op, spc' = "reply", UNCHANGED <<down, got>>
  PROVE  Flow(p)'
  <1>1. spc = "hear" /\ UNCHANGED <<cur, sent>> /\ Next1.op \in ops
    BY DEF Takes
  <1>2. down[p] \in Seq(Frame) /\ Len(down[p]) \in Nat
    BY LenProperties DEF FrameTypes
  <1>3. Reads(p) /\ Writes(p) /\ Heard(p)
    BY DEF Flow
  <1>4. /\ Taken(p) \in Nat /\ Taken(p) + 1 \in 1 .. Len(sent[p])
        /\ sent[p][Taken(p) + 1] = Next1
        /\ Taken(p)' = Taken(p) + 1
        /\ Len(up'[p]) <= Len(sent'[p])
        /\ \A i \in 1 .. Len(up'[p]) : up'[p][i] = sent'[p][Taken(p)' + i]
        /\ \A i \in 1 .. Taken(p)' : ~Stops(sent'[p][i])
    BY <1>3, TakesOne
  <1>5. Taken(p) + 1 \in Messages(p) /\ Messages(p)' = Messages(p)
    BY <1>1, <1>4 DEF Messages
  <1>6. Reads(p)'
    BY <1>1, <1>2, <1>4, <1>5 DEF Reads
  <1>7. Read(p)' = Read(p) + 1 /\ Read(p) \in Nat
    BY <1>4, <1>5, NextRank DEF Read
  <1>8. PICK n \in [0 .. Len(down[p]) -> Nat] :
          /\ Counts(p, down[p], Len(got[p]), n)
          /\ n[Len(down[p])] + Pending = Read(p)
    BY <1>1, <1>2, <1>3 DEF Writes, Listening
  <1>9. n[Len(down[p])] + Pending' = Read(p)'
    <2>1. n[Len(down[p])] \in Nat
      BY <1>2
    <2>2. Pending = 0 /\ Pending' = 1
      BY <1>1 DEF Pending
    <2>3. QED
      BY <1>7, <1>8, <2>1, <2>2
  <1>10. Writes(p)'
    BY <1>1, <1>2, <1>8, <1>9, WritesSame
  <1>11. Heard(p)'
    BY <1>1, <1>3, HeardKept
  <1>12. QED
    BY <1>2, <1>6, <1>10, <1>11 DEF Flow

\* A ping is answered, but it is no message.
LEMMA HearsPing ==
  ASSUME FrameTypes, NEW p \in Peers, cur = p, Up(p), Up(p)', Flow(p), Takes({"ping"}),
         UNCHANGED <<spc, msg, heard, got>>,
         NEW f \in Frame, ~IsEcho(f), down'[p] = Append(down[p], f)
  PROVE  Flow(p)'
  <1>1. spc = "hear" /\ UNCHANGED <<cur, sent>> /\ Next1.op = "ping" /\ ~Ends(Next1)
    BY DEF Takes
  <1>2. down[p] \in Seq(Frame) /\ Len(down[p]) \in Nat
    BY LenProperties DEF FrameTypes
  <1>3. Reads(p) /\ Writes(p) /\ Heard(p)
    BY DEF Flow
  <1>s. ~Stops(Next1)
    BY <1>1 DEF Stops, NoMsg, Plain
  <1>4. /\ Taken(p) \in Nat /\ Taken(p) + 1 \in 1 .. Len(sent[p])
        /\ sent[p][Taken(p) + 1] = Next1
        /\ Taken(p)' = Taken(p) + 1
        /\ Len(up'[p]) <= Len(sent'[p])
        /\ \A i \in 1 .. Len(up'[p]) : up'[p][i] = sent'[p][Taken(p)' + i]
        /\ \A i \in 1 .. Taken(p)' : ~Stops(sent'[p][i])
    BY <1>3, <1>s, TakesOne
  <1>5. Taken(p) + 1 \notin Messages(p) /\ Messages(p)' = Messages(p)
    BY <1>1, <1>4 DEF Messages, Media
  <1>6. Reads(p)'
    BY <1>1, <1>2, <1>4 DEF Reads
  <1>7. Read(p)' = Read(p) /\ Read(p) \in Nat
    BY <1>4, <1>5, NextRank DEF Read
  <1>8. PICK n \in [0 .. Len(down[p]) -> Nat] :
          /\ Counts(p, down[p], Len(got[p]), n)
          /\ n[Len(down[p])] + Pending = Read(p)
    BY <1>1, <1>2, <1>3 DEF Writes, Listening
  <1>9. n[Len(down[p])] + 0 + Pending' = Read(p)'
    <2>1. n[Len(down[p])] \in Nat
      BY <1>2
    <2>2. Pending' = 0 /\ Pending = 0
      BY <1>1 DEF Pending
    <2>3. QED
      BY <1>7, <1>8, <2>1, <2>2
  <1>10. Writes(p)'
    BY <1>1, <1>2, <1>8, <1>9, WritesMore
  <1>11. Heard(p)'
    BY <1>1, <1>3, HeardKept
  <1>12. QED
    BY <1>2, <1>6, <1>10, <1>11 DEF Flow

\* The message that was taken last is echoed.
LEMMA EchoesOne ==
  ASSUME FrameTypes, NEW p \in Peers, cur = p, Up(p), Up(p)', Flow(p), Reply
  PROVE  Flow(p)'
  <1>1. /\ spc = "reply" /\ spc' = "hear" /\ UNCHANGED <<cur, up, sent, got>>
        /\ Deliver(cur, Echo(msg, heard)) /\ msg \in Frame
    BY DEF Reply, FrameTypes
  <1>2. down[p] \in Seq(Frame) /\ Len(down[p]) \in Nat
    BY LenProperties DEF FrameTypes
  <1>3. Reads(p) /\ Writes(p) /\ Heard(p)
    BY DEF Flow
  <1>4. PICK f \in Outcomes(Echo(msg, heard)) : Queues(p, f)
    BY <1>1 DEF Deliver
  <1>5. f \in Frame /\ IsEcho(f)
    BY <1>1, <1>4, FrameFacts, OutcomeFacts
  <1>6. down'[p] = Append(down[p], f)
    BY <1>1, <1>2, <1>4, <1>5, Delivered DEF Up
  <1>7. /\ Taken(p) \in Messages(p) /\ msg = sent[p][Taken(p)] /\ heard = msg.op
        /\ \A i \in 1 .. Taken(p) : ~Stops(sent[p][i])
    BY <1>1, <1>2, <1>3 DEF Reads, Listening
  <1>8. Returns(p, Read(p), f)
    BY <1>4, <1>7 DEF Returns, Read
  <1>9. PICK n \in [0 .. Len(down[p]) -> Nat] :
          /\ Counts(p, down[p], Len(got[p]), n)
          /\ n[Len(down[p])] + Pending = Read(p)
    BY <1>1, <1>2, <1>3 DEF Writes, Listening
  <1>10. n[Len(down[p])] \in Nat
    BY <1>2
  <1>11. Pending = 1 /\ Pending' = 0 /\ Read(p)' = Read(p)
    BY <1>1 DEF Pending, Read, Taken, Messages
  <1>12. n[Len(down[p])] + 1 = Read(p) /\ n[Len(down[p])] + 1 + Pending' = Read(p)'
    BY <1>9, <1>10, <1>11
  <1>13. Writes(p)'
    BY <1>1, <1>2, <1>5, <1>6, <1>8, <1>9, <1>12, WritesMore
  <1>14. Reads(p)'
    BY <1>1, <1>2, <1>3 DEF Reads, Taken, Listening
  <1>15. Heard(p)'
    BY <1>1, <1>3, HeardKept
  <1>16. QED
    BY <1>2, <1>13, <1>14, <1>15 DEF Flow

LEMMA ShakeFlows ==
  ASSUME NEW p \in Peers, Sessions, Arrivals, Flow(p), cur = p, Up(p), Shake
  PROVE  Flow(p)'
  <1>1. /\ spc = "shake" /\ spc' \in {"hear", "hail"} /\ UNCHANGED <<cur, peer, up, sent, got>>
        /\ Queues(p, Plain("welcome"))
    BY DEF Shake
  <1>2. FrameTypes /\ Queue /\ Welcomed(p)
    BY DEF Arrivals
  <1>3. sent[p] = <<>> /\ got[p] = <<>> /\ up[p] = <<>> /\ down[p] = <<>>
    BY <1>1, <1>2 DEF Queue, Welcomed
  <1>4. Len(sent[p]) = 0 /\ Len(got[p]) = 0 /\ Len(up[p]) = 0 /\ Len(down[p]) = 0
    BY <1>3, EmptySeq
  <1>5. PICK f : f = Plain("welcome")
    OBVIOUS
  <1>6. f \in Frame /\ ~IsEcho(f)
    BY <1>5, FrameFacts
  <1>7. down'[p] = Append(down[p], f)
    BY <1>1, <1>2, <1>5, <1>6, Delivered DEF Up
  <1>8. PICK n \in [0 .. Len(down[p]) -> Nat] : Counts(p, down[p], Len(got[p]), n)
    BY DEF Flow, Writes
  <1>9. n[Len(down[p])] = 0
    BY <1>4, <1>8 DEF Counts
  <1>10. Taken(p)' = 0 /\ Pending' = 0
    BY <1>1, <1>4 DEF Taken, Pending
  <1>11. Read(p)' = 0
    <2>1. Messages(p)' \cap 1 .. Taken(p)' = {}
      BY <1>10
    <2>2. QED
      BY <2>1, FS_EmptySet DEF Read
  <1>12. n[Len(down[p])] + 0 + Pending' = Read(p)'
    BY <1>9, <1>10, <1>11
  <1>13. Writes(p)'
    BY <1>1, <1>2, <1>6, <1>7, <1>8, <1>12, WritesMore
  <1>14. Reads(p)'
    BY <1>1, <1>4, <1>10 DEF Reads
  <1>15. Heard(p)'
    BY <1>1, <1>2, HeardKept DEF Flow
  <1>16. QED
    BY <1>13, <1>14, <1>15 DEF Flow

LEMMA HangupFlows ==
  ASSUME NEW p \in Peers, FrameTypes, Flow(p), cur = p, Up(p), Hangup
  PROVE  Flow(p)'
  <1>1. /\ spc' = "hail" /\ UNCHANGED <<cur, peer, sent, got>>
        /\ Deliver(p, Plain("close"))
    BY DEF Hangup
  <1>2. PICK f \in Outcomes(Plain("close")) : Queues(p, f)
    BY <1>1 DEF Deliver
  <1>3. f \in Frame /\ ~IsEcho(f)
    BY <1>2, FrameFacts, OutcomeFacts
  <1>4. down'[p] = Append(down[p], f)
    BY <1>1, <1>2, <1>3, Delivered DEF Up
  <1>5. PICK n \in [0 .. Len(down[p]) -> Nat] : Counts(p, down[p], Len(got[p]), n)
    BY DEF Flow, Writes
  <1>6. ~Listening'
    BY <1>1 DEF Listening
  <1>7. Writes(p)'
    BY <1>1, <1>3, <1>4, <1>5, <1>6, WritesMore
  <1>8. Reads(p)' /\ Heard(p)'
    BY <1>1, <1>6, HeardKept DEF Flow, Reads
  <1>9. QED
    BY <1>7, <1>8 DEF Flow

LEMMA ServerFlows ==
  ASSUME Sessions, Arrivals, NEW p \in Peers, Flow(p), Server
  PROVE  Flow(p)'
  <1>a. /\ FrameTypes
        /\ spc \in {"shake", "hear", "reply", "hangup"} => cur \in Peers
    BY DEF Arrivals, Sessions, Types
  <1>b. UNCHANGED <<peer, sent, got>>
    BY DEF Server, Accept, Shake, ShakeFails, HearText, HearMedia, HearPing, HearChat,
           HearEnd, HearNothing, Reply, Hangup, Killed, Takes
  <1>c. Up(p)' <=> Up(p)
    BY <1>b DEF Up
  <1>1. CASE Accept \/ ShakeFails \/ HearEnd \/ HearNothing \/ Killed
    <2>1. UNCHANGED down /\ ~Listening'
      BY <1>1 DEF Accept, ShakeFails, HearEnd, HearNothing, Killed, Listening
    <2>2. QED
      BY <1>a, <1>b, <1>c, <2>1, FlowKept
  <1>2. ASSUME cur \in Peers, NEW f \in Frame, Queues(cur, f), p # cur \/ ~Up(p),
               \A q \in Peers : q # cur => up'[q] = up[q], UNCHANGED cur
        PROVE  Flow(p)'
    <2>1. Up(p)' => down'[p] = down[p]
      BY <1>2, <1>a, <1>c, Delivered
    <2>2. QED
      BY <1>2, <1>a, <1>b, <1>c, <2>1, FlowKept
  <1>3. ASSUME cur \in Peers, p # cur \/ ~Up(p), UNCHANGED <<down, cur>>
        PROVE  Flow(p)'
    BY <1>3, <1>a, <1>b, <1>c, FlowKept
  <1>4. CASE Shake
    <2>1. /\ Queues(cur, Plain("welcome")) /\ cur \in Peers /\ UNCHANGED <<up, cur>>
      BY <1>4, <1>a DEF Shake
    <2>2. QED
      BY <1>2, <1>4, <2>1, FrameFacts, ShakeFlows
  <1>5. CASE HearText \/ HearMedia
    <2>1. PICK ops \in {{"text"}, Media} :
            /\ Takes(ops) /\ UNCHANGED <<down, cur>>
            /\ msg' = Next1 /\ spc' \in {"reply", "hangup"}
      BY <1>5 DEF HearText, HearMedia, Takes
    <2>2. cur \in Peers /\ Next1.op \in ops /\ ~Ends(Next1)
      BY <1>a, <2>1, Took DEF Takes
    <2>3. CASE spc' = "hangup"
      <3>1. ~Listening'
        BY <2>3 DEF Listening
      <3>2. QED
        BY <1>a, <1>b, <1>c, <2>1, <3>1, FlowKept
    <2>4. CASE spc' = "reply" /\ p = cur /\ Up(p)
      <3>1. heard' = Next1.op
        BY <1>5, <2>2 DEF HearText, HearMedia, Takes
      <3>2. ~Stops(Next1)
        BY <1>5, <2>2, <2>4 DEF HearText, HearMedia, Takes, Stops, NoMsg, Plain, Media
      <3>3. ops \subseteq {"text"} \cup Media
        BY <2>1
      <3>4. QED
        BY <1>a, <1>b, <1>c, <2>1, <2>4, <3>1, <3>2, <3>3, HearMessage
    <2>5. CASE p # cur \/ ~Up(p)
      BY <1>3, <2>1, <2>2, <2>5
    <2>6. QED
      BY <2>1, <2>3, <2>4, <2>5
  <1>6. CASE HearPing
    <2>1. /\ Takes({"ping"}) /\ UNCHANGED <<spc, msg, heard, cur>>
          /\ Deliver(cur, [op |-> "pong", body |-> Next1.body])
      BY <1>6 DEF HearPing, Takes
    <2>2. cur \in Peers /\ Next1 \in Frame /\ \A q \in Peers : q # cur => up'[q] = up[q]
      BY <1>a, <2>1, Took DEF Takes
    <2>3. PICK f \in Frame : ~IsEcho(f) /\ Queues(cur, f)
      BY <2>1, <2>2, FrameFacts, OutcomeFacts DEF Deliver
    <2>4. CASE p # cur \/ ~Up(p)
      BY <1>2, <2>1, <2>2, <2>3, <2>4
    <2>5. CASE p = cur /\ Up(p)
      <3>1. down'[p] = Append(down[p], f)
        BY <1>a, <2>1, <2>3, <2>5, Delivered DEF Up
      <3>2. QED
        BY <1>a, <1>b, <1>c, <2>1, <2>3, <2>5, <3>1, HearsPing
    <2>6. QED
      BY <2>4, <2>5
  <1>7. CASE HearChat
    <2>1. /\ UNCHANGED <<up, down, spc, msg, heard, cur>> /\ (Listening' <=> Listening)
      BY <1>7 DEF HearChat, server, Listening
    <2>2. QED
      BY <1>a, <1>b, <1>c, <2>1, FlowKept
  <1>8. CASE Reply
    <2>1. Deliver(cur, Echo(msg, heard)) /\ cur \in Peers /\ UNCHANGED <<up, cur>>
      BY <1>8, <1>a DEF Reply
    <2>2. PICK f \in Frame : Queues(cur, f)
      BY <1>a, <2>1, FrameFacts, OutcomeFacts DEF FrameTypes, Deliver
    <2>3. QED
      BY <1>2, <1>8, <1>a, <1>c, <2>1, <2>2, EchoesOne
  <1>9. CASE Hangup
    <2>1. /\ Deliver(cur, Plain("close")) /\ cur \in Peers /\ UNCHANGED cur
          /\ up' = [up EXCEPT ![cur] = <<>>]
      BY <1>9, <1>a DEF Hangup
    <2>2. \A q \in Peers : q # cur => up'[q] = up[q]
      BY <1>a, <2>1 DEF FrameTypes
    <2>3. PICK f \in Frame : Queues(cur, f)
      BY <2>1, FrameFacts, OutcomeFacts DEF Deliver
    <2>4. QED
      BY <1>2, <1>9, <1>a, <2>1, <2>2, <2>3, HangupFlows
  <1>10. QED
    BY <1>1, <1>4, <1>5, <1>6, <1>7, <1>8, <1>9 DEF Server

\* The peer takes the first frame on its way, and hears it if it is an echo.
LEMMA WritesTail ==
  ASSUME NEW p \in Peers, FrameTypes, Up(p), Writes(p), down[p] # <<>>,
         down'[p] = Tail(down[p]), sent'[p] = sent[p], up'[p] = up[p],
         UNCHANGED <<spc, cur>>,
         Len(got'[p]) = Len(got[p]) + IF IsEcho(down[p][1]) THEN 1 ELSE 0
  PROVE  Writes(p)'
  <1>1. /\ down[p] \in Seq(Frame) /\ Len(down[p]) \in Nat \ {0}
        /\ Len(got[p]) \in Nat
    BY SeqFacts, LenProperties DEF FrameTypes
  <1>2. PICK n \in [0 .. Len(down[p]) -> Nat] :
          /\ Counts(p, down[p], Len(got[p]), n)
          /\ Listening /\ cur = p => n[Len(down[p])] + Pending = Read(p)
    BY DEF Writes
  <1>3. PICK m \in [0 .. Len(Tail(down[p])) -> Nat] :
          /\ Counts(p, Tail(down[p]), n[1], m)
          /\ m[Len(Tail(down[p]))] = n[Len(down[p])]
    BY <1>1, <1>2, CountsTail
  <1>4. n[1] = Len(got'[p])
    <2>1. /\ n[0] = Len(got[p]) /\ 1 \in 1 .. Len(down[p]) /\ 1 - 1 = 0
          /\ \A j \in 1 .. Len(down[p]) :
               /\ IsEcho(down[p][j]) => n[j] = n[j - 1] + 1
               /\ ~IsEcho(down[p][j]) => n[j] = n[j - 1]
      BY <1>1, <1>2 DEF Counts
    <2>2. /\ IsEcho(down[p][1]) => n[1] = n[0] + 1
          /\ ~IsEcho(down[p][1]) => n[1] = n[0]
      BY <2>1
    <2>3. CASE IsEcho(down[p][1])
      BY <1>1, <2>1, <2>2, <2>3
    <2>4. CASE ~IsEcho(down[p][1])
      BY <1>1, <2>1, <2>2, <2>4
    <2>5. QED
      BY <2>3, <2>4
  <1>5. Counts(p, down[p], Len(got[p]), m)'
    <2>1. PICK d, first : d = Tail(down[p]) /\ first = n[1]
      OBVIOUS
    <2>2. Counts(p, d, first, m)'
      BY <1>3, <2>1, CountsStay
    <2>3. d = down'[p] /\ first = Len(got'[p])
      BY <1>4, <2>1
    <2>4. QED
      BY <2>2, <2>3 DEF Counts
  <1>6. Listening' /\ cur' = p => m[Len(down'[p])] + Pending' = Read(p)'
    BY <1>2, <1>3 DEF Listening, Pending, Read, Messages, Taken
  <1>7. QED
    BY <1>3, <1>5, <1>6 DEF Writes

\* The server neither reads nor writes meanwhile.
LEMMA ReadsSame ==
  ASSUME NEW p \in Peers, Up(p), Reads(p), sent'[p] = sent[p], up'[p] = up[p],
         UNCHANGED <<spc, cur, msg, heard>>
  PROVE  Reads(p)'
  BY DEF Reads, Taken, Listening, Messages

LEMMA WiredFlows ==
  ASSUME NEW p \in Peers, Arrivals, Flow(p), Wired(p)
  PROVE  Flow(p)'
  <1>1. /\ peer[p] = "wiring" /\ down[p] # <<>> /\ down'[p] = Tail(down[p]) /\ Up(p)
        /\ UNCHANGED <<spc, cur, msg, heard, up, sent, got>>
    BY DEF Wired, server, Arrivals, FrameTypes, Up
  <1>2. FrameTypes /\ ~IsEcho(down[p][1]) /\ Len(got[p]) \in Nat
    BY <1>1, LenProperties DEF Arrivals, Welcomed, IsEcho, FrameTypes
  <1>3. Len(got'[p]) = Len(got[p]) + IF IsEcho(down[p][1]) THEN 1 ELSE 0
    BY <1>1, <1>2
  <1>4. QED
    BY <1>1, <1>2, <1>3, WritesTail, ReadsSame, HeardKept DEF Flow

LEMMA PeerHearsFlows ==
  ASSUME NEW p \in Peers, Sessions, Arrivals, Flow(p), PeerHears(p)
  PROVE  Flow(p)'
  <1>1. /\ peer[p] = "open" /\ down[p] # <<>> /\ down'[p] = Tail(down[p]) /\ Up(p)
        /\ UNCHANGED <<spc, cur, msg, heard, up, sent>>
    BY DEF PeerHears, server, Arrivals, FrameTypes, Up
  <1>2. FrameTypes /\ Welcomed(p)
    BY DEF Arrivals
  <1>3. PICK f : f = Head(down[p])
    OBVIOUS
  <1>4. f \in Frame /\ f = down[p][1] /\ Len(down[p]) \in Nat \ {0} /\ f.op # "welcome"
    <2>1. f \in Frame /\ f = down[p][1] /\ Len(down[p]) \in Nat \ {0}
      BY <1>1, <1>2, <1>3, SeqFacts DEF FrameTypes
    <2>2. QED
      BY <1>1, <1>2, <2>1 DEF Welcomed
  <1>5. Len(got[p]) \in Nat /\ got \in [Peers -> Seq(Frame)] /\ got[p] \in Seq(Frame)
    BY <1>2, LenProperties DEF FrameTypes
  <1>6. CASE f.body = "cut" \/ (Ends(f) /\ f.body # "lost")
    <2>1. UNCHANGED got /\ \E a \in {"told", "torn"} : peer' = [peer EXCEPT ![p] = a]
      BY <1>3, <1>6 DEF PeerHears
    <2>2. ~Up(p)'
      BY <2>1 DEF Up, Sessions, Types
    <2>3. QED
      BY <1>1, <1>2, <2>1, <2>2, FlowKept
  <1>9. CASE Ends(f) /\ f.body = "lost"
    <2>1. UNCHANGED <<peer, got>> /\ ~IsEcho(f)
      BY <1>3, <1>9 DEF PeerHears, Ends, IsEcho
    <2>2. Len(got'[p]) = Len(got[p]) + IF IsEcho(down[p][1]) THEN 1 ELSE 0
      BY <1>4, <1>5, <2>1
    <2>3. QED
      BY <1>1, <1>2, <2>1, <2>2, WritesTail, ReadsSame, HeardKept DEF Flow
  <1>7. CASE ~Ends(f) /\ f.body # "cut"
    <2>1. got' = [got EXCEPT ![p] = IF f.op = "pong" THEN @ ELSE Append(@, f)]
      BY <1>3, <1>7 DEF PeerHears
    <2>2. CASE f.op = "pong"
      <3>1. got'[p] = got[p] /\ ~IsEcho(f)
        BY <1>5, <2>1, <2>2 DEF IsEcho
      <3>2. Len(got'[p]) = Len(got[p]) + IF IsEcho(down[p][1]) THEN 1 ELSE 0
        BY <1>4, <1>5, <3>1
      <3>3. QED
        BY <1>1, <1>2, <3>1, <3>2, WritesTail, ReadsSame, HeardKept DEF Flow
    <2>3. CASE f.op # "pong"
      <3>1. IsEcho(f)
        BY <1>4, <1>7, <2>3 DEF IsEcho, Ends
      <3>2. got'[p] = Append(got[p], f)
        BY <1>5, <2>1, <2>3
      <3>3. /\ Len(got'[p]) = Len(got[p]) + 1 /\ got'[p][Len(got[p]) + 1] = f
            /\ \A i \in 1 .. Len(got[p]) : got'[p][i] = got[p][i]
        <4>1. PICK g : g = Append(got[p], f)
          OBVIOUS
        <4>2. /\ Len(g) = Len(got[p]) + 1 /\ g[Len(got[p]) + 1] = f
              /\ \A i \in 1 .. Len(got[p]) : g[i] = got[p][i]
          BY <1>4, <1>5, <4>1, AppendFacts
        <4>3. QED
          BY <3>2, <4>1, <4>2
      <3>4. Writes(p)' /\ Reads(p)'
        BY <1>1, <1>2, <1>4, <3>1, <3>3, WritesTail, ReadsSame DEF Flow
      <3>5. Returns(p, Len(got[p]) + 1, f)
        <4>1. PICK n \in [0 .. Len(down[p]) -> Nat] : Counts(p, down[p], Len(got[p]), n)
          BY <1>1 DEF Flow, Writes
        <4>2. /\ n[0] = Len(got[p]) /\ 1 \in 1 .. Len(down[p]) /\ 1 - 1 = 0
              /\ \A j \in 1 .. Len(down[p]) :
                   IsEcho(down[p][j]) => n[j] = n[j - 1] + 1 /\ Returns(p, n[j], down[p][j])
          BY <1>4, <4>1 DEF Counts
        <4>3. QED
          BY <1>4, <3>1, <4>2
      <3>6. ASSUME NEW k \in 1 .. Len(got'[p]), got'[p][k] # Garbled
            PROVE  Returns(p, k, got[p][k])'
        <4>1. PICK g : g = got'[p][k]
          OBVIOUS
        <4>2. Returns(p, k, g)
          <5>1. k \in 1 .. Len(got[p]) \/ k = Len(got[p]) + 1
            BY <1>5, <3>3
          <5>2. QED
            BY <3>3, <3>5, <3>6, <4>1, <5>1 DEF Flow, Heard
        <4>3. Returns(p, k, g)'
          BY <1>1, <1>2, <4>2, ReturnsStay
        <4>4. QED
          BY <4>1, <4>3
      <3>7. Heard(p)'
        BY <3>6 DEF Heard
      <3>8. QED
        BY <3>4, <3>7 DEF Flow
    <2>4. QED
      BY <2>2, <2>3
  <1>8. QED
    BY <1>6, <1>7, <1>9

\* Who has lost the place hears what nobody sent.
LEMMA PeerMishearsFlows ==
  ASSUME NEW p \in Peers, Sessions, Arrivals, Flow(p), PeerMishears(p)
  PROVE  Flow(p)'
  <1>1. FrameTypes /\ got[p] \in Seq(Frame) /\ Len(got[p]) \in Nat
    BY LenProperties DEF Arrivals, FrameTypes
  <1>2. /\ ~Up(p)' /\ sent'[p] = sent[p]
        /\ got'[p] = got[p] \/ got'[p] = Append(got[p], Garbled)
    BY <1>1 DEF PeerMishears, Up, Sessions, Types, FrameTypes
  <1>3. CASE got'[p] = got[p]
    BY <1>1, <1>2, <1>3, FlowKept
  <1>4. CASE got'[p] = Append(got[p], Garbled)
    <2>1. PICK g : g = Append(got[p], Garbled)
      OBVIOUS
    <2>2. /\ Len(g) = Len(got[p]) + 1 /\ g[Len(got[p]) + 1] = Garbled
          /\ \A i \in 1 .. Len(got[p]) : g[i] = got[p][i]
      BY <1>1, <2>1, FrameFacts, AppendFacts
    <2>3. ASSUME NEW k \in 1 .. Len(got'[p]), got'[p][k] # Garbled
          PROVE  Returns(p, k, got[p][k])'
      <3>1. PICK f : f = got'[p][k]
        OBVIOUS
      <3>2. k \in 1 .. Len(got[p]) /\ f = got[p][k]
        BY <1>1, <1>4, <2>1, <2>2, <2>3, <3>1
      <3>3. Returns(p, k, f)
        BY <2>3, <3>1, <3>2 DEF Flow, Heard
      <3>4. Returns(p, k, f)'
        BY <1>1, <1>2, <3>3, ReturnsStay
      <3>5. QED
        BY <3>1, <3>4
    <2>4. Heard(p)'
      BY <2>3 DEF Heard
    <2>5. QED
      BY <1>2, <2>4 DEF Flow, Reads, Writes
  <1>5. QED
    BY <1>2, <1>3, <1>4

\* What is said more is read later.
LEMMA SayReads ==
  ASSUME NEW p \in Peers, NEW f \in Frame, FrameTypes, Up(p), Listening, cur = p, Reads(p),
         up'[p] = Append(up[p], f), sent'[p] = Append(sent[p], f),
         UNCHANGED <<spc, cur, msg, heard>>
  PROVE  /\ Reads(p)' /\ Taken(p)' = Taken(p)
         /\ Messages(p)' \cap 1 .. Taken(p) = Messages(p) \cap 1 .. Taken(p)
  <1>1. PICK a, b : a = Len(sent[p]) /\ b = Len(up[p])
    OBVIOUS
  <1>2. /\ a \in Nat /\ Len(sent'[p]) = a + 1 /\ sent'[p][a + 1] = f
        /\ \A i \in 1 .. a : sent'[p][i] = sent[p][i]
    <2>1. sent[p] \in Seq(Frame)
      BY DEF FrameTypes
    <2>2. PICK s : s = Append(sent[p], f)
      OBVIOUS
    <2>3. /\ a \in Nat /\ Len(s) = a + 1 /\ s[a + 1] = f
          /\ \A i \in 1 .. a : s[i] = sent[p][i]
      BY <1>1, <2>1, <2>2, AppendFacts
    <2>4. QED
      BY <2>2, <2>3
  <1>3. /\ b \in Nat /\ Len(up'[p]) = b + 1 /\ up'[p][b + 1] = f
        /\ \A i \in 1 .. b : up'[p][i] = up[p][i]
    <2>1. up[p] \in Seq(Frame)
      BY DEF FrameTypes
    <2>2. PICK s : s = Append(up[p], f)
      OBVIOUS
    <2>3. /\ b \in Nat /\ Len(s) = b + 1 /\ s[b + 1] = f
          /\ \A i \in 1 .. b : s[i] = up[p][i]
      BY <1>1, <2>1, <2>2, AppendFacts
    <2>4. QED
      BY <2>2, <2>3
  <1>4. Taken(p) = a - b /\ Taken(p)' = (a + 1) - (b + 1)
    BY <1>1, <1>2, <1>3 DEF Taken
  <1>5. PICK t : t = Taken(p)
    OBVIOUS
  <1>6. /\ b <= a /\ \A i \in 1 .. b : up[p][i] = sent[p][t + i]
        /\ \A i \in 1 .. t : ~Stops(sent[p][i])
        /\ spc = "reply" => t \in Messages(p) /\ msg = sent[p][t] /\ heard = msg.op
    BY <1>1, <1>5 DEF Reads
  <1>7. t \in Nat /\ t = a - b /\ t <= a /\ Taken(p)' = t
    BY <1>2, <1>3, <1>4, <1>5, <1>6
  <1>8. \A i \in 1 .. t : i \in Messages(p)' <=> i \in Messages(p)
    BY <1>1, <1>2, <1>7 DEF Messages
  <1>9. ASSUME NEW i \in 1 .. b + 1 PROVE up'[p][i] = sent'[p][t + i]
    <2>1. CASE i \in 1 .. b
      <3>1. t + i \in 1 .. a
        BY <1>2, <1>3, <1>6, <1>7, <2>1
      <3>2. QED
        BY <1>2, <1>3, <1>6, <2>1, <3>1
    <2>2. CASE i = b + 1
      <3>1. t + i = a + 1
        BY <1>2, <1>3, <1>7, <2>2
      <3>2. QED
        BY <1>2, <1>3, <2>2, <3>1
    <2>3. i \in 1 .. b \/ i = b + 1
      BY <1>3
    <2>4. QED
      BY <2>1, <2>2, <2>3
  <1>10. b + 1 <= a + 1 /\ \A i \in 1 .. t : ~Stops(sent'[p][i])
    BY <1>2, <1>3, <1>6, <1>7
  <1>11. spc = "reply" => t \in Messages(p)' /\ msg = sent'[p][t] /\ heard = msg.op
    BY <1>2, <1>6, <1>7, <1>8 DEF Messages
  <1>12. Reads(p)'
    BY <1>2, <1>3, <1>7, <1>9, <1>10, <1>11 DEF Reads
  <1>13. QED
    BY <1>5, <1>7, <1>8, <1>12

LEMMA SayFlows ==
  ASSUME NEW p \in Peers, FrameTypes, Flow(p), NEW f \in Says[p], Say(p, f)
  PROVE  Flow(p)'
  <1>1. /\ UNCHANGED <<spc, cur, msg, heard, peer, down, got>> /\ f \in Frame
        /\ up'[p] = Append(up[p], f) /\ sent'[p] = Append(sent[p], f)
        /\ Up(p)' <=> Up(p)
    BY SaysAssumption DEF Say, server, Up, FrameTypes, Whole
  <1>2. Heard(p)'
    BY <1>1, HeardKept DEF Flow
  <1> SUFFICES ASSUME Up(p) PROVE Flow(p)'
    BY <1>1, <1>2 DEF Flow, Reads, Writes
  <1>3. PICK n \in [0 .. Len(down[p]) -> Nat] :
          /\ Counts(p, down[p], Len(got[p]), n)
          /\ Listening /\ cur = p => n[Len(down[p])] + Pending = Read(p)
    BY <1>1 DEF Flow, Writes
  <1>4. Counts(p, down[p], Len(got[p]), n)'
    <2>1. PICK d, first : d = down[p] /\ first = Len(got[p])
      OBVIOUS
    <2>2. Counts(p, d, first, n)'
      BY <1>1, <1>3, <2>1, CountsStay
    <2>3. d = down'[p] /\ first = Len(got'[p])
      BY <1>1, <2>1
    <2>4. QED
      BY <2>2, <2>3 DEF Counts
  <1>5. CASE Listening /\ cur = p
    <2>1. /\ Reads(p)' /\ Taken(p)' = Taken(p)
          /\ Messages(p)' \cap 1 .. Taken(p) = Messages(p) \cap 1 .. Taken(p)
      BY <1>1, <1>5, SayReads DEF Flow
    <2>2. Read(p)' = Read(p) /\ Pending' = Pending
      BY <1>1, <2>1 DEF Read, Pending
    <2>3. Writes(p)'
      BY <1>1, <1>3, <1>4, <1>5, <2>2 DEF Writes
    <2>4. QED
      BY <1>2, <2>1, <2>3 DEF Flow
  <1>6. CASE ~(Listening /\ cur = p)
    <2>1. ~(Listening' /\ cur' = p)
      BY <1>1, <1>6 DEF Listening
    <2>2. Writes(p)' /\ Reads(p)'
      BY <1>1, <1>3, <1>4, <2>1 DEF Writes, Reads
    <2>3. QED
      BY <1>2, <2>2 DEF Flow
  <1>7. QED
    BY <1>5, <1>6

\* Nothing is on its way before a connection.
LEMMA QuietFlows ==
  ASSUME NEW p \in Peers, sent[p] = <<>>, got[p] = <<>>, up[p] = <<>>, down[p] = <<>>,
         ~(Listening /\ cur = p)
  PROVE  Flow(p)
  <1>1. Len(got[p]) = 0 /\ Len(down[p]) = 0
    BY EmptySeq
  <1>2. PICK n : n = [j \in 0 .. 0 |-> 0]
    OBVIOUS
  <1>3. n \in [0 .. Len(down[p]) -> Nat] /\ Counts(p, down[p], Len(got[p]), n)
    BY <1>1, <1>2 DEF Counts
  <1>4. QED
    BY <1>1, <1>3 DEF Flow, Reads, Writes, Heard

LEMMA ConnectFlows ==
  ASSUME NEW p \in Peers, Sessions, Arrivals, Connect(p)
  PROVE  Flow(p)'
  <1>1. /\ peer[p] = "new" /\ UNCHANGED <<spc, cur, up, down, sent, got>>
    BY DEF Connect, server
  <1>2. srv[p] = "none" /\ ~(Listening /\ cur = p)
    BY <1>1 DEF Sessions, Strangers, Listening
  <1>3. sent[p] = <<>> /\ got[p] = <<>> /\ up[p] = <<>> /\ down[p] = <<>>
    BY <1>2 DEF Arrivals, Welcomed
  <1>4. Len(got'[p]) = 0 /\ Len(down'[p]) = 0 /\ ~(Listening' /\ cur' = p)
    BY <1>1, <1>2, <1>3, EmptySeq DEF Listening
  <1>5. PICK n : n = [j \in 0 .. 0 |-> 0]
    OBVIOUS
  <1>6. n \in [0 .. Len(down'[p]) -> Nat] /\ Counts(p, down[p], Len(got[p]), n)'
    BY <1>4, <1>5 DEF Counts
  <1>7. QED
    BY <1>4, <1>6 DEF Flow, Reads, Writes, Heard

LEMMA PeersFlow ==
  ASSUME Sessions, Arrivals, NEW p \in Peers, NEW q \in Peers, Flow(p),
         \/ Connect(q) \/ Wired(q) \/ Chat(q) \/ PeerHears(q) \/ PeerMishears(q)
         \/ Leave(q) \/ \E f \in Says[q] : Say(q, f)
  PROVE  Flow(p)'
  <1>1. FrameTypes /\ peer \in [Peers -> Standings]
    BY DEF Sessions, Types, Arrivals
  <1>2. UNCHANGED <<spc, cur, msg, heard>>
    BY DEF Connect, Wired, Chat, PeerHears, PeerMishears, Leave, Say, server
  <1>3. CASE p # q
    <2>1. /\ down'[p] = down[p] /\ up'[p] = up[p] /\ sent'[p] = sent[p] /\ got'[p] = got[p]
          /\ peer'[p] = peer[p]
      BY <1>1, <1>3
      DEF Connect, Wired, Chat, PeerHears, PeerMishears, Leave, Say, FrameTypes
    <2>2. (Up(p)' <=> Up(p)) /\ (Listening' <=> Listening)
      BY <1>2, <2>1 DEF Up, Listening
    <2>3. QED
      BY <1>1, <1>2, <2>1, <2>2, FlowKept
  <1>4. CASE p = q /\ Leave(q)
    <2>1. ~Up(p)' /\ UNCHANGED <<sent, got>>
      BY <1>1, <1>4 DEF Leave, Up
    <2>2. QED
      BY <1>1, <2>1, FlowKept
  <1>5. CASE p = q /\ Chat(q)
    <2>1. UNCHANGED <<peer, up, down, sent, got>>
      BY <1>5 DEF Chat
    <2>2. (Up(p)' <=> Up(p)) /\ (Listening' <=> Listening)
      BY <1>2, <2>1 DEF Up, Listening
    <2>3. QED
      BY <1>1, <1>2, <2>1, <2>2, FlowKept
  <1>6. CASE p = q /\ ~Leave(q) /\ ~Chat(q)
    BY <1>1, <1>6, ConnectFlows, WiredFlows, PeerHearsFlows, PeerMishearsFlows, SayFlows
  <1>7. QED
    BY <1>3, <1>4, <1>5, <1>6

LEMMA InitConversations == Init => Conversations
  <1> SUFFICES ASSUME Init PROVE Conversations
    OBVIOUS
  <1>1. \A p \in Peers : /\ sent[p] = <<>> /\ got[p] = <<>> /\ up[p] = <<>> /\ down[p] = <<>>
                         /\ peer[p] = "new" /\ srv[p] = "none"
    BY DEF Init
  <1>2. spc = "hail" /\ Len(backlog) = 0
    BY EmptySeq DEF Init
  <1>3. FrameTypes
    BY FrameFacts, EmptySeq DEF Init, FrameTypes
  <1>4. Queue
    BY <1>2 DEF Queue
  <1>5. \A p \in Peers : Welcomed(p)
    <2>1. \A p \in Peers : Len(down[p]) = 0
      BY <1>1, EmptySeq
    <2>2. QED
      BY <1>1, <2>1 DEF Welcomed
  <1>6. \A p \in Peers : Flow(p)
    BY <1>1, <1>2, QuietFlows DEF Listening
  <1>7. QED
    BY <1>3, <1>4, <1>5, <1>6, InitSessions DEF Conversations, Arrivals

LEMMA NextConversations == Conversations /\ [Next]_vars => Conversations'
  <1> SUFFICES ASSUME Conversations, [Next]_vars PROVE Conversations'
    OBVIOUS
  <1>1. Sessions /\ Arrivals /\ \A p \in Peers : Flow(p)
    BY DEF Conversations
  <1>2. Sessions' /\ Arrivals'
    BY <1>1, NextSessions, NextArrivals
  <1>3. ASSUME NEW p \in Peers PROVE Flow(p)'
    <2>1. CASE UNCHANGED vars
      <3>1. FrameTypes /\ Flow(p) /\ (Up(p)' <=> Up(p)) /\ (Listening' <=> Listening)
        BY <1>1, <2>1 DEF Arrivals, vars, server, Up, Listening
      <3>2. UNCHANGED <<sent, got, down, up, spc, cur, msg, heard>>
        BY <2>1 DEF vars, server
      <3>3. QED
        BY <3>1, <3>2, FlowKept
    <2>2. CASE Next
      BY <1>1, <2>2, ServerFlows, PeersFlow DEF Next
    <2>3. QED
      BY <2>1, <2>2
  <1>4. QED
    BY <1>2, <1>3 DEF Conversations

(* A peer hears its own messages, of the kind it sent them, in its order,  *)
(* none twice and none of another session, however pings, hangups and      *)
(* timeouts fall between.  An echo is missing only when none of it could   *)
(* be sent, and the order holds up to the first frame that was cut.        *)
(* (buraaq_stream_run, heard)                                              *)
THEOREM EchoesInOrder == Spec => []EchoInOrder
  <1>1. Conversations => EchoInOrder
    BY DEF Conversations, Flow, Heard, EchoInOrder
  <1>2. QED
    BY InitConversations, NextConversations, <1>1, PTL DEF Spec
=============================================================================
