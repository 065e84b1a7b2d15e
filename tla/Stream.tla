------------------------------- MODULE Stream -------------------------------
(***************************************************************************)
(* std.stream, stdlib/runtime/buraaq_stream.c: one process runs            *)
(* buraaq_stream_run, which takes one peer at a time from the listening    *)
(* socket, echoes what it hears and hangs up; its peers are clients of the *)
(* same library, browsers, or sockets that never shake hands.              *)
(*                                                                         *)
(* What the server sends may stop at any byte: a send waits 10 s for room  *)
(* and then fails, and there may be no memory for the payload whose header *)
(* is out.  Nobody looks at the result, and the next frame follows.  What  *)
(* a peer sends is whole, or ends its connection.                          *)
(*                                                                         *)
(* A text longer than a frame may be is "over", and so is the echo of a    *)
(* clip or a shot that only just fits ("edge"), since the echo's header    *)
(* holds a longer file name.  A read that sees no byte for 10 s fails; how *)
(* long that is is left open.                                              *)
(*                                                                         *)
(* Nothing sets SIGPIPE aside.  A send to a peer that has closed is lost   *)
(* and answered by a reset, and a send after the reset kills the process.  *)
(***************************************************************************)
EXTENDS Integers, Sequences, FiniteSets

CONSTANTS
  Peers,       \* those that may connect
  NoPeer,      \* an unused stream slot
  MaxStreams,  \* BQ_STREAM_MAX
  Backlog,     \* the argument of listen
  Says,        \* the frames each peer may send
  MaxSent      \* bounds how many it sends

Media == {"clip", "shot"}
Bodies == {"empty", "fits", "edge", "over",
           "lost", "cut"}     \* what a send left of one: nothing, or a part
Frame == [op : {"text", "ping", "pong", "close", "welcome"} \cup Media,
          body : Bodies]

\* What a peer sends is no part of a frame.
Whole == {f \in Frame : f.body \notin {"lost", "cut"}}

ASSUME SaysAssumption == Says \in [Peers -> SUBSET Whole]
ASSUME PeersAssumption == NoPeer \notin Peers
ASSUME BoundsAssumption ==
  MaxStreams \in Nat \ {0} /\ Backlog \in Nat \ {0} /\ MaxSent \in Nat

VARIABLES
  backlog,     \* connections not accepted yet, oldest first
  spc,         \* where buraaq_stream_run is; "dead" after a SIGPIPE
  cur, id,     \* the connection and the stream id it is at
  msg, heard,  \* the frame hear returned, and g_heard
  table,       \* g_st: the connection in each slot
  srv,         \* each connection as the server holds it
  peer,        \* each connection as its peer holds it
  up, down,    \* the frames on their way to the server and to the peer
  chat,        \* more on its way to the server, which it will swallow
  rst,         \* a reset is on its way to the server, or there
  sent, got    \* history: what a peer sent in time, and what it heard

server == <<spc, cur, id, msg, heard, table>>
vars == <<backlog, server, srv, peer, up, down, chat, rst, sent, got>>

Slots == 0 .. MaxStreams - 1
Plain(op) == [op |-> op, body |-> "empty"]
NoMsg == Plain("text")       \* hear returned no text, or one of no length
Garbled == [op |-> "text", body |-> "cut"]     \* what nobody sent

Init ==
  /\ backlog = <<>>
  /\ spc = "hail" /\ cur = NoPeer /\ id = -1
  /\ msg = NoMsg /\ heard = ""
  /\ table = [i \in Slots |-> NoPeer]
  /\ srv = [p \in Peers |-> "none"] /\ peer = [p \in Peers |-> "new"]
  /\ up = [p \in Peers |-> <<>>] /\ down = [p \in Peers |-> <<>>]
  /\ chat = [p \in Peers |-> FALSE] /\ rst = [p \in Peers |-> FALSE]
  /\ sent = [p \in Peers |-> <<>>] /\ got = [p \in Peers |-> <<>>]

-----------------------------------------------------------------------------
(* What the server writes *)

\* What comes of a frame: all of it, nothing, or a header and a part.
Outcomes(f) ==
  {f, [f EXCEPT !.body = "lost"]}
    \cup IF f.body \in {"fits", "edge"} THEN {[f EXCEPT !.body = "cut"]} ELSE {}

\* send_all to a peer: on its way, or lost and answered by a reset.
Queues(p, f) ==
  IF peer[p] = "gone"
  THEN rst' = [rst EXCEPT ![p] = TRUE] /\ UNCHANGED down
  ELSE down' = [down EXCEPT ![p] = Append(@, f)] /\ UNCHANGED rst

\* send_frame, and send_media with the file it reads: how it ends, nobody asks.
Deliver(p, f) == \E g \in Outcomes(f) : Queues(p, g)

\* A frame that takes so many calls of send may meet the reset.
MayBreak(p, sends) == peer[p] = "gone" /\ (rst[p] \/ sends > 1)

\* The server's process ends, and the kernel closes its sockets.
Killed ==
  /\ \/ spc = "reply" /\ MayBreak(cur, 2)
     \/ spc = "hangup" /\ MayBreak(cur, 1)
     \/ /\ spc = "hear" /\ up[cur] # <<>> /\ Head(up[cur]).op = "ping"
        /\ MayBreak(cur, IF Head(up[cur]).body = "empty" THEN 1 ELSE 2)
  /\ spc' = "dead"
  /\ backlog' = <<>>
  /\ srv' = [p \in Peers |-> IF srv[p] = "none" THEN "none" ELSE "closed"]
  /\ UNCHANGED <<cur, id, msg, heard, table, peer, up, down, chat, rst, sent, got>>

-----------------------------------------------------------------------------
(* buraaq_stream_hail *)

Accept ==
  /\ spc = "hail" /\ backlog # <<>>
  /\ cur' = Head(backlog) /\ backlog' = Tail(backlog)
  /\ spc' = "shake"
  /\ UNCHANGED <<id, msg, heard, table, srv, peer, up, down, chat, rst, sent, got>>

Unused == {i \in Slots : table[i] = NoPeer}

\* The peer has sent a key: handshake_server answers, and stream_slot takes a
\* free slot.
Shake ==
  /\ spc = "shake"
  /\ Queues(cur, Plain("welcome"))
  /\ IF Unused # {}
     THEN LET i == CHOOSE k \in Unused : \A l \in Unused : k <= l IN
          /\ id' = i /\ table' = [table EXCEPT ![i] = cur]
          /\ srv' = [srv EXCEPT ![cur] = "held"] /\ spc' = "hear"
     ELSE /\ srv' = [srv EXCEPT ![cur] = "closed"] /\ spc' = "hail"
          /\ UNCHANGED <<id, table>>
  /\ UNCHANGED <<backlog, cur, msg, heard, peer, up, chat, sent, got>>

\* No key in the request, no request within 10 s or before the end, or an
\* answer that could not be sent.
ShakeFails ==
  /\ spc = "shake"
  /\ srv' = [srv EXCEPT ![cur] = "closed"] /\ spc' = "hail"
  /\ UNCHANGED <<backlog, cur, id, msg, heard, table, peer, up, down, chat, rst,
                 sent, got>>

-----------------------------------------------------------------------------
(* buraaq_stream_hear, in the loop of buraaq_stream_run *)

Next1 == Head(up[cur])

Ends(f) == f.op = "close" \/ f.body = "over"

Takes(ops) ==
  /\ spc = "hear" /\ up[cur] # <<>>
  /\ Next1.op \in ops /\ ~Ends(Next1)
  /\ up' = [up EXCEPT ![cur] = Tail(@)]
  /\ UNCHANGED <<backlog, cur, id, table, srv, peer, chat, sent, got>>

\* A text; an empty one ends the session like a close.
HearText ==
  /\ Takes({"text"})
  /\ heard' = "text" /\ msg' = Next1
  /\ spc' = IF Next1.body = "empty" THEN "hangup" ELSE "reply"
  /\ UNCHANGED <<down, rst>>

\* A clip or a shot whose kind is not remembered.
HearMediaQuietly ==
  /\ Takes(Media)
  /\ msg' = Next1
  /\ spc' = "reply" \/ spc' = "hangup"
  /\ UNCHANGED <<heard, down, rst>>

\* A clip or a shot is kept in a file, and hear returns its path; with no
\* room for the file it returns an empty text.
HearMedia ==
  /\ Takes(Media)
  /\ heard' = Next1.op /\ msg' = Next1
  /\ spc' = "reply" \/ spc' = "hangup"
  /\ UNCHANGED <<down, rst>>

HearPing ==
  /\ Takes({"ping"})
  /\ Deliver(cur, [op |-> "pong", body |-> Next1.body])
  /\ UNCHANGED <<spc, msg, heard>>

\* A pong, or a frame of no known kind.  Where it stands among the others is
\* the same to the server, which reads on.
HearChat ==
  /\ spc = "hear" /\ chat[cur]
  /\ chat' = [chat EXCEPT ![cur] = FALSE]
  /\ UNCHANGED <<backlog, server, srv, peer, up, down, rst, sent, got>>

\* A close frame, a frame too long to read, or no memory for it.
HearEnd ==
  /\ spc = "hear" /\ up[cur] # <<>>
  /\ up' = [up EXCEPT ![cur] = Tail(@)]
  /\ heard' = "" /\ spc' = "hangup"
  /\ UNCHANGED <<backlog, cur, id, msg, table, srv, peer, down, chat, rst, sent, got>>

\* A read that only the end of the connection ends.
HearForEver ==
  /\ spc = "hear" /\ up[cur] = <<>> /\ ~chat[cur] /\ peer[cur] = "gone"
  /\ heard' = "" /\ spc' = "hangup"
  /\ UNCHANGED <<backlog, cur, id, msg, table, srv, peer, up, down, chat, rst, sent,
                 got>>

\* Nothing within 10 s of the last byte, or the end of the connection.
HearNothing ==
  /\ spc = "hear" /\ up[cur] = <<>> /\ ~chat[cur]
  /\ heard' = "" /\ spc' = "hangup"
  /\ UNCHANGED <<backlog, cur, id, msg, table, srv, peer, up, down, chat, rst, sent,
                 got>>

\* The longer file name takes a packet at the limit over it.
Grown(body) == IF body = "edge" THEN "over" ELSE body

\* What buraaq_stream_run says, clips or shoots, by what heard tells it.
Echo(f, kind) ==
  IF kind \in Media THEN [op |-> kind, body |-> Grown(f.body)]
  ELSE [op |-> "text", body |-> f.body]

Reply ==
  /\ spc = "reply"
  /\ Deliver(cur, Echo(msg, heard))
  /\ spc' = "hear" /\ msg' = NoMsg
  /\ UNCHANGED <<backlog, cur, id, heard, table, srv, peer, up, chat, sent, got>>

\* A hangup that closes the socket and leaves the slot in use.
HangupKeepsSlot ==
  /\ spc = "hangup"
  /\ Deliver(cur, Plain("close"))
  /\ srv' = [srv EXCEPT ![cur] = "closed"]
  /\ up' = [up EXCEPT ![cur] = <<>>] /\ chat' = [chat EXCEPT ![cur] = FALSE]
  /\ msg' = NoMsg
  /\ spc' = "hail"
  /\ UNCHANGED <<backlog, cur, id, heard, table, peer, sent, got>>

Hangup ==
  /\ spc = "hangup"
  /\ Deliver(cur, Plain("close"))
  /\ srv' = [srv EXCEPT ![cur] = "closed"]
  /\ up' = [up EXCEPT ![cur] = <<>>] /\ chat' = [chat EXCEPT ![cur] = FALSE]
  /\ msg' = NoMsg
  /\ table' = [table EXCEPT ![id] = NoPeer]
  /\ spc' = "hail"
  /\ UNCHANGED <<backlog, cur, id, heard, peer, sent, got>>

Server ==
  \/ Accept \/ Shake \/ ShakeFails
  \/ HearText \/ HearMedia \/ HearPing \/ HearChat \/ HearEnd \/ HearNothing
  \/ Reply \/ Hangup \/ Killed

-----------------------------------------------------------------------------
(* The peers: buraaq_stream_wire, say, clip, shot, hear and hangup *)

Connect(p) ==
  /\ peer[p] = "new" /\ spc # "dead" /\ Len(backlog) < Backlog
  /\ peer' = [peer EXCEPT ![p] = "wiring"]
  /\ srv' = [srv EXCEPT ![p] = "queued"]
  /\ backlog' = Append(backlog, p)
  /\ UNCHANGED <<server, up, down, chat, rst, sent, got>>

Wired(p) ==
  /\ peer[p] = "wiring" /\ down[p] # <<>>
  /\ peer' = [peer EXCEPT ![p] = "open"]
  /\ down' = [down EXCEPT ![p] = Tail(@)]
  /\ UNCHANGED <<backlog, server, srv, up, chat, rst, sent, got>>

\* What is said to a server that has closed is lost, if it kills nobody.
Say(p, f) ==
  /\ peer[p] \in {"open", "torn"} /\ Len(sent[p]) < MaxSent
  /\ srv[p] = "held"
  /\ up' = [up EXCEPT ![p] = Append(@, f)]
  /\ sent' = [sent EXCEPT ![p] = Append(@, f)]
  /\ UNCHANGED <<backlog, server, srv, peer, down, chat, rst, got>>

\* What a peer may send as long and as often as it likes.
Chat(p) ==
  /\ peer[p] \in {"open", "torn"} /\ srv[p] = "held"
  /\ chat' = [chat EXCEPT ![p] = TRUE]
  /\ UNCHANGED <<backlog, server, srv, peer, up, down, rst, sent, got>>

(* hear skips a pong, and after an end the peer only leaves.  Of a lost    *)
(* frame it sees nothing; a cut one is filled up with the bytes of what    *)
(* follows it, and where the next one begins the peer cannot tell.         *)
PeerHears(p) ==
  /\ peer[p] = "open" /\ down[p] # <<>>
  /\ LET f == Head(down[p]) IN
     IF Ends(f) THEN /\ peer' = IF f.body = "lost" THEN peer ELSE [peer EXCEPT ![p] = "told"]
                     /\ UNCHANGED got
     ELSE IF f.body = "cut" THEN peer' = [peer EXCEPT ![p] = "torn"] /\ UNCHANGED got
     ELSE /\ got' = [got EXCEPT ![p] = IF f.op = "pong" THEN @ ELSE Append(@, f)]
          /\ UNCHANGED peer
  /\ down' = [down EXCEPT ![p] = Tail(@)]
  /\ UNCHANGED <<backlog, server, srv, up, chat, rst, sent>>

\* Frames read where none begins: anything, nothing, or an end.
PeerMishears(p) ==
  /\ peer[p] = "torn" /\ down[p] # <<>>
  /\ \/ got' = [got EXCEPT ![p] = Append(@, Garbled)] /\ UNCHANGED peer
     \/ peer' = [peer EXCEPT ![p] = "told"] /\ UNCHANGED got
     \/ UNCHANGED <<peer, got>>
  /\ down' = [down EXCEPT ![p] = Tail(@)]
  /\ UNCHANGED <<backlog, server, srv, up, chat, rst, sent>>

\* The peer closes, with a close frame or by ending, before or after it was
\* answered: wire, too, gives up after 10 s.  Data it left unread resets.
Leave(p) ==
  /\ peer[p] \in {"wiring", "open", "torn", "told"}
  /\ \/ peer[p] # "wiring" /\ srv[p] = "held"
          /\ up' = [up EXCEPT ![p] = Append(@, Plain("close"))]
     \/ UNCHANGED up
  /\ peer' = [peer EXCEPT ![p] = "gone"]
  /\ rst' = [rst EXCEPT ![p] = \E k \in 1 .. Len(down[p]) : down[p][k].body # "lost"]
  /\ down' = [down EXCEPT ![p] = <<>>]
  /\ UNCHANGED <<backlog, server, srv, chat, sent, got>>

Next ==
  \/ Server
  \/ \E p \in Peers :
       \/ Connect(p) \/ Wired(p) \/ Chat(p) \/ PeerHears(p) \/ PeerMishears(p) \/ Leave(p)
       \/ \E f \in Says[p] : Say(p, f)

(* The server's thread runs and its socket timeouts fire. *)
Spec == Init /\ [][Next]_vars /\ WF_vars(Server)

-----------------------------------------------------------------------------
(* Properties *)

\* What ends a session, and the messages a peer sent, by their places.
Stops(f) == Ends(f) \/ f = NoMsg
Messages(p) == {k \in 1 .. Len(sent[p]) : sent[p][k].op \in {"text"} \cup Media}

\* The frame is what comes back of the n-th message of the peer's session.
Returns(p, n, f) ==
  \E k \in Messages(p) :
    /\ Cardinality(Messages(p) \cap 1 .. k) = n
    /\ \A i \in 1 .. k : ~Stops(sent[p][i])
    /\ f \in Outcomes(Echo(sent[p][k], sent[p][k].op))

(* A peer hears its own messages, of the kind it sent them, in its order,  *)
(* none twice and none of another session, however pings, hangups and      *)
(* timeouts fall between.  An echo is missing only when none of it could   *)
(* be sent, and the order holds up to the first frame that was cut: what   *)
(* is heard from there on is garbled. (buraaq_stream_run, heard)           *)
EchoInOrder ==
  \A p \in Peers : \A n \in 1 .. Len(got[p]) :
    got[p][n] # Garbled => Returns(p, n, got[p][n])

(* A slot is in use exactly while its connection is held, and a session's  *)
(* id names its own connection: no session leaves a slot behind, so 32     *)
(* peers do not end the service, and none answers into another's socket.   *)
(* (stream_slot, buraaq_stream_hangup)                                     *)
SlotsMatch ==
  spc # "dead" =>
    /\ \A p \in Peers : (srv[p] = "held") <=> (\E i \in Slots : table[i] = p)
    /\ spc \in {"hear", "reply", "hangup"} => table[id] = cur

(* A peer that stays silent, sends junk or leaves holds the others up for  *)
(* a time only: whoever is in the backlog has its turn, unless the server  *)
(* was killed, or somebody never stops talking.  The 10 s begin anew with  *)
(* every byte, so one peer that sends pongs can hold the thread for ever.  *)
(* (set_timeout, buraaq_stream_hear)                                       *)
EveryPeerHasItsTurn ==
  <>[](\A p \in Peers : ~chat[p]) =>
    \A p \in Peers : srv[p] = "queued" ~> srv[p] = "closed"
=============================================================================
