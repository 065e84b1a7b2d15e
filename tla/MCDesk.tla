------------------------------- MODULE MCDesk -------------------------------
(* One window or two on the file, or two on an API.                        *)
EXTENDS Desk, TLC

FileScenes ==
  {[bound |-> FALSE, windows |-> {d}, typed |-> texts] :
     d \in Desks, texts \in {{"plain", "brace"}, {"plain", "pair", "long"}}} \cup
  {[bound |-> FALSE, windows |-> Desks, typed |-> {"plain"}]}

BoundScenes ==
  {[bound |-> TRUE, windows |-> w, typed |-> {"plain"}] : w \in {Desks} \cup {{d} : d \in Desks}}

AllScenes == FileScenes \cup BoundScenes

\* Two windows on an API see one thing go wrong, the others two.
Allowed == [s \in AllScenes |-> IF s.bound /\ s.windows = Desks THEN 1 ELSE 2]

Windows == Permutations(Desks)
=============================================================================
