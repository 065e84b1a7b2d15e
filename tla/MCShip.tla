------------------------------- MODULE MCShip -------------------------------
(* Commands side by side on one machine, and a dock with two clients.      *)
EXTENDS Ship, TLC

CONSTANTS c1, c2, r1, r2

Ask(method, path, sent) ==
  [method |-> method, path |-> path, keyed |-> TRUE, huge |-> FALSE, sent |-> sent]
NoAsks == [r \in Clients |-> {}]
Runs(one, two) == (c1 :> one) @@ (c2 :> two)

\* Two commands in one project directory, and no dock.
Local(one, two, posix, runnable) ==
  [posix |-> posix, pkg |-> TRUE, kind |-> Runs(one, two), runnable |-> runnable,
   dock |-> FALSE, once |-> FALSE, env |-> FALSE, carried |-> "variable", asks |-> NoAsks]

Asked ==
  (r1 :> {Ask("PUT", "app", s) : s \in {"all", "part", "head"}}
           \cup {[Ask("PUT", "app", "all") EXCEPT !.keyed = FALSE],
                 [Ask("PUT", "app", "part") EXCEPT !.huge = TRUE],
                 Ask("GET", "health", "nothing"), Ask("PUT", "bad name", "all")}) @@
  (r2 :> {Ask("DELETE", "app", "all"), Ask("GET", "app", "all"),
          Ask("GET", "apps", "all"), Ask("GET", "health", "head"),
          Ask("POST", "app", "all"), Ask("GET", "elsewhere", "all")})

\* The same, without what changes nothing.
AskedLess ==
  (r1 :> {Ask("PUT", "app", s) : s \in {"all", "part"}}) @@
  (r2 :> {Ask("DELETE", "app", "all"), Ask("GET", "health", "head")})

\* A dock beside a command that ships to it, or on its own.
Docked(one, posix, once, env, asks) ==
  [Local(one, "none", posix, FALSE) EXCEPT
     !.pkg = FALSE, !.dock = TRUE, !.once = once, !.env = env, !.asks = asks]

\* Two commands that share the archive and the unpacked files.
Crowded == {Local("local", "local", TRUE, TRUE)}
Commanded ==
  {Local("local", "launch", FALSE, TRUE), Local("pack", "local", TRUE, FALSE)} \cup Crowded

\* The dock's token file was copied to the machine that ships.
FileCopied == [Docked("host", FALSE, FALSE, FALSE, NoAsks) EXCEPT !.carried = "file"]

\* A dock and who connects to it.
Connected ==
  {Docked("host", FALSE, FALSE, FALSE, AskedLess), FileCopied,
   Docked("none", TRUE, FALSE, FALSE, Asked), Docked("none", TRUE, TRUE, TRUE, AskedLess)}

AllScenes == Commanded \cup Connected

\* Where two commands pack and launch, what their writes mix is enough.
Allowed == [s \in AllScenes |-> IF s \in Crowded THEN 0 ELSE 2]
=============================================================================
