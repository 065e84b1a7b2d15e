----------------------------- MODULE MCExecutor -----------------------------
(* Programs for the executor.  Tasks a, b, c and d stand for closures; a   *)
(* body is the sequence of runtime calls its code makes.                   *)
EXTENDS Executor

CONSTANTS a, b, c, d

Do(op) == [op |-> op, task |-> NoTask]
Go(t) == [op |-> "submit", task |-> t]
Await(t) == [op |-> "join", task |-> t]

Program(main, bodyA, bodyB) ==
  [t \in Tasks \cup {Main} |->
     CASE t = Main -> main [] t = a -> bodyA [] t = b -> bodyB [] OTHER -> <<>>]

\* Four tasks on two deques of one job each, one of them a parent; the pool
\* starts itself at the first submit.
ForkJoin ==
  Program(<<Go(a), Go(b), Go(c), Await(a), Await(b), Await(c), Do("shutdown")>>,
          <<Go(d), Await(d)>>, <<>>)

\* Start, stop and start again, with calls that find nothing to do.
Restart ==
  Program(<<Do("shutdown"), Do("init"), Do("init"), Go(a), Await(a),
            Do("shutdown"), Go(b), Go(c), Await(c), Await(b), Do("shutdown")>>,
          <<>>, <<>>)

Structured == {ForkJoin, Restart}
ASSUME StructuredAssumption == \A p \in Programs : JoinsItsOwn(p)

\* As many parents as workers, each joining a child of its own.
TwoParents ==
  {Program(<<Go(a), Go(b), Await(a), Await(b), Do("shutdown")>>,
           <<Go(c), Await(c)>>, <<Go(d), Await(d)>>)}
=============================================================================
