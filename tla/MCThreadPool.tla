---------------------------- MODULE MCThreadPool ----------------------------
(* Instances of ThreadPool for TLC: what clients and tasks do.             *)
EXTENDS ThreadPool, TLC

CONSTANTS f1, f2, c1, c2

NoSpawns == [f \in Futures |-> None]
Spawning == [f \in Futures |-> IF f = f1 THEN f2 ELSE None]
Program(spawns, one, two, collects) ==
  [spawns |-> spawns, calls |-> (c1 :> one) @@ (c2 :> two), collects |-> collects]

\* One client waits in some way, the other one makes and cancels futures.
Waiting ==
  {Program(NoSpawns, {call}, {"submit", "cancel"}, FALSE) : call \in {"as_completed"} \cup Modes}
\* Both wait for results.
Together == {Program(NoSpawns, {"result"}, {"submit", "result"}, FALSE)}
\* Callbacks are added, by a client or by both, while futures are cancelled or
\* a result is asked for.
CallingBack ==
  {Program(NoSpawns, {"callback", "result"}, {"submit", "cancel"}, FALSE),
   Program(NoSpawns, {"callback"}, {"submit", "callback"}, FALSE)}
\* The executor is shut down, or dropped, while clients or tasks submit.
Ending ==
  {Program(spawns, {"submit", "shutdown"}, {"submit", "cancel"}, collects) :
     spawns \in {NoSpawns, Spawning}, collects \in BOOLEAN}

AllPrograms == Waiting \cup Together \cup CallingBack \cup Ending
OnlySpawning == {Program(Spawning, {"submit"}, {"submit"}, FALSE)}
=============================================================================
