----------------------------- MODULE DataflowLoop -----------------------------
(***************************************************************************)
(* What a DSWP pipeline promises about the order in which the loop's work *)
(* is done: the abstract specification DSWPPipeline is checked against.   *)
(*                                                                         *)
(* Each instruction of the loop runs its iterations in increasing order,  *)
(* each at most once, and runs iteration k only once every instruction it *)
(* depends on (a value it uses, or a memory access it must follow) has run *)
(* the iteration it needs: the same iteration, or the one before for a     *)
(* dependence carried around the loop (lag 1).  Any interleaving of the   *)
(* instructions that keeps these orders computes what the sequential loop *)
(* computes; this is the freedom a decoupled pipeline exploits.            *)
(*                                                                         *)
(* graph is [insts |-> the instructions, deps |-> a set of records        *)
(* [from, to, lag]]; it is fixed by the loop and never changes.            *)
(***************************************************************************)
EXTENDS Naturals

CONSTANT MaxRuns  \* a bound on the iterations any instruction runs

VARIABLES
    graph,  \* the loop's instructions and dependences
    done    \* instruction -> last iteration it has run (0: none)

absVars == <<graph, done>>

\* The dependences instruction x has to wait for.
DepsOf(x) == {d \in graph.deps : d.to = x}

\* x runs iteration k: later than any iteration it has run, and after
\* every iteration of its producers that iteration k needs.
Run(x, k) ==
    /\ k > done[x]
    /\ \A d \in DepsOf(x) : done[d.from] >= k - d.lag
    /\ done' = [done EXCEPT ![x] = k]
    /\ UNCHANGED graph

AbsInit == done = [x \in graph.insts |-> 0]

AbsNext == \E x \in graph.insts, k \in 1..MaxRuns : Run(x, k)

AbsSpec == AbsInit /\ [][AbsNext]_absVars

=============================================================================
