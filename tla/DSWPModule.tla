------------------------------ MODULE DSWPModule ------------------------------
(***************************************************************************)
(* DSWP::runOnModule (src/passes/dswp/src/DSWP.cpp): the pass over a whole *)
(* module.  It looks up the runtime's helper functions, takes the loops    *)
(* the Parallelization framework finds (getModuleLoops, outside this       *)
(* repository), keeps the first loop of each function, and runs applyDSWP  *)
(* on each kept loop in turn.  applyDSWP is the DSWPPartition machine,     *)
(* restarted from Fresh on every loop; when it completes, the stages and   *)
(* the pipeline are synthesized (DSWPPipeline) and linked into the         *)
(* function, which rewrites it.                                            *)
(*                                                                         *)
(* A module is a record                                                    *)
(*   loops    the loops getModuleLoops returns, in its order, each a       *)
(*            record [fn |-> its function, l |-> the loop]                 *)
(*   runtime  whether the module declares the queue and stage helpers     *)
(* Every loop's dependence information is computed by getModuleLoops      *)
(* before the first applyDSWP.                                              *)
(***************************************************************************)
EXTENDS DSWPPartition

CONSTANT Modules

VARIABLES
    mod,            \* the module M the pass runs on
    mpc,            \* where runOnModule is
    toParallelize,  \* loopsToParallelize: indices into mod.loops
    next,           \* the position in toParallelize of the loop at hand
    modified,       \* runOnModule's modified
    rewritten,      \* history: functions a pipeline has been linked into
    outcome         \* history: what applyDSWP did with each kept loop

modVars == <<mod, mpc, toParallelize, next, modified, rewritten, outcome>>
allVars == <<vars, modVars>>

\* The function the kept loop at position k belongs to.
FnAt(k) == mod.loops[toParallelize[k]].fn

\* collectThreadPoolHelperFunctionsAndTypes always returns true: a module
\* without the helpers does not reach the "DSWP utils not included" return
\* but dereferences the null queuePush8 (or stageExecuter) and crashes.
LookupHelpers ==
    /\ mpc = "helpers"
    /\ mpc' = IF mod.runtime THEN "select" ELSE "crash"
    /\ UNCHANGED <<mod, toParallelize, next, modified, rewritten, outcome, vars>>

\* Fault variant: every loop the framework finds is kept.
AllLoops(ls) == [k \in 1..Len(ls) |-> k]

\* getLoopsToParallelize: a loop is kept only if no earlier loop of its
\* function was (functionsSeen); the others are deleted.
FirstLoopPerFunction(ls) ==
    SelectSeq(AllLoops(ls), LAMBDA k : \A j \in 1..(k - 1) : ls[j].fn # ls[k].fn)

SelectLoops ==
    /\ mpc = "select"
    /\ toParallelize' = FirstLoopPerFunction(mod.loops)
    /\ mpc' = "loops"
    /\ UNCHANGED <<mod, next, modified, rewritten, outcome, vars>>

\* applyDSWP's state on entry for the loop l (Fresh of DSWPPartition).
Restart(l) ==
    /\ loop' = l
    /\ pc' = "merge"
    /\ dag' = l.sccs
    /\ tails' = {} /\ found' = {} /\ toTraverse' = <<>>
    /\ stages' = <<>> /\ queues' = <<>> /\ pending' = {}
    /\ envProducers' = <<>>
    /\ envIdx' = [x \in l.inst \cup l.ext |-> 0]
    /\ preEnv' = {} /\ postEnv' = {}
    /\ prodConsumers' = [x \in l.inst |-> {}]
    /\ hasRet' = FALSE

\* The for loop of runOnModule calls applyDSWP on the next kept loop.
StartLoop ==
    /\ mpc = "loops" /\ next <= Len(toParallelize)
    /\ Restart(mod.loops[toParallelize[next]].l)
    /\ mpc' = "applying"
    /\ UNCHANGED <<mod, toParallelize, next, modified, rewritten, outcome>>

\* One step of applyDSWP up to collectStageAndQueueInfo.
ApplyStep ==
    /\ mpc = "applying"
    /\ PartitionNext
    /\ UNCHANGED modVars

\* Fault variant: modified = applyDSWP(...) in place of modified |=.
FinishLoopOverwrite ==
    /\ mpc = "applying" /\ pc \in {"done", "notWorth"}
    /\ modified' = (pc = "done")
    /\ rewritten' = IF pc = "done" THEN rewritten \cup {FnAt(next)} ELSE rewritten
    /\ outcome' = Append(outcome, pc)
    /\ next' = next + 1
    /\ mpc' = "loops"
    /\ UNCHANGED <<mod, toParallelize, vars>>

\* applyDSWP returns: false when the loop is not worth parallelizing, true
\* once the stages and the pipeline are built and linked into the function.
\* runOnModule accumulates modified |= and deletes the loop.
FinishLoop ==
    /\ mpc = "applying" /\ pc \in {"done", "notWorth"}
    /\ modified' = (modified \/ pc = "done")
    /\ rewritten' = IF pc = "done" THEN rewritten \cup {FnAt(next)} ELSE rewritten
    /\ outcome' = Append(outcome, pc)
    /\ next' = next + 1
    /\ mpc' = "loops"
    /\ UNCHANGED <<mod, toParallelize, vars>>

\* runOnModule returns modified once every kept loop has been tried.
ReturnModified ==
    /\ mpc = "loops" /\ next > Len(toParallelize)
    /\ mpc' = "returned"
    /\ UNCHANGED <<mod, toParallelize, next, modified, rewritten, outcome, vars>>

ModuleInit ==
    /\ mod \in Modules
    /\ loop = CHOOSE l \in Loops : TRUE
    /\ Fresh
    /\ mpc = "helpers"
    /\ toParallelize = <<>>
    /\ next = 1
    /\ modified = FALSE
    /\ rewritten = {}
    /\ outcome = <<>>

\* The pass has returned or crashed.
ModuleFinished ==
    /\ mpc \in {"returned", "crash"} \/ pc = "crash"
    /\ UNCHANGED allVars

ModuleNext ==
    \/ LookupHelpers
    \/ SelectLoops
    \/ StartLoop
    \/ ApplyStep
    \/ FinishLoop
    \/ ReturnModified
    \/ ModuleFinished

ModuleSpec == ModuleInit /\ [][ModuleNext]_allVars

-----------------------------------------------------------------------------
(* Properties *)

\* applyDSWP works from dependence information getModuleLoops computed for
\* the whole module up front: it is never run on a loop of a function into
\* which a pipeline has already been linked, when that information no
\* longer describes the function (getLoopsToParallelize keeps one loop per
\* function for this).
AnalysesFresh ==
    mpc = "applying" => FnAt(next) \notin rewritten

\* runOnModule reports the module modified exactly when applyDSWP
\* transformed at least one of the loops it tried, whatever the outcome of
\* the loops tried after it.
ReturnsModified ==
    mpc = "returned" =>
        /\ modified = (\E k \in 1..Len(outcome) : outcome[k] = "done")
        /\ rewritten = {FnAt(k) : k \in {j \in 1..Len(outcome) : outcome[j] = "done"}}

=============================================================================
