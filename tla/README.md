# TLA+ models of the DSWP and DGSimplify passes

This directory holds TLA+ models of two passes, checked with TLC:
- the DSWP (decoupled software pipelining) pass in
  `src/passes/dswp/src/DSWP.cpp`, and the pipeline it builds;
- the DGSimplify pass in `src/passes/dgsimplify/src/DGSimplify.cpp`: its
  call-graph depth order and its inlining mode, which reruns itself.

## The system

`applyDSWP` (DSWP.cpp:170) takes one loop and its program dependence graph
(PDG), collapsed into a DAG of strongly connected components (SCCs). The PDG
and the SCC DAG come from outside this repository. It then works in phases:

1. **SCC merging** (`mergeSCCs`, `mergeBranchesWithoutOutgoingEdges`,
   216-257). Every tail node is merged into a predecessor. A tail node has
   incoming edges, no outgoing edges, and holds only compares and terminators.
2. **Worthiness check** (`isWorthParallelizing`, 259). The pass gives up if
   one node is left.
3. **Stage assignment** (`collectSCCIntoStages`, 264-298). A BFS from the
   top-level nodes makes each dequeued node a stage with the next order.
4. **Queue allocation** (`registerQueue`, `collectValueQueueInfo`,
   300-383). There is one queue per (producer, destination stage). It serves
   the data sub-edges between stages, plus the producers of every block
   terminator's condition, sent to every other stage.
5. **Environment** (`collectEnvInfo`, `collectEnvInfoForReturns`,
   `configureDependencyStorage`, 385-463). The environment is an array of
   slots:
   - one per live-in;
   - one per live-out, reused through `producerIndexMap`;
   - an exit slot;
   - an optional slot for a return value.
6. **Stage synthesis** (`createPipelineStageFromSCC` and helpers, 475-804).
   Each stage is a function that clones its SCC and the terminator of every
   loop block. Synthesis places into it:
   - queue pops and pushes;
   - stores of live-outs into the environment;
   - stores of the exit index in the exit blocks;
   - the store of the return value in place of a `ret`.
7. **Assembly** (`createPipelineFromStages`, 806-963). The assembler:
   - fills the environment;
   - calls the external `stageDispatcher`, which runs all stages concurrently
     and joins them;
   - feeds the LCSSA phis from the post-loop slots;
   - switches on the exit slot, with a return block when the loop holds a
     `ret`.

Around these phases, `runOnModule` (56-94):
- looks up the runtime's queue and stage helpers
  (`collectThreadPoolHelperFunctionsAndTypes`, 152);
- takes the loops `getModuleLoops` finds and keeps only the first loop of
  each function (`getLoopsToParallelize`, 104);
- runs `applyDSWP` on each kept loop in turn, accumulating `modified`.

The pass itself is sequential. The concurrency is in the pipeline it
produces: one thread per stage, talking through blocking queues of
capacity 1 (spec.md section 5).

### DGSimplify

`runOnModule` (DGSimplify.cpp:23) builds two things:
- the call graph (`collectFnGraph`, 406), which records `parentFns` and
  `childrenFns` from the call records that are call instructions (line
  425 skips the others, such as invokes);
- a depth order of the functions (`collectInDepthOrderFns`, 447), a BFS from
  `main` that follows every call record, invokes included.

The BFS defers a function until all its parents are ordered. When the queue
runs dry, it flushes the deferred functions as "recursive chain entrances"
(`recursiveChainEntranceFns`).

In inlining mode, one run goes as follows:
1. It reads `<fnIndex, loopIndex>` lines from a file (`getLoopsToInline`,
   92), or takes every loop when the file is absent.
2. It visits those functions deepest first (`inlineCallsInMassiveSCCsOfLoops`,
   147). In each loop it inlines at most one call to a function no shallower
   (201). After an inline it updates the orders (`adjustOrdersAfterInline`,
   309).
3. It writes the remaining loops back as indices of its own depth order
   (`registerRemainingLoops`, 127).
4. While loops remain, it writes a continue file, which asks the driver to
   run the pass again.

## Modules

| Module | Models |
|---|---|
| `LoopPDG` | The input. A loop is a constant record with these fields: instructions, blocks, positions, data/memory/control PDG edges, bit widths, exits, rets, successors and SCCs. `WellFormedLoop` is the input contract (spec.md section 6), and an `ASSUME` enforces it. |
| `DSWPPartition` | Phases 1-5 as a state machine. `pc` names the phase. `dag`, `tails`, `found`, `toTraverse`, `stages`, `queues`, `envProducers`, `envIdx`, `preEnv`, `postEnv`, `prodConsumers` and `hasRet` are the fields of the same names in `LDI`, the stage records and the environment. Each action is one iteration of a loop of the code, and the set `pending` holds the elements that loop has not yet visited. Crashes, such as a nullptr dereference or an `assert`, are actions into `pc = "crash"`. |
| `DSWPPipeline` | Phases 6-7 plus the runtime. Each stage's program comes from the pass's state: per block clone, an ordered sequence of clone, pop, push and store operations (see below). `Launch` sets up the three arrays `createPipelineFromStages` passes to the dispatcher (`EnvArray`, `StageArray`, `QueueArray`). The stages then run as concurrent processes on queues of capacity `QueueCapacity`. Two history variables feed the properties only: `done` (the last iteration in which the clone of each non-terminator instruction ran) and `exitedBy` (the exit each stage thread left by). The auxiliary `dataflow` holds the loop's `DataflowGraph`, which is fixed with the loop. The assembler reads the environment after the join. `Sequential` is the reference: the original loop run sequentially (RECURSIVE `SeqWalk`). |
| `DataflowLoop` | The abstract specification of the pipeline. Each instruction runs its iterations in increasing order, and runs iteration k only after every instruction it depends on has run iteration k, or k - 1 for a dependence carried around the loop. `DSWPPipeline` implements it under the mapping `graph <- dataflow, done <- DoneMap`. |
| `DSWPModule` | `runOnModule` over a module: a module is the sequence of (function, loop) pairs `getModuleLoops` returns, plus whether the runtime helpers are present. `LookupHelpers`, `SelectLoops` (`FirstLoopPerFunction`), then per kept loop `StartLoop` (`Restart`, the partition's `Fresh` state for that loop), the partition's own steps (`ApplyStep`), and `FinishLoop` (stages built and linked, `modified \|=`). `rewritten` and `outcome` are history variables for the properties. |
| `MCDSWPModule` | The modules checked: each partition loop alone, a mixed module (two loops in `f`, the second filtered out; `h` transformed; `g`, tried last, not worth it), an empty module and one without the runtime. |
| `MCDSWP` | The loops checked, as variants of one counted loop with a second exit. |
| `MCDSWPPipeline` | The trip counts and break iterations for the pipeline runs. |
| `DGSimplifyOrder` | `collectFnGraph` and `collectInDepthOrderFns` as one state machine. A call graph gives each function its call records in program order, each a callee and a kind (`"call"` or `"invoke"`); `GraphSkip` is line 425's `continue` for a record that is not a call instruction, while `OrderCall` follows every record. A function reached only through an invoke therefore has no `parentFns` and is ordered as soon as it is reached, before its caller; the inliner's depth test (line 233) then refuses the caller's calls to it. `phase` is `"graph"` during the first BFS and `"order"` during the second. `queue`, `reached`, `parentFns`, `childrenFns`, `depthOrderedFns`, `deferred` and `recEntries` are the code's containers. `flushing`, `toFlush` and `remaining` step through the flush of deferred functions (489-506). |
| `MCDGSimplifyOrder` | Every call graph on `main` plus three functions, where `main` calls up to three of them and each of those calls up to two functions or holds a single invoke record. `ChainGraph` is the graph of the entrance finding. |
| `DGSimplifyDriver` | Repeated runs of the inlining mode. `body` gives each function a sequence of tokens in program order: a call, the opening of a loop (with a loop identity `lid`) or its end, so loops nest. `Summaries` is `collectPreOrderedLoopsFor`: the loops in preorder, each with its `id` and `lid`; `InLoop` is the set of calls in a summary's loop, nested loops included. `Inline` replaces the call by the callee's body, whose loops become new loops of the caller nested in the loop of the call. `adjustOrdersAfterInline` reads the call `InlineFunction` has erased: the model takes the outcome of the build (the callee read from the freed instruction at 310, a null parent block at 369, so `getSummaryFor` finds no loop and the callee's summaries are appended, unrenumbered, to `preOrderedLoops[F]`, which nothing reads again in that run). The depth order of each run is `DGSimplifyOrder`, instantiated as `O` on the current call records. `file` is the loops file; `ltcKeys` and `ltc` are `loopsToCheck`; `fnsToCheck`, `fnsToAvoid` and `fnsAffected` are the locals of the same names. `loaded`, `declined` and `registered` are history variables used only by the properties. |
| `MCDGSimplifyDriver` | A family of programs (3456): `main` has two loops and calls up to two distinct functions from them; each other function is empty, a loop, a call, or a call inside a loop. `WrapperProgram` and `NestedProgram` are the programs of the two findings. |

### Loops and values

The loops in `MCDSWP`:

- **`Base`.** The header `H` holds `i = phi`, `c = i < n` and `br c`. `B1`
  holds `v = f(i, a)`, `w = g(v)` and `store w`. `B2` holds `inext`,
  `c2 = (i == k)` and `br c2, Y, H`. The live-outs are `i`, feeding the exits
  `X` and `Y`, and `w`, feeding `Y`.
- **Variants of `Base`:**
  - `MemCarried`, `MemForward`: a memory dependence inside one SCC, or across
    stages;
  - `MemOnly`: `v` and the store are linked only by a memory dependence
    (the data edge `w -> st` removed), so `v` and `st` fall in different
    stages with nothing but that dependence between them;
  - `Collapsed`: one SCC;
  - `PointerQueue`: `v` is a pointer;
  - `ExtCondition`: the branch uses a live-in directly;
  - `RetVoid`, `RetValue`: `B2` leaves to a block holding `ret void` or
    `ret w`.

A value is abstracted to `<<x, k>>`: the value instruction `x` computes in
iteration `k`. A live-in is `<<x, 0>>`. `Bad` is any other value: a value of
the wrong iteration, a truncated value, or one read from a slot never
written. `None` is a value not yet defined.

A clone evaluates to `<<x, k>>` exactly when each of its operands has the
value the sequential loop would give it (`Eval`). A branch on a `Bad` or
`None` condition may take either successor (`Targets`).

Two constants fix a run:
- `TripCounts` bounds the header condition `c`, which is true while
  `k <= trip`;
- `BreakIters` fixes `c2`, which is true in iteration `brkAt`.

### Stage programs

An operation's position in its block clone comes from how the code inserts
it:

| Operation | Code | Placed |
|---|---|---|
| clone | `createInstAndBBForSCC` | in original order |
| pop | `popValueQueues` | in the producer's block, before the stage's first non-phi clone after the producer |
| push | `pushValueQueues` | right after the producer clone, after any phis |
| env store | `loadAndStoreEnv` | before the terminator, after the pops moved there |

The keys in `PopOp`, `PushOp`, `StoreOp` and `CloneOp` encode this. The
operations are sorted by key with `InKeyOrder`.

Queue width:
- `Narrow` models the choice of queue primitive: `queueSizeToIndex[bitLength]`,
  where a width with no entry selects index 0, the 8-bit queue.
- A value wider than the primitive becomes `Bad`.

The `ret` in the pipeline:
- `ExecReturn` is `rerouteAndStoreRetInEnv`.
- `PipelineBBTail` and `ReturnBlockCode` record what `createPipelineFromStages`
  emits into `pipelineBB` and into the return block.

## Runs

| Run (cfg) | Expect | Checks | Shows |
|---|---|---|---|
| `MCDSWPModule.cfg` | pass | TypeOK, StagesPartitionLoop, QueuesWellFormed, OperandsResolvable, EnvironmentSlotsExact, AnalysesFresh, ReturnsModified; deadlock | `runOnModule` over the modules of `MCDSWPModule`: seven loop shapes under every merge choice, BFS order and registration order, and a module with several loops (941 states). |
| `MCDSWPStageOrder.cfg` | violation | StageOrderTopological | The BFS at DSWP.cpp:284 gives `Base` a non-topological stage order (spec section 4.3). |
| `MCDSWPRetMerge.cfg` | violation | StagesPartitionLoop | Merging the `ret w` tail into the control SCC closes a cycle. No stage is built, and the pass crashes at line 368. |
| `MCDSWPRetVoid.cfg` | violation | PassNeverCrashes | `ret void` inside the loop crashes `collectEnvInfoForReturns` (line 449). |
| `MCDSWPPipeline.cfg` | pass | PipelineEquivalent, QueuesDrained, StagesLeaveTogether; PopsInLockstep, DataflowRefined; deadlock | The pipelines of `Base`, `MemCarried` and `MemOnly`, for 0..2 trips and a break in iteration 1, 2 or never, all interleavings (613,488 states, about 2.5 min). |
| `MCDSWPPipelinePointer.cfg` | violation | PipelineEquivalent | A pointer queue uses the 8-bit primitive, so `loW` is truncated. |
| `MCDSWPPipelineReturn.cfg` | violation | PipelineEquivalent | The return block is empty, and `ret w` is emitted into `pipelineBB`. |
| `MCDGSimplifyOrder.cfg` | pass | TypeOK, DepthOrderComplete | On every graph of the family, invoke records included, the order lists each reachable function once (669,419 states, about 1 min). |
| `MCDGSimplifyEntrances.cfg` | violation | EntrancesAreRecursive | `c` is on no cycle, yet it is flushed as a recursive chain entrance because its callers `a` and `b` form a cycle. |
| `MCDGSimplifyDriver.cfg` | pass | TypeOK, WorkListExact, Termination | Across reruns, each run writes back exactly the loops it loaded and did not decline, and the reruns end, also after callees with loops are inlined (about 1,000,000 states, about 3 min). |
| `MCDGSimplifyReloadFaithful.cfg` | violation | ReloadFaithful | Inlining the wrapper `a` drops it from the order. The indices written by run 1 then name the wrong functions in run 2, here an index past the end. |
| `MCDGSimplifyReloadLoops.cfg` | violation | ReloadFaithful | Run 1 inlines `a` (one loop) into the first loop of `main`. `main`'s second loop keeps id 1, but in run 2's preorder id 1 is the inlined loop, nested in the first, so run 2 checks the wrong loop. |

What the properties say:

- **`PipelineEquivalent`.** After the pipeline returns, the function goes on
  where the sequential loop would:
  - at the same exit;
  - with every LCSSA phi of that exit holding its producer's last-iteration
    value;
  - or returning the same value.

  It is the end-to-end property. A wrong pop, push or store placement, a
  missing control queue or a wrong slot all break it.
- **`PopsInLockstep`** (an action property). Every pop delivers the value of
  the popping stage's current iteration.
- **`QueuesDrained`.** No value is left in a queue after the join.
- **`DataflowRefined`** (refinement). The pipeline implements
  `DataflowLoop`. Every step in which a stage's clone runs is one `Run`
  step of the abstract specification; every other step is a stutter.
  Each clone therefore runs every iteration at most once and in order.
  It runs only after the producers of its operands and the memory
  accesses it must follow have run the iterations it needs: the same
  iteration, or the previous one for a phi's latch input and for a
  loop-carried memory dependence (`Lag`). Between stages, only the
  blocking pops enforce this. For a memory dependence, they are the pops
  of the value queue a release build registers (line 346, whose assert is
  compiled out). `MemOnly` is the loop where that queue is the whole
  story. `PipelineEquivalent` compares values only. This property
  compares the order of execution, so it also catches a clone that runs
  an iteration twice or runs ahead of its producer and still gets the
  right value.
- **`StagesLeaveTogether`.** Each stage thread leaves by the exit the
  sequential loop leaves by, in the same iteration. Every stage stores its
  own exit index into the one shared exit slot (line 553). The switch
  after the join sees only the last store, so `PipelineEquivalent` alone
  would miss a stage that left differently but was overwritten.
- **Deadlock in the pipeline.** The pipeline run checks deadlock. Every
  behaviour there is finite: iterations are bounded by `MaxIter`, and the
  pass and the assembler make progress on each step. So deadlock freedom
  means the pipeline always returns, and a stage stuck on a queue shows up as
  a deadlock.
- **`AnalysesFresh`.** `applyDSWP` never runs on a loop of a function a
  pipeline has already been linked into. All dependence information is
  computed by `getModuleLoops` before the first loop is transformed (line
  121), so it would be stale there. Only the one-loop-per-function filter
  (`functionsSeen`, 123-142) prevents this.
- **`ReturnsModified`.** `runOnModule` returns true exactly when some loop
  was transformed, and the functions rewritten are exactly those of the
  transformed loops, whatever the outcome of the loops tried after them.
- **`DepthOrderComplete`.** When ordering ends, `depthOrderedFns` holds each
  function reachable from `main`, through calls or invokes, exactly once:
  the reruns index functions by this order. A function reached only
  through an invoke has no parents, so it is ordered on reaching it, and
  must still be ordered once.
- **`EntrancesAreRecursive`.** Every recursive chain entrance lies on a call
  cycle, as the comment at line 495 says.
- **`WorkListExact`.** When a run has visited its functions, `loopsToCheck`
  equals the loaded loops minus the declined ones.
- **`ReloadFaithful`.** The loops a run loads (function and loop
  identity) are those the previous run registered.
- **`Termination`.** Some run writes no continue file, or a run crashes
  (reading the loops file past the end of the order). Inlining a callee
  with loops adds loops to the caller; the run shows the reruns still end
  for every program of the family.

Each property of a passing run has a mutant in `PROJECT.json`: a fault
variant defined in the module (for example `PopOpBeforeConsumer`,
`FlushOneNoTraverse` or `RegisterAlwaysContinue`). With the variant in place,
TLC finds that property violated.

## Bounds and why they suffice

| Bound | Value | Why it is enough |
|---|---|---|
| Loops | 7 shapes in the partition run, 3 in the pipeline run | Together they cover: a tail merge with one and with two candidates, one and several stages, queue dedup (`i` has two consumers in one stage), live-outs consumed twice, live-ins used by terminators, memory dependences, and rets. |
| Trip counts | `0..2` | Each exit can be reached in the first iteration and after a back edge. |
| Break iteration | `1..3` | The same reason. |
| `MaxIter` | 3 | An iteration bound. The header back edge is disabled beyond it, and it is never reached within these trip counts. |
| `QueueCapacity` | 1 | The runtime's capacity (spec section 5). |
| DGSimplify call graphs | `main` plus three functions; `main` calls up to 3 of them, the others up to 2 or invoke one | Enough for two-function cycles, self-loops, diamonds (a function with two parents), a function reached only from a cycle, and a function reached only through an invoke. Symmetry over the three functions is sound because no property names one. |
| DGSimplify programs | `main` with two loops; each other function with at most one loop and one call | Covers an inline into `main`, a decline in one loop of `main` and an inline in the other, a callee inlined twice, callees with loops nested into a loop of the caller, and chains of three. The run checks liveness, so it uses no symmetry. |

## Fairness

- **Pipeline.** The pipeline run checks safety, deadlock and the
  refinement's safety part (`[][AbsNext]_absVars`), so it assumes no
  fairness.
- **DGSimplify.** `Spec` assumes weak fairness of `Next`. The pass is
  sequential. The driver reruns it while the continue file exists; line 57
  writes that file, and the model takes the rerun as part of `Register`. No
  step of the code waits on anything.

## Not modelled

- **PDG and SCC analysis.** These are taken as given (spec section 6).
- **IR details.** Types, casts, allocas, GEPs and PHI incoming-block
  rewriting (`remapControlFlow` 719-730) are abstracted: a clone reads its
  operands through `Read`.
- **Memory contents.** A memory dependence is modelled by the order of its
  two accesses (`done`), not by the values in memory.
- **DGSimplify's SCC heuristic.** Which call in a loop the heuristic
  inlines (the SCC count and memory-edge tests, 205-247) is abstracted to a choice among the
  calls that pass the code's tests: not recursive, and to a function at
  least as deep.
- **DGSimplify's hoist mode** (`dgsimplify_do_hoist.txt`, 65-77). Its call
  to `inlineFnsOfLoopsToCGRoot` is commented out. It clears `loopsToCheck`,
  so it only removes its loops file and never asks for a rerun: no state of
  interest.
- **DGSimplify IR inlining.** `InlineFunction` is modelled by its effect on
  the body: the callee's tokens replace the call, so its calls and loops
  land inside the loop of the call.
- **The use of the erased call in `adjustOrdersAfterInline`.** Reading a
  freed instruction is undefined; the model takes one outcome, the one an
  unchanged freed object gives (the callee operand, a null parent). The
  shift of `preOrderedLoops[F]` (329-345) then appends the callee's
  summaries, which the run never reads again, so it is not a separate
  state. A reuse of the freed memory is not represented.
- **`DGSimplify.hpp`.** Its member declarations are the state of the
  modules (`vars`, `runVars`). Several of its method signatures differ from
  the definitions in the `.cpp`, and `orderedCalls`/`orderedCalled` are
  never used.
- **The helper lookup's types.** `collectThreadPoolHelperFunctionsAndTypes`
  records LLVM types. Only its effect on control is modelled: it always
  returns true, so a module without the helpers never reaches the "DSWP
  utils not included" return (line 70). It dereferences a null function
  (line 158) and crashes; `MCDSWPModule` includes such a module. Because
  the pass is registered for every clang compilation (lines 1078-1083),
  this crash hits every module built without the DSWP runtime. No violation
  run is given to it: the crash comes on the first step for any such
  module, so a unit test reaches it directly.
- **The DSWP headers.** `DSWPLoopDependenceInfo.hpp` and
  `LoopEnvironment.hpp` belong to a different version from `DSWP.cpp`.
  - The header declares `sccToStage` over `DSWPTaskExecution`, while the
    pass stores `StageInfo` pointers.
  - The header's constructor takes five arguments; line 114 passes seven.
  - The pass builds an `EnvInfo` (line 387) with `hasRetValue`,
    `indexOfRetVal` and `retType`, which `LoopEnvironment` lacks.

  The model follows `DSWP.cpp`. The headers are used only where they agree
  with it: the fields of the environment and of the loop's stages and
  queues.
- **HELIX `Linker.cpp`.** A straight-line builder sequence.
- **Debug printing.**

## Findings

See `PROJECT.json` `findings`:
- a non-topological stage order;
- a cycle from merging a `ret` tail;
- a crash on `ret void`;
- pointer truncation through the 8-bit queue;
- an empty return block;
- a function on no cycle marked as a recursive chain entrance;
- stale function indices read across reruns;
- stale loop ids read across reruns, after a callee's loops are nested into
  the caller's.

## Plan

Next steps:

- State the order the depth test (line 233) needs for functions reached
  through invokes, once the intended treatment of invokes is settled.
- Give `MemOnly`-like loops with two memory dependences in opposite
  directions to the pipeline run, once the state space allows it.
