---------------------------- MODULE DSWPPartition ----------------------------
(***************************************************************************)
(* The compile-time half of DSWP::applyDSWP (src/passes/dswp/src/DSWP.cpp):*)
(* mergeSCCs, isWorthParallelizing and collectStageAndQueueInfo, i.e. the  *)
(* SCC merger, the worthiness check, the stage assigner, the queue         *)
(* allocator and the environment builder.  Each loop iteration of those    *)
(* functions whose effect depends on the state left by the previous one is *)
(* one step; pc names the function the pass is in.                          *)
(*                                                                         *)
(* Orders the code leaves to the iteration order of unordered containers   *)
(* (which predecessor is *begin() of previousDepthNodes, the order of     *)
(* getTopLevelNodes and nextDepthNodes) are chosen nondeterministically.    *)
(* Queue and environment registrations are visited in one fixed order: it  *)
(* only decides the numbering of queues and slots.                         *)
(***************************************************************************)
EXTENDS LoopPDG

VARIABLES
    pc,             \* where applyDSWP is
    dag,            \* LDI->loopSCCDAG: its nodes, each a set of instructions
    tails,          \* tailCmpBrs of mergeBranchesWithoutOutgoingEdges
    found,          \* nodesFound of collectSCCIntoStages
    toTraverse,     \* nodesToTraverse (a deque) of collectSCCIntoStages
    stages,         \* LDI->stages: StageInfo records; stage s has order s-1
    queues,         \* LDI->queues: QueueInfo records; queue q has index q-1
    pending,        \* dependences or external nodes a loop has still to visit
    envProducers,   \* environment->envProducers
    envIdx,         \* environment->producerIndexMap (0: no entry)
    preEnv,         \* environment->preLoopEnv
    postEnv,        \* environment->postLoopEnv
    prodConsumers,  \* environment->prodConsumers
    hasRet          \* environment->hasRetValue

partVars == <<pc, dag, tails, found, toTraverse, stages, queues, pending,
              envProducers, envIdx, preEnv, postEnv, prodConsumers, hasRet>>
vars == <<loop, partVars>>

Done == {"done", "notWorth", "crash"}

G == SCCDAG(dag)

StageIds == 1..Len(stages)

\* sccToStage / findStageContaining: the stage owning x, 0 (nullptr) if none.
StageOf(x) ==
    IF \E s \in StageIds : x \in stages[s].scc
    THEN CHOOSE s \in StageIds : x \in stages[s].scc
    ELSE 0

\* A fresh StageInfo for SCC node n.
NewStage(n) ==
    [scc |-> n, push |-> {}, pop |-> {},
     prodQueues |-> [x \in Inst |-> {}],      \* producerToQueues
     popFor |-> [x \in Inst |-> 0],           \* producedPopQueue (0: none)
     inEnvs |-> {},                           \* incomingEnvs
     outEnvs |-> [x \in Inst |-> 0]]          \* outgoingEnvs (0: none)

\* The element a registration loop visits next.
NextPending == CHOOSE d \in pending : TRUE

-----------------------------------------------------------------------------
(***************************************************************************)
(* SCCMerger: mergeSCCs / mergeBranchesWithoutOutgoingEdges.               *)
(***************************************************************************)

\* A node with incoming but no outgoing edges made only of compares and
\* terminators.
IsTailCmpBr(n) ==
    /\ Predecessors(G, n) # {}
    /\ Successors(G, n) = {}
    /\ \A x \in n : loop.op[x] \in {"cmp", "br", "ret"}

CollectTails ==
    /\ pc = "merge"
    /\ tails' = {n \in dag : IsTailCmpBr(n)}
    /\ pc' = "mergeTails"
    /\ UNCHANGED <<loop, dag, found, toTraverse, stages, queues, pending,
                   envProducers, envIdx, preEnv, postEnv, prodConsumers, hasRet>>

\* Merge one collected tail into the first node previousDepthNodes returns.
MergeTail ==
    /\ pc = "mergeTails"
    /\ \E t \in tails :
         \E p \in Predecessors(G, t) :
            /\ dag' = (dag \ {t, p}) \cup {t \cup p}
            /\ tails' = tails \ {t}
    /\ UNCHANGED <<loop, pc, found, toTraverse, stages, queues, pending,
                   envProducers, envIdx, preEnv, postEnv, prodConsumers, hasRet>>

-----------------------------------------------------------------------------
(***************************************************************************)
(* Worthiness check and StageAssigner: isWorthParallelizing and            *)
(* collectSCCIntoStages.                                                   *)
(***************************************************************************)

NotWorthParallelizing ==
    /\ pc = "mergeTails" /\ tails = {}
    /\ Cardinality(dag) <= 1
    /\ pc' = "notWorth"
    /\ UNCHANGED <<loop, dag, tails, found, toTraverse, stages, queues, pending,
                   envProducers, envIdx, preEnv, postEnv, prodConsumers, hasRet>>

StartStages ==
    /\ pc = "mergeTails" /\ tails = {}
    /\ Cardinality(dag) > 1
    /\ found' = Roots(G)
    /\ toTraverse' \in SetToSeqs(Roots(G))
    /\ pc' = "stages"
    /\ UNCHANGED <<loop, dag, tails, stages, queues, pending,
                   envProducers, envIdx, preEnv, postEnv, prodConsumers, hasRet>>

\* Fault variant: nodes enqueued are not recorded in nodesFound.
AssignStageNoFound ==
    /\ pc = "stages"
    /\ toTraverse # <<>>
    /\ LET n == Head(toTraverse)
           next == Successors(G, n) \ found
       IN  /\ \E ord \in SetToSeqs(next) : toTraverse' = Tail(toTraverse) \o ord
           /\ found' = found
           /\ stages' = Append(stages, NewStage(n))
    /\ UNCHANGED <<loop, pc, dag, tails, queues, pending,
                   envProducers, envIdx, preEnv, postEnv, prodConsumers, hasRet>>

\* One iteration of the while loop: dequeue a node, enqueue its unvisited
\* next-depth nodes, and make it the stage with the next order.
AssignStage ==
    /\ pc = "stages"
    /\ toTraverse # <<>>
    /\ LET n == Head(toTraverse)
           next == Successors(G, n) \ found
       IN  /\ \E ord \in SetToSeqs(next) : toTraverse' = Tail(toTraverse) \o ord
           /\ found' = found \cup next
           /\ stages' = Append(stages, NewStage(n))
    /\ UNCHANGED <<loop, pc, dag, tails, queues, pending,
                   envProducers, envIdx, preEnv, postEnv, prodConsumers, hasRet>>

-----------------------------------------------------------------------------
(***************************************************************************)
(* QueueAllocator: registerQueue and collectValueQueueInfo.                *)
(***************************************************************************)

\* Fault variant: no lookup of an existing queue for (producer, toStage).
ExistingQueuesNone(from, to, p) == {}

\* The queues stage from already has that carry p to stage to.
ExistingQueues(from, to, p) ==
    {q \in stages[from].prodQueues[p] : queues[q].toStage = to}

\* The state registerQueue(from, to, producer, consumer) leaves; its result,
\* whether the width has a queue primitive, is ignored by both callers.
RegisterQueue(from, to, p, c) ==
    LET existing == ExistingQueues(from, to, p)
        isNew == existing = {}
        q == IF isNew THEN Len(queues) + 1 ELSE Min(existing)
        qs == IF isNew
              THEN Append(queues, [producer |-> p, consumers |-> {c},
                                   width |-> BitLength(p),
                                   fromStage |-> from, toStage |-> to])
              ELSE queues
    IN  /\ queues' = [qs EXCEPT ![q].consumers = @ \cup {c},
                                ![q].fromStage = from, ![q].toStage = to]
        /\ stages' = [stages EXCEPT
                        ![from].prodQueues[p] = IF isNew THEN @ \cup {q} ELSE @,
                        ![from].push = @ \cup {q},
                        ![to].pop = @ \cup {q},
                        ![to].popFor[p] = q]

\* Fault variant: memory dependences are skipped like control dependences.
ValueDepsNoMem ==
    {[from |-> StageOf(e[1]), to |-> StageOf(e[2]),
      producer |-> e[1], consumer |-> e[2], isMem |-> FALSE] :
        e \in {e \in loop.data \cap (Inst \X Inst) : StageOf(e[1]) # StageOf(e[2])}}

\* Sub-edges of the SCC DAG edges between different stages that are not
\* control dependences: data and (asserted absent) memory dependences.
ValueDeps ==
    {[from |-> StageOf(e[1]), to |-> StageOf(e[2]),
      producer |-> e[1], consumer |-> e[2], isMem |-> e \in loop.mem] :
        e \in {e \in (loop.data \cup loop.mem) \cap (Inst \X Inst) :
                 StageOf(e[1]) # StageOf(e[2])}}

StartValueQueues ==
    /\ pc = "stages"
    /\ toTraverse = <<>>
    /\ pending' = ValueDeps
    /\ pc' = "valueQueues"
    /\ UNCHANGED <<loop, dag, tails, found, toTraverse, stages, queues,
                   envProducers, envIdx, preEnv, postEnv, prodConsumers, hasRet>>

\* A memory dependence passes when the build compiles the assert out (NDEBUG).
RegisterValueQueue ==
    /\ pc = "valueQueues"
    /\ pending # {}
    /\ LET d == NextPending
       IN  /\ d.from # 0 /\ d.to # 0
           /\ RegisterQueue(d.from, d.to, d.producer, d.consumer)
           /\ pending' = pending \ {d}
    /\ UNCHANGED <<loop, pc, dag, tails, found, toTraverse,
                   envProducers, envIdx, preEnv, postEnv, prodConsumers, hasRet>>

\* assert(!isMemoryDependence()) fails in a build with assertions, or a
\* node without a stage (sccToStage yields nullptr) reaches registerQueue.
ValueQueueAbort ==
    /\ pc = "valueQueues"
    /\ pending # {}
    /\ LET d == NextPending IN d.isMem \/ d.from = 0 \/ d.to = 0
    /\ pc' = "crash"
    /\ UNCHANGED <<loop, dag, tails, found, toTraverse, stages, queues, pending,
                   envProducers, envIdx, preEnv, postEnv, prodConsumers, hasRet>>

\* Producers of the non-control incoming edges of terminator t.
BranchProducers(t) == {p \in Inst \cup Ext : <<p, t>> \in loop.data \cup loop.mem}

\* Fault variant: the condition is sent only to the terminator's own stage.
ControlDepsToBrStage ==
    {[from |-> StageOf(p), to |-> s, producer |-> p, consumer |-> t] :
        <<t, p, s>> \in {<<t, p, s>> \in Terminators \X (Inst \cup Ext) \X StageIds :
                            p \in BranchProducers(t) /\ s # StageOf(p) /\ s = StageOf(t)}}

\* Each terminator is an implicit consumer of what feeds it, in every stage
\* other than the producer's.
ControlDeps ==
    {[from |-> StageOf(p), to |-> s, producer |-> p, consumer |-> t] :
        <<t, p, s>> \in {<<t, p, s>> \in Terminators \X (Inst \cup Ext) \X StageIds :
                            p \in BranchProducers(t) /\ s # StageOf(p)}}

\* brStage is nullptr (brStage->scc), or a producer is outside the loop
\* (prodStage is nullptr, dereferenced by registerQueue).
ControlQueueCrash ==
    \E t \in Terminators :
        StageOf(t) = 0 \/ \E p \in BranchProducers(t) : StageOf(p) = 0

StartControlQueues ==
    /\ pc = "valueQueues"
    /\ pending = {}
    /\ ~ControlQueueCrash
    /\ pending' = ControlDeps
    /\ pc' = "controlQueues"
    /\ UNCHANGED <<loop, dag, tails, found, toTraverse, stages, queues,
                   envProducers, envIdx, preEnv, postEnv, prodConsumers, hasRet>>

ControlQueueAbort ==
    /\ pc = "valueQueues"
    /\ pending = {}
    /\ ControlQueueCrash
    /\ pc' = "crash"
    /\ UNCHANGED <<loop, dag, tails, found, toTraverse, stages, queues, pending,
                   envProducers, envIdx, preEnv, postEnv, prodConsumers, hasRet>>

RegisterControlQueue ==
    /\ pc = "controlQueues"
    /\ pending # {}
    /\ LET d == NextPending
       IN  /\ RegisterQueue(d.from, d.to, d.producer, d.consumer)
           /\ pending' = pending \ {d}
    /\ UNCHANGED <<loop, pc, dag, tails, found, toTraverse,
                   envProducers, envIdx, preEnv, postEnv, prodConsumers, hasRet>>

-----------------------------------------------------------------------------
(***************************************************************************)
(* EnvironmentBuilder: collectEnvInfo, collectEnvInfoForReturns and        *)
(* configureDependencyStorage.  Slot k is environment index k-1; the slot  *)
(* after the producers records the exit taken, the next one the returned  *)
(* value.                                                                  *)
(***************************************************************************)

StartEnv ==
    /\ pc = "controlQueues"
    /\ pending = {}
    /\ pending' = Ext                    \* loopDG->externalNodePairs()
    /\ envProducers' = <<>>
    /\ envIdx' = [x \in Inst \cup Ext |-> 0]
    /\ preEnv' = {} /\ postEnv' = {}
    /\ prodConsumers' = [x \in Inst |-> {}]
    /\ pc' = "env"
    /\ UNCHANGED <<loop, dag, tails, found, toTraverse, stages, queues, hasRet>>

\* The stages that record an environment slot for loop instruction x.
EnvStagesOf(x) == {s \in StageIds : x \in stages[s].scc \/ IsTerminator(x)}

\* Fault variants of the post-loop slot lookup: producerIndexMap is not
\* consulted, or the slot is numbered without adding the producer.
AddPostProducerNoReuse(p, prods, idx) ==
    [prods |-> Append(prods, p), slot |-> Len(prods) + 1]
AddPostProducerNoAppend(p, prods, idx) ==
    [prods |-> prods, slot |-> IF idx[p] # 0 THEN idx[p] ELSE Len(prods) + 1]

\* The slot of post-loop producer p: its existing slot in producerIndexMap,
\* or a new one (addPostLoopProducer); and the producers afterwards.
AddPostProducer(p, prods, idx) ==
    IF idx[p] # 0 THEN [prods |-> prods, slot |-> idx[p]]
    ELSE [prods |-> Append(prods, p), slot |-> Len(prods) + 1]

\* One iteration over an external node x: it is a pre-loop producer if it
\* feeds loop instructions by data, and a consumer of the (at most one) loop
\* instruction that feeds it by data.
CollectEnvOf ==
    /\ pc = "env"
    /\ pending # {}
    /\ LET x == NextPending
           slot0 == Len(envProducers) + 1
           users == {i \in Inst : <<x, i>> \in loop.data}
           isPre == users # {}
           prods1 == IF isPre THEN Append(envProducers, x) ELSE envProducers
           idx1 == IF isPre THEN [envIdx EXCEPT ![x] = slot0] ELSE envIdx
           stages1 == [s \in StageIds |->
                         IF \E i \in users : s \in EnvStagesOf(i)
                         THEN [stages[s] EXCEPT !.inEnvs = @ \cup {slot0}]
                         ELSE stages[s]]
           feeders == {i \in Inst : <<i, x>> \in loop.data}
       IN  /\ preEnv' = IF isPre THEN preEnv \cup {slot0} ELSE preEnv
           /\ IF feeders = {}
              THEN /\ envProducers' = prods1
                   /\ envIdx' = idx1
                   /\ stages' = stages1
                   /\ UNCHANGED <<postEnv, prodConsumers>>
              ELSE LET p == CHOOSE i \in feeders : TRUE
                       post == AddPostProducer(p, prods1, idx1)
                       slot == post.slot
                       writers == EnvStagesOf(p)
                   IN  /\ prodConsumers' = [prodConsumers EXCEPT ![p] = @ \cup {x}]
                       /\ envProducers' = post.prods
                       /\ envIdx' = [idx1 EXCEPT ![p] = slot]
                       /\ postEnv' = IF slot > Len(prods1) THEN postEnv \cup {slot} ELSE postEnv
                       /\ stages' =
                            IF writers = {} THEN stages1
                            ELSE [stages1 EXCEPT ![Min(writers)].outEnvs[p] = slot]
           /\ pending' = pending \ {x}
    /\ UNCHANGED <<loop, pc, dag, tails, found, toTraverse, queues, hasRet>>

\* A ret whose value is read: ret void has no data operand.
ReturnsValue(r) == Operands(r) # {}

\* collectEnvInfoForReturns dereferences getReturnValue() of every ret up to
\* the first one returning a value; for ret void that is nullptr.
ReturnCrash ==
    \E j \in DOMAIN loop.rets :
        /\ ~ReturnsValue(loop.rets[j])
        /\ \A i \in 1..(j - 1) : ~ReturnsValue(loop.rets[i])

FinishEnv ==
    /\ pc = "env"
    /\ pending = {}
    /\ ~ReturnCrash
    /\ hasRet' = \E j \in DOMAIN loop.rets : ReturnsValue(loop.rets[j])
    /\ pc' = "done"
    /\ UNCHANGED <<loop, dag, tails, found, toTraverse, stages, queues, pending,
                   envProducers, envIdx, preEnv, postEnv, prodConsumers>>

ReturnAbort ==
    /\ pc = "env"
    /\ pending = {}
    /\ ReturnCrash
    /\ pc' = "crash"
    /\ UNCHANGED <<loop, dag, tails, found, toTraverse, stages, queues, pending,
                   envProducers, envIdx, preEnv, postEnv, prodConsumers, hasRet>>

\* configureDependencyStorage: EnvInfo::envSize, indexOfExitBlock, indexOfRetVal.
EnvSize == Len(envProducers) + 1 + (IF hasRet THEN 1 ELSE 0)
ExitSlot == Len(envProducers) + 1
RetSlot == Len(envProducers) + 2

-----------------------------------------------------------------------------

(***************************************************************************)
(* StageSynthesizer, createInstAndBBForSCC: a stage clones the instructions *)
(* of its SCC and the terminator of every loop block.                      *)
(***************************************************************************)
StageClones(s) == stages[s].scc \cup Terminators

(***************************************************************************)
(* remapOperandsOfInstClones: operand p of a clone in stage s becomes the  *)
(* stage's own clone of p, the load of p's incoming environment slot, or   *)
(* the value popped from the queue that brings p to s; anything else ends  *)
(* in abort() (or a nullptr operand when the slot was never loaded).       *)
(***************************************************************************)
Resolves(s, p) ==
    \/ p \in StageClones(s)
    \/ p \in Ext /\ envIdx[p] \in preEnv /\ envIdx[p] \in stages[s].inEnvs
    \/ p \in Inst /\ stages[s].popFor[p] # 0

-----------------------------------------------------------------------------
(* Properties *)

TypeOK ==
    /\ pc \in {"merge", "mergeTails", "stages", "valueQueues", "controlQueues",
               "env"} \cup Done
    /\ dag \subseteq SUBSET Inst
    /\ tails \subseteq dag
    /\ found \subseteq dag
    /\ toTraverse \in Seq(dag)
    /\ \A s \in StageIds :
          /\ stages[s].scc \in dag
          /\ stages[s].push \cup stages[s].pop \subseteq 1..Len(queues)
          /\ stages[s].popFor \in [Inst -> 0..Len(queues)]
          /\ stages[s].outEnvs \in [Inst -> 0..Len(envProducers)]
    /\ \A q \in 1..Len(queues) :
          /\ queues[q].producer \in Inst
          /\ queues[q].consumers \subseteq Inst
          /\ {queues[q].fromStage, queues[q].toStage} \subseteq StageIds
    /\ envProducers \in Seq(Inst \cup Ext)
    /\ envIdx \in [Inst \cup Ext -> 0..Len(envProducers)]
    /\ preEnv \cup postEnv \subseteq 1..Len(envProducers)
    /\ hasRet \in BOOLEAN

\* Once stages are assigned, every loop instruction belongs to exactly one
\* stage (section 3): the merged SCCs and the BFS of collectSCCIntoStages
\* together cover the loop.
StagesPartitionLoop ==
    pc \in {"valueQueues", "controlQueues", "env", "done"} =>
        /\ \A x \in Inst : Cardinality({s \in StageIds : x \in stages[s].scc}) = 1
        /\ Len(stages) = Cardinality(dag)

\* A loop whose rets return void is a supported input: a stage reaching a
\* ret stores the return value only if there is one (section 5, step 6).
\* collectEnvInfoForReturns reads the type of getReturnValue() of every ret
\* before testing for void; the pass must never end in a crash on a loop
\* that meets the input contract.
PassNeverCrashes == pc # "crash"

\* Stage order is a topological layering of the merged SCC DAG (section 3):
\* no stage precedes a stage its SCC depends on.
StageOrderTopological ==
    pc \in {"valueQueues", "controlQueues", "env", "done"} =>
        \A e \in G.edge : StageOf(CHOOSE x \in e[1] : TRUE) < StageOf(CHOOSE x \in e[2] : TRUE)

\* A (producer, destination stage) pair has at most one queue, that queue
\* is pushed by the producer's stage and popped by the destination stage,
\* which finds it in producedPopQueue, and all of its consumers are
\* instructions the destination stage clones (section 4.4).
QueuesWellFormed ==
    /\ \A q \in 1..Len(queues) :
          LET p == queues[q].producer
              f == queues[q].fromStage
              t == queues[q].toStage
          IN  /\ f # t
              /\ p \in stages[f].scc
              /\ q \in stages[f].push /\ q \in stages[t].pop
              /\ stages[t].popFor[p] = q
              /\ queues[q].consumers \subseteq StageClones(t)
    /\ \A q1, q2 \in 1..Len(queues) :
          q1 # q2 => <<queues[q1].producer, queues[q1].toStage>>
                      # <<queues[q2].producer, queues[q2].toStage>>

\* When the pass completes, every operand of every instruction a stage
\* clones resolves to a clone, an environment load or a queue pop of that
\* stage: the operand remapping of every stage succeeds.
OperandsResolvable ==
    pc = "done" =>
        \A s \in StageIds : \A x \in StageClones(s) : \A p \in Operands(x) :
            Resolves(s, p)

\* Values crossing the loop boundary: live-ins feeding the loop by data and
\* loop values consumed outside it.
LiveIns == {x \in Ext : \E i \in Inst : <<x, i>> \in loop.data}
LiveOuts == {i \in Inst : \E x \in Ext : <<i, x>> \in loop.data}

\* When the pass completes, every boundary value has exactly one slot, found
\* through producerIndexMap, the environment has one slot per boundary value
\* plus the exit slot and the optional return slot, and a live-out's slot
\* is stored by exactly one stage, the one that computes it (sections 3, 4.5).
EnvironmentSlotsExact ==
    pc = "done" =>
        /\ Len(envProducers) = Cardinality(LiveIns \cup LiveOuts)
        /\ EnvSize = Cardinality(LiveIns \cup LiveOuts) + 1 + (IF hasRet THEN 1 ELSE 0)
        /\ \A v \in LiveIns \cup LiveOuts : envProducers[envIdx[v]] = v
        /\ \A i \in LiveOuts :
              /\ {s \in StageIds : stages[s].outEnvs[i] # 0} = {StageOf(i)}
              /\ stages[StageOf(i)].outEnvs[i] = envIdx[i]
              /\ envIdx[i] \in postEnv

-----------------------------------------------------------------------------

\* The state applyDSWP starts from on the loop in variable loop.
Fresh ==
    /\ pc = "merge"
    /\ dag = LoopSCCs
    /\ tails = {}
    /\ found = {}
    /\ toTraverse = <<>>
    /\ stages = <<>>
    /\ queues = <<>>
    /\ pending = {}
    /\ envProducers = <<>>
    /\ envIdx = [x \in Inst \cup Ext |-> 0]
    /\ preEnv = {}
    /\ postEnv = {}
    /\ prodConsumers = [x \in Inst |-> {}]
    /\ hasRet = FALSE

Init == loop \in Loops /\ Fresh

PartitionNext ==
    \/ CollectTails
    \/ MergeTail
    \/ NotWorthParallelizing
    \/ StartStages
    \/ AssignStage
    \/ StartValueQueues
    \/ RegisterValueQueue
    \/ ValueQueueAbort
    \/ StartControlQueues
    \/ ControlQueueAbort
    \/ RegisterControlQueue
    \/ StartEnv
    \/ CollectEnvOf
    \/ FinishEnv
    \/ ReturnAbort

\* The pass has returned; the state no longer changes.
Finished == pc \in Done /\ UNCHANGED vars

Next == PartitionNext \/ Finished

Spec == Init /\ [][Next]_vars

=============================================================================
