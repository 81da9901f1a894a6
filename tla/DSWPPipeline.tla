---------------------------- MODULE DSWPPipeline ----------------------------
(***************************************************************************)
(* What DSWP builds from the partition and what that pipeline does when it *)
(* runs (src/passes/dswp/src/DSWP.cpp, createPipelineStageFromSCC and      *)
(* createPipelineFromStages).                                              *)
(*                                                                         *)
(* Stage synthesis is modelled by its result: for every stage and loop     *)
(* block, the sequence of operations the stage's clone of that block      *)
(* executes (instruction clones, queue pops and pushes, environment        *)
(* stores), in the order the placement rules of popValueQueues,            *)
(* pushValueQueues and loadAndStoreEnv leave them.  The stages then run    *)
(* concurrently, one step per operation, over queues of QueueCapacity      *)
(* values, as the external dispatcher runs them; the assembler reads the   *)
(* environment back when all stages have returned.                         *)
(*                                                                         *)
(* A value is abstracted to its identity: <<x, k>> is the value x has in   *)
(* iteration k of the sequential loop (<<x, 0>> for a live-in), "bad" any  *)
(* other value (None: nothing yet).  The run-time inputs are the trip count of the header test *)
(* and the iteration in which the second exit test fires.                  *)
(***************************************************************************)
EXTENDS DSWPPartition

CONSTANTS
    TripCounts,     \* trip counts of the header test to try
    BreakIters,     \* iterations in which a "brk" condition holds
    QueueCapacity,  \* values a queue buffers (the queue primitive's size)
    MaxIter,        \* iterations a stage may start; bounds run-away stages
    MaxStages       \* at least the number of stages of any loop checked

VARIABLES
    rpc,        \* "idle", "running", "joined", "returned"
    trip,       \* run-time input: the header test holds in iterations 1..trip
    brkAt,      \* run-time input: a "brk" test holds in iteration brkAt
    prog,       \* stage -> block -> operations of the stage's clone of it
    at,         \* stage -> [blk, idx, iter]: where the stage's thread is
    local,      \* stage -> instruction -> value of the stage's clone
    loaded,     \* stage -> producer -> value last popped for it
    chan,       \* queue -> values in flight
    env,        \* environment slot -> value stored in it
    result,     \* what the function sees after the pipeline returns
    done,       \* history: instruction -> last iteration a clone of it
                \* executed (0: none); read only by the properties
    exitedBy,   \* history: stage -> exit block (or "ret") its thread left by
    dataflow    \* auxiliary: the loop's DataflowGraph, fixed with the loop

runVars == <<rpc, trip, brkAt, prog, at, local, loaded, chan, env, result, done, exitedBy, dataflow>>
allVars == <<vars, runVars>>

Bad == <<"bad", 0>>

\* The int32 exit index j, as stored in the exit slot.
ExitId(j) == <<"exit", j>>
None == <<"none", 0>>

-----------------------------------------------------------------------------
(***************************************************************************)
(* Stage synthesis.  An operation is a record; key orders the operations  *)
(* of one block clone: <<program position it sits at, rank, tie-break>>.  *)
(***************************************************************************)

Op(kind, x, q, slot, blk, key) ==
    [kind |-> kind, x |-> x, q |-> q, slot |-> slot, blk |-> blk, key |-> key]

KeyLess(a, b) ==
    \/ a.key[1] < b.key[1]
    \/ a.key[1] = b.key[1] /\ a.key[2] < b.key[2]
    \/ a.key[1] = b.key[1] /\ a.key[2] = b.key[2] /\ a.key[3] < b.key[3]

\* The terminator of block b.
TermOf(b) == CHOOSE t \in BlockInsts(b) : IsTerminator(t)

\* createInstAndBBForSCC: the clones of a stage sit in their original
\* blocks in original order.
CloneOp(s, x) == Op("clone", x, 0, 0, loop.blk[x], <<loop.pos[x], 3, 0>>)

\* Fault variant: the pop is placed before its first consumer instead.
PopOpBeforeConsumer(s, q) ==
    LET c == CHOOSE c \in queues[q].consumers :
                \A d \in queues[q].consumers : loop.pos[c] <= loop.pos[d]
    IN  Op("pop", queues[q].producer, q, 0, loop.blk[c], <<loop.pos[c], 1, q>>)

\* popValueQueues: the pop of queue q goes into the producer's block, moved
\* before the first clone of stage s after the producer, phis skipped;
\* pops moved before the same clone keep the order of popValueQueues.
PopOp(s, q) ==
    LET p == queues[q].producer
        cands == {y \in StageClones(s) \cap InstsAfter(p) : loop.op[y] # "phi"}
        anchor == CHOOSE y \in cands : \A z \in cands : loop.pos[y] <= loop.pos[z]
    IN  Op("pop", p, q, 0, loop.blk[p], <<loop.pos[anchor], 1, q>>)

\* Fault variant: the push is placed before the producer's clone.
PushOpBeforeProducer(s, q) ==
    LET p == queues[q].producer
    IN  Op("push", p, q, 0, loop.blk[p], <<loop.pos[p], 2, -q>>)

\* pushValueQueues: the push of p's value is moved before the first non-phi
\* instruction after p's clone; a later-moved push lands before an earlier.
PushOp(s, q) ==
    LET p == queues[q].producer
        phis == {y \in StageClones(s) \cap InstsAfter(p) : loop.op[y] = "phi"}
        slotPos == IF phis = {} THEN loop.pos[p]
              ELSE CHOOSE n \in {loop.pos[y] : y \in phis} : \A y \in phis : loop.pos[y] <= n
    IN  Op("push", p, q, 0, loop.blk[p], <<slotPos, 4, -q>>)

\* Fault variant: the live-out is stored on entry to its block.
StoreOpAtBlockEntry(s, p) ==
    Op("store", p, 0, stages[s].outEnvs[p], loop.blk[p], <<0, 2, stages[s].outEnvs[p]>>)

\* loadAndStoreEnv: the store of an outgoing live-out goes before the
\* terminator of its block, after the pops already placed there.
StoreOp(s, p) ==
    Op("store", p, 0, stages[s].outEnvs[p], loop.blk[p],
       <<loop.pos[TermOf(loop.blk[p])], 2, stages[s].outEnvs[p]>>)

\* Everything stage s executes in its clones of the loop blocks.
StageOps(s) ==
    {CloneOp(s, x) : x \in StageClones(s)}
    \cup {PopOp(s, q) : q \in stages[s].pop}
    \cup {PushOp(s, q) : q \in stages[s].push}
    \cup {StoreOp(s, p) : p \in {p \in Inst : stages[s].outEnvs[p] # 0}}

\* The operations of a set in key order (keys are distinct within a block):
\* the i-th is the one with i - 1 operations before it.
InKeyOrder(S) ==
    [i \in 1..Cardinality(S) |->
        CHOOSE a \in S : Cardinality({b \in S : KeyLess(b, a)}) = i - 1]

StageProgram(s) ==
    LET ops == StageOps(s)
    IN  [b \in Range(loop.blocks) |-> InKeyOrder({o \in ops : o.blk = b})]

-----------------------------------------------------------------------------
(***************************************************************************)
(* Values.                                                                 *)
(***************************************************************************)

\* The value a stage's clone of x reads for operand p: its own clone's
\* value, the load of p's incoming environment slot, or the value popped
\* for p (remapOperandsOfInstClones).
Read(s, p) ==
    IF p \in StageClones(s) THEN local[s][p]
    ELSE IF p \in Ext THEN env[envIdx[p]]
    ELSE loaded[s][p]

\* The operands a clone of x uses in iteration k, and the value each must
\* have: a phi of the header takes its preheader input in iteration 1 and
\* its latch input, of iteration k - 1, afterwards.
Inputs(x, k) ==
    IF loop.op[x] = "phi"
    THEN IF k = 1 THEN Operands(x) \cap Ext ELSE Operands(x) \cap Inst
    ELSE Operands(x)
Expected(x, p, k) ==
    IF p \in Ext THEN <<p, 0>>
    ELSE IF loop.op[x] = "phi" THEN <<p, k - 1>> ELSE <<p, k>>

\* The value the clone of x computes in stage s in iteration k.
Eval(s, x, k) ==
    IF \A p \in Inputs(x, k) : Read(s, p) = Expected(x, p, k)
    THEN <<x, k>> ELSE Bad

\* The run-time outcome of condition c in iteration j.
Holds(c, j) ==
    IF loop.truth[c] = "trip" THEN j <= trip ELSE j = brkAt

\* Fault variant: the stage's exit block clones are set up for the first
\* loop exit only, so every exit successor lands in the first one.
TargetsFirstExitOnly(s, t) ==
    LET Land(b) == IF b \in Range(loop.exits) THEN loop.exits[1] ELSE b
        c == CHOOSE p \in Operands(t) : TRUE
    IN  IF Len(loop.succ[t]) = 1 THEN {Land(loop.succ[t][1])}
        ELSE IF Read(s, c) \in {Bad, None} THEN {Land(b) : b \in Range(loop.succ[t])}
        ELSE {Land(IF Holds(c, Read(s, c)[2]) THEN loop.succ[t][1] ELSE loop.succ[t][2])}

\* The successors a clone of terminator t may branch to in stage s: it
\* decides on the value it reads for its condition, which names the
\* iteration whose outcome it computes.
Targets(s, t) ==
    IF Len(loop.succ[t]) = 1 THEN {loop.succ[t][1]}
    ELSE LET c == CHOOSE p \in Operands(t) : TRUE
             v == Read(s, c)
         IN  IF v = Bad \/ v = None THEN Range(loop.succ[t])
             ELSE {IF Holds(c, v[2]) THEN loop.succ[t][1] ELSE loop.succ[t][2]}

\* queueSizeToIndex[bitLength] selects the queue primitive; operator[]
\* maps a width without an entry to index 0, the 8-bit queue.
QueuePrimBits(w) ==
    CASE w \in {1, 8} -> 8
      [] w = 16 -> 16
      [] w = 32 -> 32
      [] w = 64 -> 64
      [] OTHER -> 8

\* Bits the value of p occupies (a pointer, bit length 0, takes 64).
ValueBits(p) == IF BitLength(p) = 0 THEN 64 ELSE BitLength(p)

\* A value pushed through a narrower primitive is truncated.
Narrow(q, v) ==
    IF ValueBits(queues[q].producer) > QueuePrimBits(queues[q].width) THEN Bad ELSE v

-----------------------------------------------------------------------------
(***************************************************************************)
(* The pipeline: launch, one operation of one stage, join, assembly.      *)
(***************************************************************************)

\* The instructions each stage's clone of which is the only one: all but
\* the terminators, which every stage clones.
Owned == {x \in Inst : ~IsTerminator(x)}

\* createEnvArrayFromStages: a slot per environment index, the pre-loop
\* producers stored into theirs before the dispatcher is called.
EnvArray == [j \in 1..EnvSize |-> IF j \in preEnv THEN <<envProducers[j], 0>> ELSE None]

\* createStagesArrayFromStages: the stage functions, in stage order.
StageArray == [s \in StageIds |-> StageProgram(s)]

\* createQueueSizesArrayFromStages: one entry per queue; the dispatcher
\* creates each queue empty.
QueueArray == [q \in 1..Len(queues) |-> <<>>]

\* createPipelineFromStages calls the dispatcher with the three arrays; it
\* starts every stage at its clone of the header.
Launch ==
    /\ pc = "done" /\ rpc = "idle"
    /\ \E tr \in TripCounts, bk \in BreakIters : trip' = tr /\ brkAt' = bk
    /\ prog' = StageArray
    /\ at' = [s \in StageIds |-> [blk |-> loop.header, idx |-> 1, iter |-> 1]]
    /\ local' = [s \in StageIds |-> [x \in Inst |-> None]]
    /\ loaded' = [s \in StageIds |-> [x \in Inst |-> None]]
    /\ chan' = QueueArray
    /\ env' = EnvArray
    /\ done' = [x \in Owned |-> 0]
    /\ exitedBy' = [s \in StageIds |-> None]
    /\ rpc' = "running"
    /\ UNCHANGED <<vars, result, dataflow>>

CurOp(s) == prog[s][at[s].blk][at[s].idx]
Advance(s) == [at EXCEPT ![s].idx = @ + 1]

\* A clone that is not a terminator computes its value.
ExecClone(s) ==
    LET o == CurOp(s) IN
    /\ o.kind = "clone" /\ ~IsTerminator(o.x)
    /\ local' = [local EXCEPT ![s][o.x] = Eval(s, o.x, at[s].iter)]
    /\ done' = [done EXCEPT ![o.x] = at[s].iter]
    /\ at' = Advance(s)
    /\ UNCHANGED <<loaded, chan, env, exitedBy>>

\* queuePop blocks while the queue is empty.
ExecPop(s) ==
    LET o == CurOp(s) IN
    /\ o.kind = "pop" /\ chan[o.q] # <<>>
    /\ loaded' = [loaded EXCEPT ![s][o.x] = Head(chan[o.q])]
    /\ chan' = [chan EXCEPT ![o.q] = Tail(@)]
    /\ at' = Advance(s)
    /\ UNCHANGED <<local, env, done, exitedBy>>

\* queuePush blocks while the queue is full.
ExecPush(s) ==
    LET o == CurOp(s) IN
    /\ o.kind = "push" /\ Len(chan[o.q]) < QueueCapacity
    /\ chan' = [chan EXCEPT ![o.q] = Append(@, Narrow(o.q, local[s][o.x]))]
    /\ at' = Advance(s)
    /\ UNCHANGED <<local, loaded, env, done, exitedBy>>

\* The store of a live-out into its outgoing environment slot.
ExecStore(s) ==
    LET o == CurOp(s) IN
    /\ o.kind = "store"
    /\ env' = [env EXCEPT ![o.slot] = local[s][o.x]]
    /\ at' = Advance(s)
    /\ UNCHANGED <<local, loaded, chan, done, exitedBy>>

\* A branch clone goes to the stage's clone of a successor (remapControlFlow).
\* Reaching the clone of exit block j stores j - 1 into the exit slot and
\* returns; reaching the header starts the next iteration.
ExecBranch(s) ==
    LET o == CurOp(s) IN
    /\ o.kind = "clone" /\ loop.op[o.x] = "br"
    /\ \E nb \in Targets(s, o.x) :
         IF nb \in Range(loop.exits)
         THEN /\ env' = [env EXCEPT ![ExitSlot] =
                           ExitId(CHOOSE j \in 0..(Len(loop.exits) - 1) : loop.exits[j + 1] = nb)]
              /\ at' = [at EXCEPT ![s] = [@ EXCEPT !.blk = "end"]]
              /\ exitedBy' = [exitedBy EXCEPT ![s] = nb]
         ELSE /\ nb = loop.header => at[s].iter < MaxIter
              /\ at' = [at EXCEPT ![s] =
                          [blk |-> nb, idx |-> 1,
                           iter |-> IF nb = loop.header THEN @.iter + 1 ELSE @.iter]]
              /\ UNCHANGED <<env, exitedBy>>
    /\ UNCHANGED <<local, loaded, chan, done>>

\* rerouteAndStoreRetInEnv: a ret clone stores the returned value (when the
\* environment has a return slot) and the exit index Len(exits), and returns.
ExecReturn(s) ==
    LET o == CurOp(s) IN
    /\ o.kind = "clone" /\ loop.op[o.x] = "ret"
    /\ env' = [env EXCEPT
                 ![RetSlot] = IF hasRet THEN Read(s, CHOOSE p \in Operands(o.x) : TRUE) ELSE @,
                 ![ExitSlot] = ExitId(Len(loop.exits))]
    /\ at' = [at EXCEPT ![s] = [@ EXCEPT !.blk = "end"]]
    /\ exitedBy' = [exitedBy EXCEPT ![s] = "ret"]
    /\ UNCHANGED <<local, loaded, chan, done>>

StageStep(s) ==
    /\ rpc = "running"
    /\ at[s].blk # "end"
    /\ \/ ExecClone(s) \/ ExecPop(s) \/ ExecPush(s) \/ ExecStore(s)
       \/ ExecBranch(s) \/ ExecReturn(s)
    /\ UNCHANGED <<vars, rpc, trip, brkAt, prog, result, dataflow>>

\* stageDispatcher returns once every stage has returned.
Join ==
    /\ rpc = "running"
    /\ \A s \in StageIds : at[s].blk = "end"
    /\ rpc' = "joined"
    /\ UNCHANGED <<vars, trip, brkAt, prog, at, local, loaded, chan, env, result, done, exitedBy, dataflow>>

\* What createPipelineFromStages emits after the dispatcher call when the
\* loop contains a ret: the return block is created and a switch case added
\* for it, but the load of the return slot and the ret (or ret void) are
\* emitted through builder, into pipelineBB after its switch; only the
\* address computation goes through returnBuilder into the return block.
PipelineBBTail ==
    <<"switch">> \o (IF loop.rets = <<>> THEN <<>>
                     ELSE IF ~hasRet THEN <<"retvoid">> ELSE <<"load", "load", "ret">>)
ReturnBlockCode ==
    IF loop.rets # <<>> /\ hasRet THEN <<"gep">> ELSE <<>>

\* The value the loop's (first) ret returns.
RetOperand == CHOOSE p \in Operands(loop.rets[1]) : TRUE

\* The loop's LCSSA phis and the loop value each takes.
LiveOutUsers == {x \in Ext : \E p \in Inst : <<p, x>> \in loop.data}
ProducerOf(x) == CHOOSE p \in Inst : <<p, x>> \in loop.data

\* The exit the switch on the exit slot takes: loopExitBlocks[0] is the
\* default, case j goes to loopExitBlocks[j], case Len(exits) to the return
\* block when the loop has a ret.
SwitchTarget(v) ==
    LET e == IF v[1] = "exit" THEN v[2] ELSE 0
    IN  IF e \in 1..(Len(loop.exits) - 1) THEN loop.exits[e + 1]
        ELSE IF loop.rets # <<>> /\ e = Len(loop.exits) THEN "returnBlock"
        ELSE loop.exits[1]

\* createPipelineFromStages and storeOutgoingDependentsIntoExternalValues:
\* every LCSSA phi gets the value of its producer's slot, control goes where
\* the exit slot says, and the return block returns what its code returns
\* (Bad: the block has no return and control runs off its end).
Assemble ==
    /\ rpc = "joined"
    /\ LET target == SwitchTarget(env[ExitSlot])
       IN  result' =
             [exit |-> target,
              live |-> [x \in LiveOutUsers |-> env[envIdx[ProducerOf(x)]]],
              ret |-> IF target # "returnBlock" THEN None
                      ELSE IF "ret" \in Range(ReturnBlockCode) THEN env[RetSlot]
                      ELSE IF "retvoid" \in Range(ReturnBlockCode) THEN None
                      ELSE Bad]
    /\ rpc' = "returned"
    /\ UNCHANGED <<vars, trip, brkAt, prog, at, local, loaded, chan, env, done, exitedBy, dataflow>>

-----------------------------------------------------------------------------
(***************************************************************************)
(* The original loop run sequentially: the exit it leaves by and the      *)
(* iteration it leaves in.                                                 *)
(***************************************************************************)
RECURSIVE SeqWalk(_, _, _)
SeqWalk(b, k, fuel) ==
    LET t == TermOf(b)
        nb == IF Len(loop.succ[t]) = 1 THEN loop.succ[t][1]
              ELSE IF Holds(CHOOSE c \in Operands(t) : TRUE, k)
                   THEN loop.succ[t][1] ELSE loop.succ[t][2]
    IN  IF loop.op[t] = "ret" THEN [exit |-> "ret", iter |-> k]
        ELSE IF nb \in Range(loop.exits) THEN [exit |-> nb, iter |-> k]
        ELSE IF fuel = 0 THEN [exit |-> None, iter |-> k]
        ELSE SeqWalk(nb, IF nb = loop.header THEN k + 1 ELSE k, fuel - 1)

Sequential == SeqWalk(loop.header, 1, MaxIter * Len(loop.blocks))

-----------------------------------------------------------------------------

\* How many iterations the later end of dependence e may run ahead of the
\* earlier one in sequential order: none when it follows it in the loop
\* body, one when it precedes it (a phi's latch input, or a loop-carried
\* memory dependence).
Lag(e) == IF loop.pos[e[1]] < loop.pos[e[2]] THEN 0 ELSE 1

\* The loop's dependences between owned instructions: the values they use
\* and the memory accesses they must follow (the PDG's data edges).
DataflowGraph ==
    [insts |-> Owned,
     deps |-> {[from |-> e[1], to |-> e[2], lag |-> Lag(e)] :
                 e \in {e \in loop.data \cup loop.mem : e[1] \in Owned /\ e[2] \in Owned}}]

RunInit ==
    /\ rpc = "idle" /\ trip = 0 /\ brkAt = 0 /\ prog = <<>> /\ at = <<>>
    /\ local = <<>> /\ loaded = <<>> /\ chan = <<>> /\ env = <<>> /\ result = None
    /\ done = <<>> /\ exitedBy = <<>>
    /\ dataflow = DataflowGraph

PipelineInit == Init /\ RunInit

\* The pass, or the pipeline, is over.
PipelineFinished ==
    /\ pc \in {"notWorth", "crash"} \/ rpc = "returned"
    /\ UNCHANGED allVars

PipelineNext ==
    \/ PartitionNext /\ UNCHANGED runVars
    \/ Launch
    \/ \E s \in StageIds : StageStep(s)
    \/ Join
    \/ Assemble
    \/ PipelineFinished

-----------------------------------------------------------------------------
(* Properties *)

\* After the pipeline returns, the function continues exactly where the
\* sequential loop would: at the same exit (or returning the same value),
\* with every LCSSA phi of that exit holding its producer's value from the
\* last iteration (section 1: the stages reproduce the sequential results).
PipelineEquivalent ==
    rpc = "returned" =>
        LET seq == Sequential IN
        /\ seq.exit = "ret" =>
             /\ result.exit = "returnBlock"
             /\ result.ret = IF hasRet THEN <<RetOperand, seq.iter>> ELSE None
        /\ seq.exit # "ret" =>
             /\ result.exit = seq.exit
             /\ \A x \in LiveOutUsers :
                  loop.at[x] = seq.exit => result.live[x] = <<ProducerOf(x), seq.iter>>

\* Before the pipeline starts no clone has run.
DoneMap == IF rpc = "idle" THEN [x \in Owned |-> 0] ELSE done

Dataflow == INSTANCE DataflowLoop WITH graph <- dataflow, done <- DoneMap, MaxRuns <- MaxIter

\* The stages' clones run the loop's instructions in an order the loop's
\* dependences allow: every clone runs each iteration once, in order, and
\* only after the producers of the values it uses and the memory accesses
\* it must follow have run the iterations it needs.  Between stages this
\* is enforced only by the pops (popValueQueues), placed before the first
\* consumer, and by the value queue a release build registers for a memory
\* dependence (DSWP.cpp:346, the assert compiled out).
DataflowRefined == Dataflow!AbsSpec

\* Every stage thread leaves by the exit the sequential loop leaves by, in
\* the same iteration.  Each stage clones every exit block and stores its
\* own exit index into the one shared exit slot (DSWP.cpp:553, and
\* rerouteAndStoreRetInEnv for a ret); the switch after the dispatcher sees
\* only the last store, so a stage that left early or by another exit can be
\* hidden by a later, correct store of another stage.
StagesLeaveTogether ==
    rpc \in {"joined", "returned"} =>
        LET seq == Sequential IN
        \A s \in StageIds : exitedBy[s] = seq.exit /\ at[s].iter = seq.iter

\* When all stages have returned, no value is left in any queue: every
\* stage pops each of its queues in exactly the iterations its producer
\* pushes it (section 5, one value in flight per logical use).
QueuesDrained ==
    rpc \in {"joined", "returned"} => \A q \in 1..Len(queues) : chan[q] = <<>>

\* Every pop receives the value its producer computed in the iteration the
\* popping stage is in: pushes and pops of a queue stay in lockstep.
PopsInLockstep ==
    [][\A s \in StageIds :
         (rpc = "running" /\ at[s].blk # "end" /\ ExecPop(s)) =>
            loaded'[s][CurOp(s).x] = <<CurOp(s).x, at[s].iter>>]_allVars

=============================================================================
