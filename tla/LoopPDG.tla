------------------------------ MODULE LoopPDG ------------------------------
(***************************************************************************)
(* The loop that DSWP is asked to parallelize, as the dependence analysis  *)
(* hands it over: the loop's instructions grouped in basic blocks, the     *)
(* program dependence graph (PDG) over them with data, memory and control  *)
(* edges, the values outside the loop that the loop exchanges data with   *)
(* (live-ins and the LCSSA phis that consume live-outs), and the SCC      *)
(* decomposition of the PDG.  The PDG, the SCC DAG and LoopDependenceInfo  *)
(* are not part of this repository's sources; they are modelled from the  *)
(* input contract of the specification (section 6).                        *)
(*                                                                         *)
(* A loop is a record                                                      *)
(*   inst    the loop-internal instructions                                *)
(*   ext     the values outside the loop connected to it by an edge        *)
(*   op      inst -> "phi" | "cmp" | "br" | "ret" | "other"                *)
(*   blk     inst -> its basic block;  pos  inst -> program position      *)
(*   data, mem, ctrl   PDG edges <<producer, consumer>>                    *)
(*   width   value -> bit width of its type (0 for void and pointers)      *)
(*   blocks  the loop's basic blocks (LDI->loopBBs), header first         *)
(*   exits   the exit blocks outside the loop (LDI->loopExitBlocks)        *)
(*   rets    the return instructions inside the loop (loopReturnInsts)    *)
(*   succ    terminator -> its successor blocks (true successor first)    *)
(*   at      boundary value -> "pre" for live-ins, else the exit block    *)
(*           whose LCSSA phi it is                                        *)
(*   sccs    the strongly connected components of the PDG over inst      *)
(*   truth   condition -> "trip" (true while iterations remain) or "brk"  *)
(*           (true in the iteration the loop breaks out); the run-time    *)
(*           meaning of the branch conditions, used by DSWPPipeline.      *)
(* The loop is chosen once, in Init, and never changes.                    *)
(***************************************************************************)
EXTENDS Integers, Sequences, FiniteSets, Functions, Graphs

CONSTANT Loops

VARIABLE loop

Opcodes == {"phi", "cmp", "br", "ret", "other"}

Inst == loop.inst
Ext == loop.ext

\* TerminatorInst: the instructions that end a basic block.
IsTerminator(x) == x \in Inst /\ loop.op[x] \in {"br", "ret"}
Terminators == {x \in Inst : IsTerminator(x)}

\* Instructions of basic block b in program order.
BlockInsts(b) == {x \in Inst : loop.blk[x] = b}
InstsAfter(x) == {y \in BlockInsts(loop.blk[x]) : loop.pos[y] > loop.pos[x]}

PDGEdges == loop.data \cup loop.mem \cup loop.ctrl

\* Producers of the data operands of instruction x (inside or outside the loop).
Operands(x) == {p \in Inst \cup Ext : <<p, x>> \in loop.data}

\* QueueInfo::bitLength, the primitive size in bits of the producer's type.
BitLength(p) == loop.width[p]

(***************************************************************************)
(* SCC decomposition of a loop's PDG (handed to the pass as the field     *)
(* sccs, the nodes of LDI->loopSCCDAG) and the SCC DAG over a set of       *)
(* nodes, each node a set of instructions.  Merging nodes (SCCDAG's        *)
(* mergeSCCs) unions their instructions, and the DAG edges are recomputed  *)
(* from the instruction-level edges.                                       *)
(***************************************************************************)
SCCsOf(l) ==
    LET reach == ConnectionsIn([node |-> l.inst,
                                edge |-> (l.data \cup l.mem \cup l.ctrl) \cap (l.inst \X l.inst)])
    IN  {{y \in l.inst : reach[x, y] /\ reach[y, x]} : x \in l.inst}

LoopSCCs == loop.sccs

SCCDAG(nodes) ==
    [node |-> nodes,
     edge |-> {e \in nodes \X nodes :
                 e[1] # e[2] /\ \E a \in e[1], b \in e[2] : <<a, b>> \in PDGEdges}]

(***************************************************************************)
(* What every loop handed to the pass satisfies: single-entry canonical    *)
(* form, every block ends in exactly one terminator, every value outside   *)
(* the loop consumes at most one loop value (LCSSA with one exiting block  *)
(* per exit), and edges only connect instructions and boundary values.     *)
(***************************************************************************)
WellFormedLoop(l) ==
    /\ l.op \in [l.inst -> Opcodes]
    /\ l.blk \in [l.inst -> Range(l.blocks)]
    /\ l.pos \in [l.inst -> Nat]
    /\ \A x, y \in l.inst : x # y => l.pos[x] # l.pos[y]
    /\ \A b \in Range(l.blocks) :
         \E t \in l.inst :
            /\ l.blk[t] = b /\ l.op[t] \in {"br", "ret"}
            /\ \A y \in l.inst : l.blk[y] = b /\ y # t =>
                  l.op[y] \notin {"br", "ret"} /\ l.pos[y] < l.pos[t]
    /\ l.blocks[1] = l.header
    /\ (l.data \cup l.mem \cup l.ctrl) \subseteq
          ((l.inst \cup l.ext) \X (l.inst \cup l.ext))
    /\ \A x \in l.ext : Cardinality({p \in l.inst : <<p, x>> \in l.data}) <= 1
    /\ \A t \in l.inst : l.op[t] = "br" => t \in DOMAIN l.succ
    /\ Range(l.rets) = {t \in l.inst : l.op[t] = "ret"}
    /\ l.sccs = SCCsOf(l)
    /\ \A e \in l.data : e[1] \in l.inst => l.op[e[1]] \notin {"br", "ret"}
    /\ \A x \in l.inst : l.op[x] = "phi" => l.blk[x] = l.header

ASSUME \A l \in Loops : WellFormedLoop(l)

=============================================================================
