---------------------------- MODULE MCDSWPModule ----------------------------
(***************************************************************************)
(* Modules for DSWPModule, built from the loops of MCDSWP.                 *)
(***************************************************************************)
EXTENDS MCDSWP, DSWPModule

LoopOf(f, l) == [fn |-> f, l |-> l]

\* Every partition loop alone in a module that links the runtime.
SingleLoopModules ==
    {[loops |-> <<LoopOf("f", l)>>, runtime |-> TRUE] : l \in PartitionLoops}

\* f has two loops, the first transformed and the second (one SCC) not;
\* h's loop is transformed, and g's, tried last, is not worth it.
MixedModule ==
    [loops |-> <<LoopOf("f", Base), LoopOf("f", Collapsed), LoopOf("h", MemCarried),
                 LoopOf("g", Collapsed)>>,
     runtime |-> TRUE]

\* A module with no loops, and one compiled without the DSWP runtime.
EmptyModule == [loops |-> <<>>, runtime |-> TRUE]
NoRuntimeModule == [loops |-> <<LoopOf("f", Base)>>, runtime |-> FALSE]

MCModules == SingleLoopModules \cup {MixedModule, EmptyModule, NoRuntimeModule}

=============================================================================
