--------------------------- MODULE DGSimplifyOrder ---------------------------
(***************************************************************************)
(* DGSimplify's ordering of the functions of a module by call depth      *)
(* (src/passes/dgsimplify/src/DGSimplify.cpp): collectFnGraph, a BFS of   *)
(* the call graph from main recording every caller of every function, and *)
(* collectInDepthOrderFns, a second BFS that orders a function once all   *)
(* its callers are ordered and defers it otherwise; functions still       *)
(* deferred when the queue runs dry are taken as entries of recursive     *)
(* chains, ordered, and traversed.  The order decides which calls the    *)
(* inliner may inline (inlineCallsInMassiveSCCs, inlineFunctionCall).     *)
(*                                                                         *)
(* The call graph is the variable calls, chosen in Init and never changed: *)
(* calls[f] is the sequence of f's call records in the order callGraph[f] *)
(* lists them, each <<callee, kind>>: kind is "call" for a call           *)
(* instruction and "invoke" for an invoke.                                 *)
(***************************************************************************)
EXTENDS Integers, Sequences, FiniteSets, SequencesExt, Graphs

CONSTANTS
    Fns,        \* the functions with a body
    Main,       \* main, where both traversals start
    CallGraphs  \* the call graphs to check: [Fns -> Seq(Fns \X Kinds)]

Kinds == {"call", "invoke"}

ASSUME Main \in Fns /\ CallGraphs \subseteq [Fns -> Seq(Fns \X Kinds)]

VARIABLES
    calls,            \* the call graph
    phase,            \* "graph" (collectFnGraph), "order", "done"
    queue,            \* funcToTraverse of the running traversal
    reached,          \* reached of the running traversal
    func,             \* the function whose call records are being visited
    records,          \* its call records not yet visited
    parentFns,        \* parentFns
    childrenFns,      \* the callees recorded in childrenFns
    depthOrderedFns,  \* depthOrderedFns; fnOrders[f] is f's index in it
    deferred,         \* deferred
    recEntries,       \* recursiveChainEntranceFns
    flushing,         \* the loop over deferred functions is running
    toFlush,          \* the deferred functions it has not visited yet
    remaining         \* remaining

vars == <<calls, phase, queue, reached, func, records, parentFns, childrenFns,
          depthOrderedFns, deferred, recEntries, flushing, toFlush, remaining>>

\* The callees of f's records.
Callees(f) == {r[1] : r \in Range(calls[f])}

CallGraph == [node |-> Fns, edge |-> {<<f, g>> \in Fns \X Fns : g \in Callees(f)}]

\* fnOrders: a function's depth index, defined once it is ordered.
Ordered(f) == f \in Range(depthOrderedFns)
FnOrder(f) == CHOOSE i \in DOMAIN depthOrderedFns : depthOrderedFns[i] = f

-----------------------------------------------------------------------------
(***************************************************************************)
(* collectFnGraph                                                          *)
(***************************************************************************)

\* The while loop takes the next function off funcToTraverse; its call
\* records are visited in program order.
GraphVisit ==
    /\ phase = "graph"
    /\ records = <<>> /\ queue # <<>>
    /\ func' = Head(queue)
    /\ queue' = Tail(queue)
    /\ records' = calls[Head(queue)]
    /\ UNCHANGED <<calls, phase, reached, parentFns, childrenFns, depthOrderedFns,
                   deferred, recEntries, flushing, toFlush, remaining>>

\* A record that is not a call instruction is skipped (isa<CallInst>).
GraphSkip ==
    /\ phase = "graph"
    /\ records # <<>> /\ Head(records)[2] # "call"
    /\ records' = Tail(records)
    /\ UNCHANGED <<calls, phase, queue, reached, func, parentFns, childrenFns,
                   depthOrderedFns, deferred, recEntries, flushing, toFlush, remaining>>

\* One call record: addFnPairInstance, then the callee is queued the first
\* time it is reached.
GraphCall ==
    LET f == Head(records)[1] IN
    /\ phase = "graph"
    /\ records # <<>> /\ Head(records)[2] = "call"
    /\ parentFns' = [parentFns EXCEPT ![f] = @ \cup {func}]
    /\ childrenFns' = [childrenFns EXCEPT ![func] = @ \cup {f}]
    /\ reached' = reached \cup {f}
    /\ queue' = IF f \in reached THEN queue ELSE Append(queue, f)
    /\ records' = Tail(records)
    /\ UNCHANGED <<calls, phase, func, depthOrderedFns, deferred, recEntries,
                   flushing, toFlush, remaining>>

\* collectFnGraph returns; collectInDepthOrderFns starts from main, which
\* gets order 0.
GraphDone ==
    /\ phase = "graph"
    /\ records = <<>> /\ queue = <<>>
    /\ phase' = "order"
    /\ queue' = <<Main>>
    /\ reached' = {Main}
    /\ depthOrderedFns' = <<Main>>
    /\ deferred' = <<>>
    /\ UNCHANGED <<calls, func, records, parentFns, childrenFns, recEntries,
                   flushing, toFlush, remaining>>

-----------------------------------------------------------------------------
(***************************************************************************)
(* collectInDepthOrderFns                                                  *)
(***************************************************************************)

\* The inner while loop takes the next function off funcToTraverse.
OrderVisit ==
    /\ phase = "order" /\ ~flushing
    /\ records = <<>> /\ queue # <<>>
    /\ func' = Head(queue)
    /\ queue' = Tail(queue)
    /\ records' = calls[Head(queue)]
    /\ UNCHANGED <<calls, phase, reached, parentFns, childrenFns, depthOrderedFns,
                   deferred, recEntries, flushing, toFlush, remaining>>

\* Fault variant: a callee already reached is considered again.
OrderCallNoReachedCheck ==
    LET f == Head(records)[1]
        allParentsOrdered == parentFns[f] \subseteq reached
    IN
    /\ phase = "order"
    /\ records # <<>>
    /\ records' = Tail(records)
    /\ IF allParentsOrdered
       THEN /\ queue' = Append(queue, f)
            /\ depthOrderedFns' = Append(depthOrderedFns, f)
            /\ reached' = reached \cup {f}
            /\ UNCHANGED deferred
       ELSE /\ deferred' = Append(deferred, f)
            /\ UNCHANGED <<queue, reached, depthOrderedFns>>
    /\ UNCHANGED <<calls, phase, func, parentFns, childrenFns, recEntries,
                   flushing, toFlush, remaining>>

\* One call record: a callee not reached yet is ordered and queued when all
\* its parents are reached, and deferred otherwise.
OrderCall ==
    LET f == Head(records)[1]
        allParentsOrdered == parentFns[f] \subseteq reached
    IN
    /\ phase = "order"
    /\ records # <<>>
    /\ records' = Tail(records)
    /\ IF f \in reached
       THEN UNCHANGED <<queue, reached, depthOrderedFns, deferred>>
       ELSE IF allParentsOrdered
       THEN /\ queue' = Append(queue, f)
            /\ depthOrderedFns' = Append(depthOrderedFns, f)
            /\ reached' = reached \cup {f}
            /\ UNCHANGED deferred
       ELSE /\ deferred' = Append(deferred, f)
            /\ UNCHANGED <<queue, reached, depthOrderedFns>>
    /\ UNCHANGED <<calls, phase, func, parentFns, childrenFns, recEntries,
                   flushing, toFlush, remaining>>

\* The inner loop has run dry: the loop over the deferred functions starts.
FlushStart ==
    /\ phase = "order" /\ ~flushing
    /\ records = <<>> /\ queue = <<>>
    /\ flushing' = TRUE
    /\ toFlush' = deferred
    /\ remaining' = <<>>
    /\ UNCHANGED <<calls, phase, queue, reached, func, records, parentFns,
                   childrenFns, depthOrderedFns, deferred, recEntries>>

\* Fault variant: the recursive chain entrance is ordered but not queued.
FlushOneNoTraverse ==
    LET left == Head(toFlush) IN
    /\ flushing /\ toFlush # <<>>
    /\ toFlush' = Tail(toFlush)
    /\ IF Ordered(left)
       THEN UNCHANGED <<recEntries, remaining, queue, depthOrderedFns, reached>>
       ELSE /\ recEntries' = recEntries \cup {left}
            /\ remaining' = Append(remaining, left)
            /\ depthOrderedFns' = Append(depthOrderedFns, left)
            /\ reached' = reached \cup {left}
            /\ UNCHANGED queue
    /\ UNCHANGED <<calls, phase, func, records, parentFns, childrenFns,
                   deferred, flushing>>

\* One deferred function: if it never got ordered it becomes a recursive
\* chain entrance, is ordered and is queued.
FlushOne ==
    LET left == Head(toFlush) IN
    /\ flushing /\ toFlush # <<>>
    /\ toFlush' = Tail(toFlush)
    /\ IF Ordered(left)
       THEN UNCHANGED <<recEntries, remaining, queue, depthOrderedFns, reached>>
       ELSE /\ recEntries' = recEntries \cup {left}
            /\ remaining' = Append(remaining, left)
            /\ queue' = Append(queue, left)
            /\ depthOrderedFns' = Append(depthOrderedFns, left)
            /\ reached' = reached \cup {left}
    /\ UNCHANGED <<calls, phase, func, records, parentFns, childrenFns,
                   deferred, flushing>>

\* deferred = remaining; the outer loop ends when nothing was queued.
FlushEnd ==
    /\ flushing /\ toFlush = <<>>
    /\ flushing' = FALSE
    /\ deferred' = remaining
    /\ phase' = IF queue = <<>> THEN "done" ELSE "order"
    /\ UNCHANGED <<calls, queue, reached, func, records, parentFns, childrenFns,
                   depthOrderedFns, recEntries, toFlush, remaining>>

-----------------------------------------------------------------------------

Init ==
    /\ calls \in CallGraphs
    /\ phase = "graph"
    /\ queue = <<Main>>
    /\ reached = {Main}
    /\ func = Main
    /\ records = <<>>
    /\ parentFns = [f \in Fns |-> {}]
    /\ childrenFns = [f \in Fns |-> {}]
    /\ depthOrderedFns = <<>>
    /\ deferred = <<>>
    /\ recEntries = {}
    /\ flushing = FALSE
    /\ toFlush = <<>>
    /\ remaining = <<>>

Done == phase = "done" /\ UNCHANGED vars

Next ==
    \/ GraphVisit \/ GraphSkip \/ GraphCall \/ GraphDone
    \/ OrderVisit \/ OrderCall \/ FlushStart \/ FlushOne \/ FlushEnd
    \/ Done

Spec == Init /\ [][Next]_vars /\ WF_vars(Next)

-----------------------------------------------------------------------------
(* Properties *)

Reach == ConnectionsIn(CallGraph)
Reachable == {f \in Fns : Reach[Main, f]}

\* A function lies on a call cycle: it calls something that reaches it.
OnCycle(f) == \E g \in Callees(f) : Reach[g, f]

TypeOK ==
    /\ phase \in {"graph", "order", "done"}
    /\ queue \in Seq(Fns) /\ records \in Seq(Fns \X Kinds)
    /\ reached \subseteq Fns
    /\ parentFns \in [Fns -> SUBSET Fns] /\ childrenFns \in [Fns -> SUBSET Fns]
    /\ depthOrderedFns \in Seq(Fns) /\ Len(depthOrderedFns) <= Cardinality(Fns)
    /\ deferred \in Seq(Fns) /\ toFlush \in Seq(Fns) /\ remaining \in Seq(Fns)
    /\ recEntries \subseteq Fns
    /\ flushing \in BOOLEAN

\* When the ordering ends, depthOrderedFns lists every function reachable
\* from main, through calls or invokes, exactly once: getLoopsToInline and
\* registerRemainingLoops index functions by fnOrders.  collectFnGraph
\* skips invoke records, so a function reached only through an invoke has
\* no parents and the one it invokes misses it as one; the ordering must
\* still reach each of them once.
DepthOrderComplete ==
    phase = "done" =>
        /\ Range(depthOrderedFns) = Reachable
        /\ Len(depthOrderedFns) = Cardinality(Reachable)

\* The comment at collectInDepthOrderFns: "Collect all deferred functions
\* that never got ordered. By definition of the ordering, they must all be
\* parts of recursive chains."  inlineFunctionCall refuses every call to
\* a recursive chain entrance.
EntrancesAreRecursive ==
    phase = "done" => \A f \in recEntries : OnCycle(f)

=============================================================================
