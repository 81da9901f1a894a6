--------------------------- MODULE DGSimplifyDriver ---------------------------
(***************************************************************************)
(* DGSimplify in its inlining mode (dgsimplify_do_scc_call_inline.txt      *)
(* present), run again and again while it writes dgsimplify_continue.txt   *)
(* (src/passes/dgsimplify/src/DGSimplify.cpp, runOnModule).  One run:      *)
(*   - orders the functions (collectFnGraph, collectInDepthOrderFns: the  *)
(*     actions of DGSimplifyOrder on the current call sites);              *)
(*   - loads the loops to check (getLoopsToInline): the <fn index, loop    *)
(*     index> lines of dgsimplify_scc_call_inlining.txt, or every loop     *)
(*     when there is no such file;                                         *)
(*   - visits the functions deepest first (inlineCallsInMassiveSCCsOfLoops)*)
(*     and inlines at most one call inside a checked loop per function     *)
(*     (inlineCallsInMassiveSCCs, inlineFunctionCall,                      *)
(*     adjustOrdersAfterInline);                                           *)
(*   - writes the loops still to check back by fnOrders and summary id     *)
(*     (registerRemainingLoops) and asks for another run if any remain.    *)
(*                                                                         *)
(* A function body is the sequence of what matters to the pass, in      *)
(* program order: call instructions [kind |-> "call", x |-> callee] and   *)
(* the brackets of its loops, [kind |-> "loop", x |-> the loop's identity] *)
(* and [kind |-> "end"]; loops nest.  A loop's id (LoopSummary::id) is its *)
(* position among the loop brackets, LoopInfo's preorder.  The identity    *)
(* only lets the properties follow a loop across runs.  Which call of a   *)
(* loop the SCC heuristic picks (memory edge counts of non-clonable SCCs) *)
(* is a nondeterministic choice among the calls the code admits, or none; *)
(* so is the iteration order of the std::set of summaries of a function.  *)
(***************************************************************************)
EXTENDS Integers, Sequences, FiniteSets, SequencesExt

CONSTANTS
    Fns,        \* the functions with a body
    Main,       \* main
    Programs    \* the programs: the body of each function

VARIABLES
    body,        \* body[f]: f's calls and loop brackets in program order
    \* DGSimplifyOrder's variables
    phase, queue, reached, func, records, parentFns, childrenFns,
    depthOrderedFns, deferred, recEntries, flushing, toFlush, remaining,
    dphase,      \* "order", "inline", "stop" (no continue file), "crash"
    file,        \* dgsimplify_scc_call_inlining.txt: <<>> when absent, else <<its lines>>
    ltcKeys,     \* the functions loopsToCheck has an entry for
    ltc,         \* ltc[f]: the summaries in loopsToCheck[f], [id, lid]
    fnsToCheck,  \* the functions not visited yet, deepest first
    fnsToAvoid,  \* fnsToAvoid
    fnsAffected, \* fnsAffected
    inFn,        \* a function's summaries are being visited
    curFn,       \* that function
    pending,     \* its summaries not visited yet
    removed,     \* removeSummaries
    loaded,      \* history: the loops this run checks, as <<f, summary>>
    declined,    \* history: the loops this run declined, as <<f, summary>>
    registered   \* history: the loops the previous run left, as <<f, identity>>

orderVars == <<phase, queue, reached, func, records, parentFns, childrenFns,
               depthOrderedFns, deferred, recEntries, flushing, toFlush, remaining>>
runVars == <<dphase, file, ltcKeys, ltc, fnsToCheck, fnsToAvoid, fnsAffected,
             inFn, curFn, pending, removed, loaded, declined, registered>>
vars == <<body, orderVars, runVars>>

Positions(bd, kind) == SelectSeq([p \in 1..Len(bd) |-> p], LAMBDA p : bd[p].kind = kind)

\* callGraph[f]: the records of f's call instructions, in program order.
CallsOf(bd) == [f \in Fns |-> LET ps == Positions(bd[f], "call")
                              IN  [j \in 1..Len(ps) |-> <<bd[f][ps[j]].x, "call">>]]

O == INSTANCE DGSimplifyOrder
        WITH calls <- CallsOf(body),
             CallGraphs <- {CallsOf(p) : p \in Programs}

\* fnOrders, 0-based.
FnInd(f) == O!FnOrder(f) - 1

\* collectPreOrderedLoopsFor: the LoopSummary of each loop of f, in
\* preorder; its id is its index.
Summaries(f) ==
    LET ls == Positions(body[f], "loop")
    IN  [k \in 0..(Len(ls) - 1) |-> [id |-> k, lid |-> body[f][ls[k + 1]].x]]
LoopCount(f) == Len(Positions(body[f], "loop"))

\* The loops open at position p of a body.
Depth(bd, p) ==
    Cardinality({q \in 1..(p - 1) : bd[q].kind = "loop"})
    - Cardinality({q \in 1..(p - 1) : bd[q].kind = "end"})

\* Position p of bd lies inside loop id: after its header and before the
\* first bracket after it that closes it.
InLoop(bd, id, p) ==
    LET h == Positions(bd, "loop")[id + 1]
    IN  /\ h < p
        /\ \A q \in (h + 1)..p : bd[q].kind = "end" => Depth(bd, q) > Depth(bd, h) + 1

\* loopsToCheck as the set of <<function, summary>> it holds.
Pairs(keys, l) == UNION {{<<f, s>> : s \in l[f]} : f \in keys}

\* InlineFunction: the call at position p of F is replaced by the callee's
\* body; each loop copied gets an identity of its own.
InlineAt(F, p, g) ==
    LET n == LoopCount(F)
        Copy(t) == IF t.kind = "loop" THEN [kind |-> "loop", x |-> <<F, n, t.x>>] ELSE t
    IN  SubSeq(body[F], 1, p - 1)
        \o [j \in DOMAIN body[g] |-> Copy(body[g][j])]
        \o SubSeq(body[F], p + 1, Len(body[F]))

\* Fault variant: every ordered function is visited, not only those of
\* loopsToCheck.
FnsToCheckAll(ord, keys) == Reverse(ord)

\* fnsToCheck: the functions of loopsToCheck sorted deepest first.
FnsToCheck(ord, keys) == SelectSeq(Reverse(ord), LAMBDA f : f \in keys)

-----------------------------------------------------------------------------

\* The ordering of one run.
OrderStep ==
    /\ dphase = "order"
    /\ UNCHANGED <<body, runVars>>
    /\ \/ O!GraphVisit \/ O!GraphSkip \/ O!GraphCall \/ O!GraphDone
       \/ O!OrderVisit \/ O!OrderCall \/ O!FlushStart \/ O!FlushOne \/ O!FlushEnd

\* getLoopsToInline, after collectPreOrderedLoopsFor, and the sort of
\* inlineCallsInMassiveSCCsOfLoops.  A line whose function index is past
\* depthOrderedFns, names a function without loops (preOrderedLoops[F] is
\* a null vector) or a loop index past its loops ends the run.
Load ==
    LET ord == depthOrderedFns
        withLoops == {f \in Range(ord) : LoopCount(f) > 0}
        FnAt(e) == ord[e[1] + 1]
        BadLine(e) == e[1] >= Len(ord) \/ e[2] >= LoopCount(FnAt(e))
        keys == IF file = <<>> THEN withLoops ELSE {FnAt(e) : e \in file[1]}
        l == IF file = <<>>
             THEN [f \in Fns |-> IF f \in withLoops THEN Range(Summaries(f)) ELSE {}]
             ELSE [f \in Fns |-> {Summaries(f)[e[2]] : e \in {e \in file[1] : FnAt(e) = f}}]
    IN
    /\ dphase = "order" /\ phase = "done"
    /\ IF file # <<>> /\ \E e \in file[1] : BadLine(e)
       THEN /\ dphase' = "crash"
            /\ loaded' = {}
            /\ UNCHANGED <<ltcKeys, ltc, fnsToCheck>>
       ELSE /\ dphase' = "inline"
            /\ ltcKeys' = keys
            /\ ltc' = l
            /\ loaded' = Pairs(keys, l)
            /\ fnsToCheck' = FnsToCheck(ord, keys)
    /\ fnsToAvoid' = {} /\ fnsAffected' = {} /\ declined' = {}
    /\ UNCHANGED <<body, orderVars, file, inFn, curFn, pending, removed, registered>>

\* The loop over fnsToCheck: a function whose parent was inlined into is
\* skipped; otherwise its summaries are visited.
StartFn ==
    LET F == Head(fnsToCheck) IN
    /\ dphase = "inline" /\ ~inFn /\ fnsToCheck # <<>>
    /\ IF F \in fnsToAvoid
       THEN /\ fnsToCheck' = Tail(fnsToCheck)
            /\ UNCHANGED <<inFn, curFn, pending, removed>>
       ELSE /\ inFn' = TRUE /\ curFn' = F
            /\ pending' = ltc[F] /\ removed' = {}
            /\ UNCHANGED fnsToCheck
    /\ UNCHANGED <<body, orderVars, dphase, file, ltcKeys, ltc,
                   fnsToAvoid, fnsAffected, loaded, declined, registered>>

\* All summaries visited without an inline: the declined ones are erased.
FinishFn ==
    /\ dphase = "inline" /\ inFn /\ pending = {}
    /\ ltc' = [ltc EXCEPT ![curFn] = @ \ removed]
    /\ fnsToCheck' = Tail(fnsToCheck)
    /\ inFn' = FALSE
    /\ UNCHANGED <<body, orderVars, dphase, file, ltcKeys, fnsToAvoid,
                   fnsAffected, curFn, pending, removed, loaded, declined, registered>>

\* inlineCallsInMassiveSCCs returns false for summary s: it is declined
\* and will be erased.
Decline(s) ==
    /\ removed' = removed \cup {s}
    /\ pending' = pending \ {s}
    /\ declined' = declined \cup {<<curFn, s>>}
    /\ UNCHANGED <<body, orderVars, dphase, file, ltcKeys, ltc, fnsToCheck,
                   fnsToAvoid, fnsAffected, inFn, curFn, loaded, registered>>

\* The calls in the loop of summary s of F (its inner loops included) the
\* heuristic may pick: not recursive, to a function at least as deep as F.
Candidates(F, s) ==
    {p \in 1..Len(body[F]) :
        /\ body[F][p].kind = "call"
        /\ InLoop(body[F], s.id, p)
        /\ body[F][p].x # F
        /\ FnInd(body[F][p].x) >= FnInd(F)}

\* adjustOrdersAfterInline's update of the call graph: the callee's
\* children become children of F, and the callee stops being one when no
\* other call of F reaches it.
NewParents(F, g) ==
    [h \in Fns |-> IF h \in childrenFns[g] THEN parentFns[h] \cup {F} ELSE parentFns[h]]
NewChildren(F, p, g) ==
    LET stillCalled == \E q \in 1..Len(body[F]) \ {p} :
                          body[F][q].kind = "call" /\ body[F][q].x = g
    IN  [childrenFns EXCEPT ![F] = (IF stillCalled THEN @ ELSE @ \ {g}) \cup childrenFns[g]]

\* Fault variant: the summaries declined before the inline stay in
\* loopsToCheck.
InlineKeepRemoved(p) ==
    LET F == curFn
        g == body[F][p].x
    IN
    /\ fnsAffected' = fnsAffected \cup {F}
    /\ body' = [body EXCEPT ![F] = InlineAt(F, p, g)]
    /\ parentFns' = NewParents(F, g)
    /\ childrenFns' = NewChildren(F, p, g)
    /\ fnsToAvoid' = fnsToAvoid \cup parentFns[F]
    /\ fnsToCheck' = Tail(fnsToCheck)
    /\ inFn' = FALSE
    /\ UNCHANGED <<phase, queue, reached, func, records, depthOrderedFns, deferred,
                   recEntries, flushing, toFlush, remaining, dphase, file, ltcKeys,
                   ltc, curFn, pending, removed, loaded, declined, registered>>

\* inlineFunctionCall inlines the call at position p of F, and the loop
\* over F's summaries stops.  InlineFunction has erased the call when
\* adjustOrdersAfterInline reads it: getCalledFunction (310) reads the
\* callee operand left in the freed instruction, and getParent (369) is
\* null, as erasure unlinks the call before freeing it.  For a callee with
\* loops, getSummaryFor(nullptr) finds no summary, no block of F is the
\* call's, and getNextPreorderLoopAfter returns nullptr: the callee's
\* summaries are appended to preOrderedLoops[F], which no later step of
\* the run reads (F is in fnsAffected).  The next run recomputes the loops
\* of F from its new body, where the callee's loops are nested in the
\* loop of the call.
Inline(p) ==
    LET F == curFn
        g == body[F][p].x
    IN
    /\ fnsAffected' = fnsAffected \cup {F}
    /\ body' = [body EXCEPT ![F] = InlineAt(F, p, g)]
    /\ parentFns' = NewParents(F, g)
    /\ childrenFns' = NewChildren(F, p, g)
    /\ ltc' = [ltc EXCEPT ![F] = @ \ removed]
    /\ fnsToAvoid' = fnsToAvoid \cup parentFns[F]
    /\ fnsToCheck' = Tail(fnsToCheck)
    /\ inFn' = FALSE
    /\ UNCHANGED <<phase, queue, reached, func, records, depthOrderedFns, deferred,
                   recEntries, flushing, toFlush, remaining, dphase, file, ltcKeys,
                   curFn, pending, removed, loaded, declined, registered>>

\* One summary of the current function: no call is picked, the pick is
\* refused (F already inlined into, a recursive chain entrance, or
\* InlineFunction failing), or the call is inlined.
CheckLoop ==
    /\ dphase = "inline" /\ inFn
    /\ \E s \in pending :
         \/ Decline(s)
         \/ \E p \in Candidates(curFn, s) :
              IF curFn \in fnsAffected \/ body[curFn][p].x \in recEntries
              THEN Decline(s)
              ELSE Inline(p)

\* The lines registerRemainingLoops writes: fnOrders of the function and
\* the summary's id, both of this run.
Lines == UNION {{<<FnInd(f), s.id>> : s \in ltc[f]} : f \in ltcKeys}

\* The identities of the loops those lines are meant to name.
Meant == UNION {{<<f, s.lid>> : s \in ltc[f]} : f \in ltcKeys}

\* Every variable of the ordering as collectFnGraph finds it in a new run.
FreshOrder ==
    /\ phase' = "graph" /\ queue' = <<Main>> /\ reached' = {Main}
    /\ func' = Main /\ records' = <<>>
    /\ parentFns' = [f \in Fns |-> {}] /\ childrenFns' = [f \in Fns |-> {}]
    /\ depthOrderedFns' = <<>> /\ deferred' = <<>> /\ recEntries' = {}
    /\ flushing' = FALSE /\ toFlush' = <<>> /\ remaining' = <<>>

\* Fault variant: the continue file is written whether or not loops remain;
\* the loops file was just removed, so the next run takes every loop.
RegisterAlwaysContinue ==
    /\ dphase = "inline" /\ ~inFn /\ fnsToCheck = <<>>
    /\ registered' = Meant
    /\ file' = IF ltcKeys = {} THEN <<>> ELSE <<Lines>>
    /\ dphase' = "order"
    /\ FreshOrder
    /\ UNCHANGED <<body, ltcKeys, ltc, fnsToCheck, fnsToAvoid,
                   fnsAffected, inFn, curFn, pending, removed, loaded, declined>>

\* registerRemainingLoops and writeToContinueFile; the next run starts.
Register ==
    /\ dphase = "inline" /\ ~inFn /\ fnsToCheck = <<>>
    /\ registered' = Meant
    /\ IF ltcKeys = {}
       THEN /\ file' = <<>>
            /\ dphase' = "stop"
            /\ UNCHANGED orderVars
       ELSE /\ file' = <<Lines>>
            /\ dphase' = "order"
            /\ FreshOrder
    /\ UNCHANGED <<body, ltcKeys, ltc, fnsToCheck, fnsToAvoid,
                   fnsAffected, inFn, curFn, pending, removed, loaded, declined>>

Stopped == dphase \in {"stop", "crash"} /\ UNCHANGED vars

Init ==
    /\ body \in Programs
    /\ phase = "graph" /\ queue = <<Main>> /\ reached = {Main}
    /\ func = Main /\ records = <<>>
    /\ parentFns = [f \in Fns |-> {}] /\ childrenFns = [f \in Fns |-> {}]
    /\ depthOrderedFns = <<>> /\ deferred = <<>> /\ recEntries = {}
    /\ flushing = FALSE /\ toFlush = <<>> /\ remaining = <<>>
    /\ dphase = "order" /\ file = <<>>
    /\ ltcKeys = {} /\ ltc = [f \in Fns |-> {}]
    /\ fnsToCheck = <<>> /\ fnsToAvoid = {} /\ fnsAffected = {}
    /\ inFn = FALSE /\ curFn = Main /\ pending = {} /\ removed = {}
    /\ loaded = {} /\ declined = {} /\ registered = {}

Next ==
    \/ OrderStep \/ Load \/ StartFn \/ CheckLoop \/ FinishFn \/ Register
    \/ Stopped

Spec == Init /\ [][Next]_vars /\ WF_vars(Next)

-----------------------------------------------------------------------------
(* Properties *)

Token == {"call", "loop", "end"}

TypeOK ==
    /\ \A f \in Fns : \A p \in DOMAIN body[f] : body[f][p].kind \in Token
    /\ dphase \in {"order", "inline", "stop", "crash"}
    /\ file = <<>> \/ \A e \in file[1] : e[1] \in 0 .. Cardinality(Fns) - 1 /\ e[2] \in Nat
    /\ ltcKeys \subseteq Fns /\ DOMAIN ltc = Fns
    /\ fnsToCheck \in Seq(ltcKeys) /\ fnsToAvoid \subseteq Fns /\ fnsAffected \subseteq Fns
    /\ inFn \in BOOLEAN /\ curFn \in Fns /\ (inFn => pending \subseteq ltc[curFn])

\* When the visit of fnsToCheck ends, loopsToCheck holds exactly the loops
\* loaded for this run that inlineCallsInMassiveSCCs did not decline: the
\* loop an inline happened in, the loops after it, and those of skipped
\* parents stay for the next run, and no declined loop is written back.
WorkListExact ==
    (dphase = "inline" /\ ~inFn /\ fnsToCheck = <<>>)
        => Pairs(ltcKeys, ltc) = loaded \ declined

\* A run that reads dgsimplify_scc_call_inlining.txt checks exactly the
\* loops the previous run left to check: registerRemainingLoops writes a
\* function as its fnOrders index of that run and a loop as its summary
\* id of that run, and getLoopsToInline reads both back through the
\* depthOrderedFns and the preorder of the new run, after the inlines.
ReloadFaithful ==
    (file # <<>> /\ dphase \in {"inline", "crash"}) =>
        {<<e[1], e[2].lid>> : e \in loaded} = registered

\* The runs end: some run leaves no loop to check and writes no continue
\* file, or a run crashes.
Termination == <>(dphase \in {"stop", "crash"})

=============================================================================
