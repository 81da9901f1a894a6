------------------------------- MODULE MCDSWP -------------------------------
(***************************************************************************)
(* Loops to run DSWPPartition on.  All are variants of one counted loop   *)
(*                                                                         *)
(*   H:  i  = phi [0, pre] [inext, B2]       c  = icmp i, n                *)
(*       br c, B1, X                                                       *)
(*   B1: v  = f(i, a)     w = g(v)     st: store w, a[i]     br B2         *)
(*   B2: inext = i + 1    c2 = icmp i, k     br c2, Y, H                   *)
(*   X:  loX = phi i      Y: loY = phi i, loW = phi w                       *)
(*                                                                         *)
(* with live-ins n, a, k and live-outs i (consumed twice) and w.  The      *)
(* induction variable and both exits form one SCC with the two condition   *)
(* branches; v, w and st form a chain of SCCs behind it; the terminator of *)
(* B1 is a tail compare/branch node.                                       *)
(***************************************************************************)
EXTENDS DSWPPartition, TLC

BaseInst == {"i", "c", "brH", "v", "w", "st", "brB1", "inext", "c2", "brB2"}

BaseOp ==
    [x \in BaseInst |->
        CASE x = "i" -> "phi"
          [] x \in {"c", "c2"} -> "cmp"
          [] x \in {"brH", "brB1", "brB2"} -> "br"
          [] OTHER -> "other"]

BaseBlk ==
    [x \in BaseInst |->
        IF x \in {"i", "c", "brH"} THEN "H"
        ELSE IF x \in {"v", "w", "st", "brB1"} THEN "B1" ELSE "B2"]

BasePos ==
    ("i" :> 1 @@ "c" :> 2 @@ "brH" :> 3 @@ "v" :> 4 @@ "w" :> 5 @@ "st" :> 6
     @@ "brB1" :> 7 @@ "inext" :> 8 @@ "c2" :> 9 @@ "brB2" :> 10)

BaseData ==
    {<<"inext", "i">>, <<"i", "c">>, <<"n", "c">>, <<"c", "brH">>,
     <<"i", "v">>, <<"a", "v">>, <<"v", "w">>,
     <<"w", "st">>, <<"i", "st">>, <<"a", "st">>,
     <<"i", "inext">>, <<"i", "c2">>, <<"k", "c2">>, <<"c2", "brB2">>,
     <<"i", "loX">>, <<"i", "loY">>, <<"w", "loW">>}

BaseCtrl ==
    {<<"brH", x>> : x \in {"v", "w", "st", "brB1", "inext", "c2", "brB2"}}
    \cup {<<"brB2", x>> : x \in {"i", "c", "brH"}}

BaseWidth ==
    [x \in BaseInst \cup {"n", "a", "k", "loX", "loY", "loW"} |->
        CASE x \in {"i", "inext", "n", "k", "loX", "loY"} -> 64
          [] x \in {"c", "c2"} -> 1
          [] x \in {"v", "w", "loW"} -> 32
          [] OTHER -> 0]

BaseLoopRecord ==
    [inst |-> BaseInst, ext |-> {"n", "a", "k", "loX", "loY", "loW"},
     op |-> BaseOp, blk |-> BaseBlk, pos |-> BasePos,
     data |-> BaseData, mem |-> {}, ctrl |-> BaseCtrl, width |-> BaseWidth,
     blocks |-> <<"H", "B1", "B2">>, header |-> "H", exits |-> <<"X", "Y">>,
     rets |-> <<>>,
     at |-> ("n" :> "pre" @@ "a" :> "pre" @@ "k" :> "pre" @@ "loX" :> "X"
             @@ "loY" :> "Y" @@ "loW" :> "Y"),
     succ |-> ("brH" :> <<"B1", "X">> @@ "brB1" :> <<"B2">> @@ "brB2" :> <<"Y", "H">>),
     truth |-> ("c" :> "trip" @@ "c2" :> "brk")]

\* A loop record with the SCC decomposition the dependence analysis hands over.
WithSCCs(l) == l @@ [sccs |-> SCCsOf(l)]

Base == WithSCCs(BaseLoopRecord)

\* The store of one iteration feeds the load v of the next: v, w, st form
\* one SCC, and i reaches that SCC through two consumers (v and st).
MemCarried == WithSCCs([BaseLoopRecord EXCEPT !.mem = {<<"st", "v">>}])

\* The exit test of B2 also depends on w: the whole loop is one SCC.
Collapsed ==
    WithSCCs([BaseLoopRecord EXCEPT !.mem = {<<"st", "v">>},
                 !.data = (@ \ {<<"i", "c2">>}) \cup {<<"w", "c2">>}])

\* v is a pointer (an address computed from a and i); its queue has width 0.
PointerQueue == WithSCCs([BaseLoopRecord EXCEPT !.width = [@ EXCEPT !["v"] = 0]])


\* The load v and the store st of one iteration touch the same memory but
\* are in different SCCs: a memory dependence between stages.
MemForward == WithSCCs([BaseLoopRecord EXCEPT !.mem = {<<"v", "st">>}])

\* st stores i rather than w: the load v and the store st, which writes
\* the location v reads, are linked by the memory dependence alone and end
\* up in different SCCs with no data path between them.
MemOnly ==
    WithSCCs([BaseLoopRecord EXCEPT !.mem = {<<"v", "st">>},
                                    !.data = @ \ {<<"w", "st">>}])

\* B2 branches on the loop-invariant live-in k itself; c2 is dead.
ExtCondition ==
    WithSCCs([BaseLoopRecord EXCEPT !.data = (@ \ {<<"c2", "brB2">>}) \cup {<<"k", "brB2">>}])

\* B2 leaves the loop to block R, which returns: the loop body holds a ret.
\* Block Y and its LCSSA phis are gone.
WithReturn(retOperands) ==
    WithSCCs([BaseLoopRecord EXCEPT
        !.inst = @ \cup {"ret"},
        !.ext = @ \ {"loY", "loW"},
        !.op = @ @@ ("ret" :> "ret"),
        !.blk = @ @@ ("ret" :> "R"),
        !.pos = @ @@ ("ret" :> 11),
        !.data = (@ \ {<<"i", "loY">>, <<"w", "loW">>})
                   \cup {<<x, "ret">> : x \in retOperands},
        !.ctrl = @ \cup {<<"brB2", "ret">>},
        !.width = [x \in (DOMAIN @ \ {"loY", "loW"}) \cup {"ret"} |->
                     IF x = "ret" THEN 0 ELSE @[x]],
        !.blocks = <<"H", "B1", "B2", "R">>,
        !.exits = <<"X">>,
        !.at = [x \in DOMAIN @ \ {"loY", "loW"} |-> @[x]],
        !.rets = <<"ret">>,
        !.succ = [@ EXCEPT !["brB2"] = <<"R", "H">>]])

\* ret void, and ret w (returning a value computed by a later stage).
RetVoid == WithReturn({})
RetValue == WithReturn({"w"})

PartitionLoops == {Base, MemCarried, Collapsed, MemForward, MemOnly, ExtCondition, RetVoid}

BaseLoop == {Base}
RetValueLoop == {RetValue}
RetVoidLoop == {RetVoid}
PointerQueueLoop == {PointerQueue}

=============================================================================
