------------------------- MODULE MCDGSimplifyOrder -------------------------
(***************************************************************************)
(* DGSimplifyOrder over the call graphs on main and three other          *)
(* functions (model values).                                               *)
(***************************************************************************)
EXTENDS DGSimplifyOrder, TLC

CONSTANTS m, a, b, c

MCFns == {m, a, b, c}

\* Call records in program order: main calls up to three distinct
\* functions, the others up to two, main included (a call back into main);
\* a function other than main may instead hold a single invoke record.
SitesOver(S, n) ==
    {[j \in DOMAIN s |-> <<s[j], "call">>] :
        s \in UNION {SetToSeqs(T) : T \in {T \in SUBSET S : Cardinality(T) <= n}}}

Records(n) == SitesOver(MCFns, n) \cup {<<<<g, "invoke">>>> : g \in MCFns}

AllCallGraphs ==
    {(m :> x) @@ (a :> y) @@ (b :> z) @@ (c :> w) :
        x \in SitesOver({a, b, c}, 3),
        y \in Records(2), z \in Records(2), w \in Records(2)}

\* The graph of the comment's counter-example: a and b are a recursive
\* chain, and c is called by main and by b.
ChainGraph == {(m :> <<<<a, "call">>, <<c, "call">>>>) @@ (a :> <<<<b, "call">>>>)
               @@ (b :> <<<<a, "call">>, <<c, "call">>>>) @@ (c :> <<>>)}

\* a, b and c play the same role in AllCallGraphs.
Sym == Permutations({a, b, c})

=============================================================================
