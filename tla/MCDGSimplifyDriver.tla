------------------------ MODULE MCDGSimplifyDriver ------------------------
(***************************************************************************)
(* DGSimplifyDriver over programs of main and three functions: main has   *)
(* two loops and up to two calls in them, to different functions; each   *)
(* other function has no loop or one, and at most one call to another     *)
(* function, inside its loop if it has one.                                *)
(***************************************************************************)
EXTENDS DGSimplifyDriver, TLC

CONSTANTS m, a, b, c

MCFns == {m, a, b, c}

CallTo(g) == [kind |-> "call", x |-> g]
Open(f, k) == [kind |-> "loop", x |-> <<f, k>>]
Close == [kind |-> "end"]

\* main: two loops, and no call, one call in the first loop, or calls to
\* two different functions, both in the first loop or one in each.
MainBodies ==
    LET L0(s0) == <<Open(m, 0)>> \o s0 \o <<Close>>
        L1(s1) == <<Open(m, 1)>> \o s1 \o <<Close>>
    IN  {L0(<<>>) \o L1(<<>>)}
        \cup {L0(<<CallTo(x)>>) \o L1(<<>>) : x \in {a, b, c}}
        \cup UNION {{L0(<<CallTo(x), CallTo(y)>>) \o L1(<<>>), L0(<<CallTo(x)>>) \o L1(<<CallTo(y)>>)} :
                       <<x, y>> \in {<<x, y>> \in {a, b, c} \X {a, b, c} : x # y}}

\* A function other than main; it may call another function, but not
\* itself (the inliner never picks a recursive call).
Bodies(f) ==
    {<<>>, <<Open(f, 0), Close>>}
    \cup {<<CallTo(g)>> : g \in {a, b, c} \ {f}}
    \cup {<<Open(f, 0), CallTo(g), Close>> : g \in {a, b, c} \ {f}}

AllPrograms ==
    {(m :> x) @@ (a :> y) @@ (b :> z) @@ (c :> w) :
        x \in MainBodies, y \in Bodies(a), z \in Bodies(b), w \in Bodies(c)}

\* main's loop calls a wrapper a (no loop) of b, and b's loop calls c: the
\* first run inlines c into b and a into main, so a drops out of the order.
WrapperProgram ==
    {(m :> <<Open(m, 0), CallTo(a), Close>>) @@ (a :> <<CallTo(b)>>)
     @@ (b :> <<Open(b, 0), CallTo(c), Close>>) @@ (c :> <<>>)}

\* main's first loop calls a, which has a loop; main has a second loop.
\* The first run inlines a into main's first loop and leaves both loops of
\* main to check, by their ids 0 and 1.
NestedProgram ==
    {(m :> <<Open(m, 0), CallTo(a), Close, Open(m, 1), Close>>)
     @@ (a :> <<Open(a, 0), Close>>) @@ (b :> <<>>) @@ (c :> <<>>)}

=============================================================================
