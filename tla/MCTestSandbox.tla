--------------------------- MODULE MCTestSandbox ---------------------------
(***************************************************************************)
(* TLC instances of TestSandbox.                                            *)
(***************************************************************************)
EXTENDS TestSandbox

\* Suites with up to two set-ups, with and without a guard at any place.
Setups == UNION {[1 .. n -> Kind] : n \in 0 .. 2}

MCSuites ==
    UNION {[setups : {setups}, guards : {<<>>} \union {<<place>> : place \in 0 .. Len(setups)}]
              : setups \in Setups}

\* The nesting of generalIndexModule.spec.ts: a beforeEach, then a cached one.
NestedSuites ==
    {[setups |-> <<"cache">>, guards |-> <<>>],
     [setups |-> <<"each", "cache">>, guards |-> <<>>]}
=============================================================================
