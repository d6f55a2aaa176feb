----------------------------- MODULE FreshTests -----------------------------
(***************************************************************************)
(* What the sandboxing of utils/test/testingUtils.ts promises, with none of *)
(* its snapshots: every test starts on the chain its outermost suite found, *)
(* with the set-up of the suites around it carried out in order, once, and  *)
(* nothing left by another test.                                            *)
(***************************************************************************)
EXTENDS Naturals, Sequences

CONSTANTS Effect, Own   \* of a set-up, of a test

VARIABLES
    base,       \* the chain before the outermost suite
    written,    \* set-ups of the suites around, outermost first
    world       \* the chain a running test sees, as a set; empty between tests

freshVars == <<base, written, world>>

NoTest == {}

Init == base = <<>> /\ written = <<>> /\ world = NoTest

\* Only an outermost suite looks at what its predecessors left.
Open ==
    /\ world = NoTest
    /\ written' \in Seq(Effect)
    /\ Len(written') >= Len(written)
    /\ \A i \in 1 .. Len(written) : written'[i] = written[i]
    /\ \/ written = <<>> /\ base' \in Seq(Effect \union {Own})
       \/ UNCHANGED base
    /\ UNCHANGED world

Close ==
    /\ world = NoTest
    /\ written # <<>>
    /\ written' = SubSeq(written, 1, Len(written) - 1)
    /\ UNCHANGED <<base, world>>

Start == world = NoTest /\ world' = {base \o written} /\ UNCHANGED <<base, written>>

Act ==
    /\ world # NoTest
    /\ world' = {Append(w, Own) : w \in world}
    /\ UNCHANGED <<base, written>>

Finish == world # NoTest /\ world' = NoTest /\ UNCHANGED <<base, written>>

Next == Open \/ Close \/ Start \/ Act \/ Finish

Spec == Init /\ [][Next]_freshVars
=============================================================================
