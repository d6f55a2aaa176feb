---------------------------- MODULE CKTokenLedger ----------------------------
(***************************************************************************)
(* CKToken implements PositionLedger: the ledger is what getPositions       *)
(* reports, which it collects from the component array and, for each        *)
(* component, from the external module array (CKToken.sol:481).             *)
(***************************************************************************)
EXTENDS CKToken

\* getPositions names the holder of a default position address(0).
Holder == Module \union {Null}

KindOf(real) == IF real > 0 THEN "asset" ELSE IF real < 0 THEN "debt" ELSE "none"

IsReported(c, holder) ==
    /\ isComponent(c)
    /\ IF holder = Null THEN virtualUnit[c] > 0 ELSE isExternalPositionModule(c, holder)

getPositions ==
    [p \in Component \X Holder |->
        IF ~IsReported(p[1], p[2]) THEN "none"
        ELSE IF p[2] = Null THEN KindOf(getDefaultPositionRealUnit(p[1]))
        ELSE KindOf(getExternalPositionRealUnit(p[1], p[2]))]

Ledger == INSTANCE PositionLedger WITH ledger <- getPositions

\* The positions getPositions reports change one at a time, by the edit of one
\* holder in one component, whatever lists and units the edit has to touch; a new
\* multiplier (editPositionMultiplier) opens, closes and turns none of them.
ImplementsLedger == Ledger!Spec
=============================================================================
