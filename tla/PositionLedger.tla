--------------------------- MODULE PositionLedger ---------------------------
(***************************************************************************)
(* What a CKToken promises about its positions to the modules: a ledger of  *)
(* open positions, each the asset or the debt of one holder in one          *)
(* component.  A step opens, turns or closes the position of one holder in  *)
(* one component; nothing else, a change of the position multiplier least   *)
(* of all, touches any of them.                                             *)
(***************************************************************************)
CONSTANTS Component, Holder

VARIABLE ledger

Kind == {"none", "asset", "debt"}

Init == /\ ledger \in [Component \X Holder -> {"none", "asset"}]
        /\ \E position \in Component \X Holder : ledger[position] = "asset"

Set(position, kind) == ledger' = [ledger EXCEPT ![position] = kind]

Next == \E position \in Component \X Holder, kind \in Kind : Set(position, kind)

Spec == Init /\ [][Next]_ledger
=============================================================================
