-------------------------- MODULE AddressArrayUtils --------------------------
(***************************************************************************)
(* The address arrays of lib/AddressArrayUtils.sol as sequences.  The       *)
(* contracts keep every registry (components, modules, external position    *)
(* modules, hooks, reward pools) in such an array next to the mapping that  *)
(* says what is registered.                                                 *)
(***************************************************************************)
EXTENDS Integers, Sequences

contains(A, a) == \E i \in DOMAIN A : A[i] = a

hasDuplicate(A) == \E i, j \in DOMAIN A : i # j /\ A[i] = A[j]

\* The first position that holds a; callers revert when there is none.
indexOf(A, a) ==
    CHOOSE i \in DOMAIN A : A[i] = a /\ \A j \in DOMAIN A : A[j] = a => i <= j

\* Storage arrays: the last element takes the place of the removed one.
removeStorage(A, a) ==
    [i \in 1 .. Len(A) - 1 |-> IF i = indexOf(A, a) THEN A[Len(A)] ELSE A[i]]

\* Memory arrays: pop keeps the order of the others.
remove(A, a) ==
    [i \in 1 .. Len(A) - 1 |-> IF i < indexOf(A, a) THEN A[i] ELSE A[i + 1]]

extend(A, B) == A \o B
=============================================================================
