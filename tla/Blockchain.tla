----------------------------- MODULE Blockchain -----------------------------
(***************************************************************************)
(* utils/common/blockchainUtils.ts: the development chain behind the        *)
(* Blockchain class.  The chain is the sequence of what was done to it, so  *)
(* that the address of a deployed contract, which follows from the          *)
(* deployer's nonce, is its place in the sequence.                          *)
(***************************************************************************)
EXTENDS Naturals, Sequences

VARIABLES
    chain,
    snapshots,     \* the node's: what the chain was, by snapshot id
    nextId         \* ids are not used twice

nodeVars == <<chain, snapshots, nextId>>

ChainInit ==
    /\ chain = <<>>
    /\ snapshots = [id \in {} |-> <<>>]
    /\ nextId = 1

Transact(effect) ==
    /\ chain' = Append(chain, effect)
    /\ UNCHANGED <<snapshots, nextId>>

\* evm_snapshot
saveSnapshotAsync ==
    /\ snapshots' = [id \in DOMAIN snapshots \union {nextId} |->
                       IF id = nextId THEN chain ELSE snapshots[id]]
    /\ nextId' = nextId + 1
    /\ UNCHANGED chain

\* evm_revert takes the snapshot with it, and every later one.
Kept(id) == {other \in DOMAIN snapshots : other < id}

\* With an id that the node has not, evm_revert answers false, which no caller
\* looks at.
revertByIdAsync(id) ==
    /\ \/ /\ id \in DOMAIN snapshots
          /\ chain' = snapshots[id]
          /\ snapshots' = [other \in Kept(id) |-> snapshots[other]]
       \/ id \notin DOMAIN snapshots /\ UNCHANGED <<chain, snapshots>>
    /\ UNCHANGED nextId
=============================================================================
