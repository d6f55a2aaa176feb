---------------------------- MODULE TestSandbox ----------------------------
(***************************************************************************)
(* utils/test/testingUtils.ts under mocha: nested suites whose beforeEach   *)
(* hooks are cacheBeforeEach initializers, plain set-ups, or the saving     *)
(* half of addSnapshotBeforeRestoreAfterEach.  A hook's handle stands for   *)
(* the variables it leaves to the tests: where on the chain its contract    *)
(* was, when it last ran.  mocha fails a hook that takes too long and goes  *)
(* on; the hook's asynchronous function goes on as well, and does what is   *)
(* left of it while other suites run.                                       *)
(***************************************************************************)
EXTENDS Blockchain, FiniteSets

CONSTANTS
    Suites,             \* what a suite may register: [setups, guards]
    AnyOrder,           \* may a cached set-up follow an uncached one?
    MaxDepth, MaxHooks, MaxTests,
    MaxLate             \* bounds the set-ups that time out

Kind == {"cache", "each"}

\* A suite: the kinds of its set-ups, and how many of them come before its
\* addSnapshotBeforeRestoreAfterEach, if it has one.
ASSUME SandboxAssumption ==
    /\ AnyOrder \in BOOLEAN
    /\ MaxDepth \in Nat /\ MaxHooks \in Nat /\ MaxTests \in Nat /\ MaxLate \in Nat
    /\ \A suite \in Suites :
           /\ suite.setups \in Seq(Kind)
           /\ suite.guards \in Seq(0 .. Len(suite.setups))
           /\ Len(suite.guards) <= 1

VARIABLES
    SNAPSHOTS,          \* the stack the cached set-ups share
    hooks,              \* set-ups of the open suites, outermost first
    guards,             \* their addSnapshotBeforeRestoreAfterEach
    depth,              \* of the innermost open suite
    base,               \* the chain the outermost suite found
    phase,
    pos, gpos,          \* set-ups, guards that ran in this round
    failedDepth,        \* of the suite whose hook failed, or 0
    registered, tests,  \* counted for the bounds; registered names effects
    late,               \* set-ups that timed out and still run
    timeouts,           \* counted for the bound
    \* history: did a late set-up act since the outermost suite was opened,
    disturbed,
    \* how many snapshots it found, how many were pushed for suites that are over
    floor, stray

mochaVars == <<hooks, guards, depth, base, failedDepth, registered>>
lateVars == <<late, timeouts, disturbed, floor, stray>>
vars == <<nodeVars, SNAPSHOTS, mochaVars, phase, pos, gpos, tests, lateVars>>

Own == 0
Effects(hs) == [i \in 1 .. Len(hs) |-> hs[i].effect]

Init ==
    /\ ChainInit
    /\ SNAPSHOTS = <<>> /\ hooks = <<>> /\ guards = <<>> /\ base = <<>>
    /\ phase = "rest"
    /\ depth = 0 /\ pos = 0 /\ gpos = 0 /\ failedDepth = 0
    /\ registered = 0 /\ tests = 0
    /\ late = {} /\ timeouts = 0 /\ disturbed = FALSE /\ floor = 0 /\ stray = 0

----------------------------------------------------------------------------
(* Suites.                                                                  *)

\* Cached set-ups come first, and something undoes what a test did.
CachesFirst(hs, gs) ==
    /\ \A j \in 1 .. Len(hs) : hs[j].kind = "cache" =>
           /\ \A i \in 1 .. j : hs[i].kind = "cache"
           /\ \A g \in 1 .. Len(gs) : j <= gs[g].below
    /\ \/ hs # <<>> /\ hs[1].kind = "cache"
       \/ gs # <<>> /\ gs[1].below = 0

newHooks(setups) ==
    [i \in 1 .. Len(setups) |->
        [kind |-> setups[i], depth |-> depth + 1, effect |-> registered + i,
         initialized |-> FALSE, handle |-> 0]]

newGuards(places) ==
    [i \in 1 .. Len(places) |->
        [below |-> Len(hooks) + places[i], depth |-> depth + 1, id |-> 0]]

\* describe
OpenSuite(suite) ==
    /\ phase = "rest" /\ failedDepth = 0
    /\ depth < MaxDepth /\ registered + Len(suite.setups) <= MaxHooks
    /\ hooks' = hooks \o newHooks(suite.setups)
    /\ guards' = guards \o newGuards(suite.guards)
    /\ AnyOrder \/ CachesFirst(hooks', guards')
    /\ depth' = depth + 1
    /\ base' = IF depth = 0 THEN chain ELSE base
    /\ registered' = registered + Len(suite.setups)
    /\ disturbed' = (disturbed /\ depth > 0)
    /\ floor' = IF depth = 0 THEN Len(SNAPSHOTS) ELSE floor
    /\ UNCHANGED <<nodeVars, SNAPSHOTS, phase, pos, gpos, failedDepth, tests,
                   late, timeouts, stray>>

\* The end of a suite runs its after hooks ...
StartLeaving ==
    /\ phase = "rest" /\ depth > 0
    /\ phase' = "leaving"
    /\ UNCHANGED <<nodeVars, SNAPSHOTS, mochaVars, pos, gpos, tests>>

Innermost(s) == s # <<>> /\ s[Len(s)].depth = depth

popped(s) == SubSeq(s, 1, Len(s) - 1)

\* Mutant: after does not ask whether the set-up ever ran.
PopsSnapshot_Always(hook) == hook.kind = "cache"

PopsSnapshot(hook) == hook.kind = "cache" /\ hook.initialized

\* ... the after of cacheBeforeEach pops what its set-up pushed ...
LeaveHook ==
    /\ phase = "leaving" /\ Innermost(hooks)
    /\ hooks' = popped(hooks)
    /\ SNAPSHOTS' = IF PopsSnapshot(hooks[Len(hooks)]) /\ SNAPSHOTS # <<>>
                    THEN popped(SNAPSHOTS) ELSE SNAPSHOTS
    /\ UNCHANGED <<nodeVars, guards, depth, base, failedDepth, registered,
                   phase, pos, gpos, tests>>

failureAfter == IF failedDepth = depth THEN 0 ELSE failedDepth

\* ... and a failure is over with the suite whose hook it was.
LeaveSuite ==
    /\ phase = "leaving" /\ ~Innermost(hooks)
    /\ guards' = IF Innermost(guards) THEN popped(guards) ELSE guards
    /\ depth' = depth - 1
    /\ failedDepth' = failureAfter
    /\ phase' = "rest"
    /\ UNCHANGED <<nodeVars, SNAPSHOTS, hooks, base, registered, pos, gpos, tests>>

----------------------------------------------------------------------------
(* One round: the hooks, the test, the hooks that restore.                  *)

StartRound ==
    /\ phase = "rest" /\ failedDepth = 0
    /\ depth > 0 /\ tests < MaxTests
    /\ phase' = "setUp" /\ pos' = 0 /\ gpos' = 0 /\ tests' = tests + 1
    /\ UNCHANGED <<nodeVars, SNAPSHOTS, mochaVars>>

GuardNext == gpos < Len(guards) /\ guards[gpos + 1].below = pos
HookNext == phase = "setUp" /\ ~GuardNext /\ pos < Len(hooks)
current == hooks[pos + 1]

SaveGuard ==
    /\ phase = "setUp" /\ GuardNext
    /\ saveSnapshotAsync
    /\ guards' = [guards EXCEPT ![gpos + 1].id = nextId]
    /\ gpos' = gpos + 1
    /\ UNCHANGED <<SNAPSHOTS, hooks, depth, base, failedDepth, registered,
                   phase, pos, tests>>

\* A set-up deploys, and leaves a handle to what it deployed.
Deploys ==
    /\ Transact(current.effect)
    /\ hooks' = [hooks EXCEPT ![pos + 1].handle = Len(chain) + 1]
    /\ UNCHANGED <<guards, depth, base, failedDepth, registered>>

RunEach ==
    /\ HookNext /\ current.kind = "each"
    /\ Deploys
    /\ pos' = pos + 1
    /\ UNCHANGED <<SNAPSHOTS, phase, gpos, tests>>

\* cacheBeforeEach runs its initializer in the first round ...
Initialize ==
    /\ HookNext /\ current.kind = "cache" /\ ~current.initialized
    /\ Deploys
    /\ phase' = "save"
    /\ UNCHANGED <<SNAPSHOTS, pos, gpos, tests>>

\* Mutant: each set-up restores a snapshot of its own.
snapshotToRestore_First == SNAPSHOTS[1]

\* Any set-up restores the innermost snapshot: the top of the shared stack.
snapshotToRestore == SNAPSHOTS[Len(SNAPSHOTS)]

\* ... and restores in the others ...
Restore ==
    /\ HookNext /\ current.kind = "cache" /\ current.initialized
    /\ SNAPSHOTS # <<>>
    /\ SNAPSHOTS' = popped(SNAPSHOTS)
    /\ revertByIdAsync(snapshotToRestore)
    /\ phase' = "save"
    /\ UNCHANGED <<mochaVars, pos, gpos, tests>>

\* ... then saves, as the node has forgotten the snapshot it restored.
SaveCache ==
    /\ phase = "save"
    /\ saveSnapshotAsync
    /\ SNAPSHOTS' = Append(SNAPSHOTS, nextId)
    /\ hooks' = [hooks EXCEPT ![pos + 1].initialized = TRUE]
    /\ pos' = pos + 1
    /\ phase' = "setUp"
    /\ UNCHANGED <<guards, depth, base, failedDepth, registered, gpos, tests>>

\* A hook that throws may have changed the chain: the restoring hooks of its
\* suite and of the suites around run, and no other test of it.
FailHook ==
    /\ HookNext
    /\ ~current.initialized \/ SNAPSHOTS = <<>>
    /\ \/ Transact(Own)
       \/ UNCHANGED nodeVars
    /\ failedDepth' = current.depth
    /\ phase' = "tearDown" /\ gpos' = Len(guards)
    /\ UNCHANGED <<SNAPSHOTS, hooks, guards, depth, base, registered, pos, tests>>

BeginTest ==
    /\ phase = "setUp" /\ ~GuardNext /\ pos = Len(hooks)
    /\ phase' = "test"
    /\ UNCHANGED <<nodeVars, SNAPSHOTS, mochaVars, pos, gpos, tests>>

\* One transaction stands for what a test does (bound).
TestActs ==
    /\ phase = "test" /\ Len(chain) <= Len(base) + Len(hooks)
    /\ Transact(Own)
    /\ UNCHANGED <<SNAPSHOTS, mochaVars, phase, pos, gpos, tests>>

EndTest ==
    /\ phase = "test"
    /\ phase' = "tearDown" /\ gpos' = Len(guards)
    /\ UNCHANGED <<nodeVars, SNAPSHOTS, mochaVars, pos, tests>>

\* Mutant: a guard of the suite that failed does not restore.
Restores_Unfailed(guard) == failedDepth = 0

Restores(guard) == failedDepth = 0 \/ guard.depth <= failedDepth

RestoreGuard ==
    /\ phase = "tearDown" /\ gpos > 0
    /\ IF Restores(guards[gpos]) THEN revertByIdAsync(guards[gpos].id)
       ELSE UNCHANGED nodeVars
    /\ gpos' = gpos - 1
    /\ UNCHANGED <<SNAPSHOTS, mochaVars, phase, pos, tests>>

EndRound ==
    /\ phase = "tearDown" /\ gpos = 0
    /\ phase' = "rest" /\ pos' = 0
    /\ UNCHANGED <<nodeVars, SNAPSHOTS, mochaVars, gpos, tests>>

----------------------------------------------------------------------------
(* Set-ups that time out.                                                   *)

\* For mocha a hook that times out has failed.  What is left of its set-up may
\* also throw, which shows no more than its not going on.
TimeOut ==
    /\ timeouts < MaxLate /\ timeouts' = timeouts + 1
    /\ FailHook /\ ~current.initialized
    /\ late' = late \union {[place |-> pos + 1, effect |-> current.effect,
                            kind |-> current.kind, stage |-> "deploys", id |-> 0]}
    /\ UNCHANGED <<disturbed, floor, stray>>

\* Its hook is there until its suite is over.
IsOpen(l) == l.place <= Len(hooks) /\ hooks[l.place].effect = l.effect

\* The set-up deploys, and assigns the variables of its suite ...
LateDeploys(l) ==
    /\ l.stage = "deploys"
    /\ Transact(l.effect)
    /\ hooks' = IF IsOpen(l) THEN [hooks EXCEPT ![l.place].handle = Len(chain) + 1] ELSE hooks
    /\ late' = (late \ {l}) \union
                  (IF l.kind = "cache" THEN {[l EXCEPT !.stage = "saves"]} ELSE {})
    /\ disturbed' = TRUE
    /\ UNCHANGED <<SNAPSHOTS, guards, depth, base, failedDepth, registered,
                   phase, pos, gpos, tests, timeouts, floor, stray>>

\* ... cacheBeforeEach saves what chain there is by then ...
LateSaves(l) ==
    /\ l.stage = "saves"
    /\ saveSnapshotAsync
    /\ late' = (late \ {l}) \union {[l EXCEPT !.stage = "pushes", !.id = nextId]}
    /\ disturbed' = TRUE
    /\ UNCHANGED <<SNAPSHOTS, mochaVars, phase, pos, gpos, tests, timeouts, floor, stray>>

\* ... and pushes it, also when the after hook that would pop it has run.
LatePushes(l) ==
    /\ l.stage = "pushes"
    /\ SNAPSHOTS' = Append(SNAPSHOTS, l.id)
    /\ hooks' = IF IsOpen(l) THEN [hooks EXCEPT ![l.place].initialized = TRUE] ELSE hooks
    /\ stray' = IF IsOpen(l) THEN stray ELSE stray + 1
    /\ late' = late \ {l}
    /\ disturbed' = TRUE
    /\ UNCHANGED <<nodeVars, guards, depth, base, failedDepth, registered,
                   phase, pos, gpos, tests, timeouts, floor>>

Late == \E l \in late : LateDeploys(l) \/ LateSaves(l) \/ LatePushes(l)

----------------------------------------------------------------------------
InTime ==
    \/ StartLeaving \/ LeaveHook \/ LeaveSuite
    \/ StartRound \/ SaveGuard
    \/ RunEach \/ Initialize \/ Restore \/ SaveCache \/ FailHook
    \/ BeginTest \/ TestActs \/ EndTest \/ RestoreGuard \/ EndRound

Next ==
    \/ \E suite \in Suites : OpenSuite(suite)
    \/ InTime /\ UNCHANGED lateVars
    \/ TimeOut
    \/ Late

Spec == Init /\ [][Next]_vars

----------------------------------------------------------------------------
(* Properties.                                                              *)

Phase == {"rest", "setUp", "save", "test", "tearDown", "leaving"}

Hook == [kind : Kind, depth : Nat, effect : Nat, initialized : BOOLEAN, handle : Nat]
Guard == [below : Nat, depth : Nat, id : Nat]
LateRun == [place : Nat, effect : Nat, kind : Kind,
            stage : {"deploys", "saves", "pushes"}, id : Nat]

\* Type invariant.
SandboxTypeOK ==
    /\ chain \in Seq(Nat) /\ base \in Seq(Nat)
    /\ nextId \in Nat \ {0}
    /\ DOMAIN snapshots \subseteq 1 .. nextId - 1
    /\ \A id \in DOMAIN snapshots : snapshots[id] \in Seq(Nat)
    /\ SNAPSHOTS \in Seq(Nat)
    /\ hooks \in Seq(Hook)
    /\ guards \in Seq(Guard)
    /\ phase \in Phase
    /\ depth \in Nat /\ failedDepth \in 0 .. depth
    /\ pos \in 0 .. Len(hooks) /\ gpos \in 0 .. Len(guards)
    /\ registered \in Nat /\ tests \in Nat
    /\ late \subseteq LateRun /\ timeouts \in Nat
    /\ disturbed \in BOOLEAN /\ floor \in Nat /\ stray \in Nat

\* What a hook remembers is on the chain that the test runs on: a test that
\* follows another sees its own set-up, not what the snapshot undid ("Can be
\* used like a beforeEach statement", testingUtils.ts), unless a set-up that timed
\* out acts while the test's outermost suite is open.
HandlesFresh ==
    phase = "test" /\ ~disturbed =>
        \A i \in 1 .. Len(hooks) :
            /\ hooks[i].handle \in DOMAIN chain
            /\ chain[hooks[i].handle] = hooks[i].effect

\* Pushes and pops of the shared stack balance, whatever times out and however late
\* it comes: there is a snapshot for each set-up that ran, and one for each that
\* came after its suite.  The suites that are open have theirs on top, in order,
\* and the node still has each of them, unless a set-up that timed out acted while
\* they were open: no suite restores what belongs to another (SNAPSHOTS,
\* testingUtils.ts).
StackExact ==
    phase \in {"rest", "test"} =>
        /\ Len(SNAPSHOTS) = stray + Cardinality({j \in 1 .. Len(hooks) : hooks[j].initialized})
        /\ ~disturbed =>
             /\ \A j \in floor + 1 .. Len(SNAPSHOTS) : SNAPSHOTS[j] \in DOMAIN snapshots
             /\ \A j \in 1 .. Len(hooks) : hooks[j].initialized <=> floor + j <= Len(SNAPSHOTS)
             /\ floor <= Len(SNAPSHOTS) /\ Len(SNAPSHOTS) <= floor + Len(hooks)

\* The chain of a test that no late set-up got in the way of.
FreshWorld == IF phase = "test" /\ ~disturbed THEN {chain} ELSE {}

Fresh == INSTANCE FreshTests WITH
            Effect <- Nat \ {0}, Own <- Own,
            written <- Effects(hooks), world <- FreshWorld

\* Every test starts on the chain its outermost suite found, with the set-ups
\* of the suites around it and nothing of any other test, whatever failed
\* before; a set-up that timed out spoils the tests of the outermost suite during
\* which it acts, and no others (cacheBeforeEach and
\* addSnapshotBeforeRestoreAfterEach).
TestsAreFresh == Fresh!Spec
=============================================================================
