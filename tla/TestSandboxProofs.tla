------------------------- MODULE TestSandboxProofs -------------------------
(***************************************************************************)
(* Proofs about TestSandbox, for suites that put their cached set-ups       *)
(* first: every test starts fresh, whatever the suites, their number, their *)
(* depth and the hooks that fail, except in an outermost suite during which *)
(* a set-up that timed out goes on; and the shared stack stays balanced.    *)
(***************************************************************************)
EXTENDS TestSandbox, SequenceTheorems, FiniteSetTheorems, TLAPS

\* The part of the stack that belongs to the open suites.
OwnPart(s, f) == SubSeq(s, f + 1, Len(s))
Mine == OwnPart(SNAPSHOTS, floor)
S == Len(Mine)
N == Len(hooks)
G == Len(guards)

\* The chain c is what the outermost suite found, b, then the first n set-ups.
Holds(b, hs, c, n) ==
    /\ Len(c) = Len(b) + n
    /\ \A i \in 1 .. Len(b) : c[i] = b[i]
    /\ \A i \in 1 .. n : c[Len(b) + i] = hs[i].effect

\* The same, with what the test did after it.
HoldsAtLeast(b, hs, c, n) ==
    /\ Len(c) >= Len(b) + n
    /\ \A i \in 1 .. Len(b) : c[i] = b[i]
    /\ \A i \in 1 .. n : c[Len(b) + i] = hs[i].effect

Found(n) == Holds(base, hooks, chain, n)
FoundAtLeast(n) == HoldsAtLeast(base, hooks, chain, n)
Saved(id, n) == id \in DOMAIN snapshots /\ Holds(base, hooks, snapshots[id], n)

Cached(j) == hooks[j].kind = "cache"
AnchoredByCache == N >= 1 /\ hooks[1].kind = "cache" /\ hooks[1].depth = 1
AnchoredByGuard == G >= 1 /\ guards[1].below = 0 /\ guards[1].depth = 1
OutermostEnds == phase = "leaving" /\ depth = 1

\* Deeper suites later.
NestingInv ==
    /\ \A j \in 1 .. N : \A i \in 1 .. N :
           i <= j => hooks[i].depth <= hooks[j].depth
    /\ \A j \in 1 .. N : hooks[j].depth \in 1 .. depth /\ hooks[j].effect # 0
    /\ \A j \in 1 .. G : \A i \in 1 .. G :
           i < j => guards[i].depth < guards[j].depth
    /\ \A g \in 1 .. G : guards[g].depth \in 1 .. depth

PhaseInv ==
    /\ phase \in {"rest", "leaving"} => pos = 0
    /\ phase \in {"rest", "leaving"} => gpos = 0
    /\ phase = "save" => pos < N
    /\ phase # "rest" => depth > 0
    /\ phase \in {"setUp", "save", "test"} => failedDepth = 0

\* The type invariant, but for what set-ups do when they time out.
Types ==
    /\ chain \in Seq(Nat) /\ base \in Seq(Nat)
    /\ nextId \in Nat \ {0}
    /\ DOMAIN snapshots \subseteq 1 .. nextId - 1
    /\ \A id \in DOMAIN snapshots : snapshots[id] \in Seq(Nat)
    /\ SNAPSHOTS \in Seq(Nat)
    /\ hooks \in Seq(Hook)
    /\ guards \in Seq(Guard)
    /\ phase \in Phase
    /\ depth \in Nat /\ failedDepth \in 0 .. depth
    /\ pos \in 0 .. Len(hooks) /\ gpos \in 0 .. Len(guards)
    /\ registered \in Nat /\ tests \in Nat
    /\ floor \in Nat

LateTypes ==
    /\ late \subseteq LateRun /\ timeouts \in Nat
    /\ disturbed \in BOOLEAN /\ stray \in Nat

TypeInv == Types /\ NestingInv /\ PhaseInv

SuitesInv ==
    /\ \A g \in 1 .. G : \A j \in 1 .. N :
           j > guards[g].below => hooks[j].depth >= guards[g].depth
    /\ \A j \in 1 .. N : Cached(j) =>
           /\ \A i \in 1 .. j : Cached(i)
           /\ \A g \in 1 .. G : j <= guards[g].below
    /\ depth > 0 /\ ~OutermostEnds => AnchoredByCache \/ AnchoredByGuard

\* The stack: one snapshot per set-up that ran, all of them on the node.
StackInv ==
    /\ floor <= Len(SNAPSHOTS)
    /\ S <= N
    /\ \A j \in 1 .. S : Saved(Mine[j], j)
    /\ \A j \in 1 .. S : \A i \in 1 .. S : i < j => Mine[i] < Mine[j]
    /\ \A j \in 1 .. N : hooks[j].initialized =>
           /\ Cached(j) /\ hooks[j].handle = Len(base) + j
           /\ j <= S \/ (phase = "save" /\ j = S + 1)
    /\ \A j \in 1 .. S : hooks[j].initialized

\* A guard's snapshot is younger than the stack, and gone when it is undone.
GuardsInv ==
    /\ \A g \in 1 .. G : guards[g].id < nextId
    /\ \A g \in 1 .. G : g > gpos => guards[g].id \notin DOMAIN snapshots
    /\ \A g \in 1 .. G : guards[g].id \in DOMAIN snapshots =>
           /\ \A j \in 1 .. S : Mine[j] < guards[g].id
           /\ g > 1 => guards[1].id < guards[g].id
    /\ phase = "setUp" => \A g \in 1 .. gpos : guards[g].below <= pos
    /\ phase = "save" => gpos = 0
    /\ phase = "tearDown" /\ failedDepth # 0 =>
           \A g \in 1 .. G :
               guards[g].depth > failedDepth => guards[g].id \notin DOMAIN snapshots

\* A guard around everything keeps what the outermost suite found.
AnchorInv ==
    AnchoredByGuard =>
        /\ phase = "setUp" /\ gpos = 0 => pos = 0 /\ Found(0)
        /\ phase = "test" => gpos > 0
        /\ phase \in {"setUp", "test", "tearDown"} /\ gpos > 0 => Saved(guards[1].id, 0)
        /\ phase = "tearDown" /\ gpos = 0 => Found(0)

\* The chain in each phase of a round, and before the first.
RoundInv ==
    /\ phase \in {"setUp", "save", "test"} =>
           \A j \in 1 .. pos :
               /\ Cached(j) => hooks[j].initialized
               /\ hooks[j].handle = Len(base) + j
    /\ phase = "setUp" =>
           /\ pos >= S /\ (pos >= 1 \/ S = 0) => Found(pos)
           /\ pos < S /\ pos >= 1 => Found(S)
    /\ phase = "save" =>
           /\ S < N /\ pos <= S
           /\ Cached(S + 1) /\ Found(S + 1)
           /\ hooks[S + 1].initialized \/ pos = S
           /\ hooks[S + 1].handle = Len(base) + S + 1
           /\ hooks[pos + 1].handle = Len(base) + pos + 1
    /\ phase = "test" => pos = N /\ FoundAtLeast(N)
    /\ phase = "tearDown" /\ AnchoredByCache => S > 0 \/ failedDepth = 1
    /\ phase \in {"rest", "leaving"} /\ depth > 0 /\ ~OutermostEnds
         /\ failedDepth # 1 /\ S = 0 => Found(0)

SandboxInv == TypeInv /\ SuitesInv /\ StackInv /\ GuardsInv /\ AnchorInv /\ RoundInv

----------------------------------------------------------------------------
(* Sequences.                                                               *)

LEMMA PoppedSeq ==
    ASSUME NEW X, NEW s \in Seq(X), s # <<>>
    PROVE  /\ popped(s) \in Seq(X)
           /\ Len(popped(s)) = Len(s) - 1
           /\ \A i \in 1 .. Len(s) - 1 : popped(s)[i] = s[i]
<1>. DEFINE n == Len(s) - 1
<1>1. n \in Nat /\ Len(s) = n + 1 /\ \A i \in 1 .. n : s[i] \in X
  OBVIOUS
<1>2. popped(s) = SubSeq(s, 1, n)
  BY DEF popped
<1>. HIDE DEF n
<1>3. 1 \in Int /\ n \in Int /\ n - 1 + 1 = n
  BY <1>1
<1>4. /\ SubSeq(s, 1, n) \in Seq(X)
      /\ Len(SubSeq(s, 1, n)) = IF 1 <= n THEN n - 1 + 1 ELSE 0
      /\ \A i \in 1 .. n - 1 + 1 : SubSeq(s, 1, n)[i] = s[1 + i - 1]
  BY <1>1, <1>3, SubSeqProperties
<1>5. Len(SubSeq(s, 1, n)) = n /\ Len(s) - 1 = n
  BY <1>1, <1>4
<1>6. \A i \in 1 .. n : SubSeq(s, 1, n)[i] = s[i]
  BY <1>1, <1>4
<1>. QED
  BY <1>1, <1>2, <1>4, <1>5, <1>6

LEMMA HookFields ==
    ASSUME NEW hs \in Seq(Hook)
    PROVE  /\ Len(hs) \in Nat
           /\ \A i \in 1 .. Len(hs) :
                  /\ hs[i] \in Hook /\ hs[i].kind \in Kind
                  /\ hs[i].depth \in Nat /\ hs[i].effect \in Nat
                  /\ hs[i].initialized \in BOOLEAN /\ hs[i].handle \in Nat
<1>1. Len(hs) \in Nat /\ \A i \in 1 .. Len(hs) : hs[i] \in Hook
  OBVIOUS
<1>2. \A hook \in Hook :
         /\ hook.kind \in Kind /\ hook.depth \in Nat /\ hook.effect \in Nat
         /\ hook.initialized \in BOOLEAN /\ hook.handle \in Nat
  BY DEF Hook
<1>. QED
  BY <1>1, <1>2

LEMMA GuardFields ==
    ASSUME NEW gs \in Seq(Guard)
    PROVE  /\ Len(gs) \in Nat
           /\ \A i \in 1 .. Len(gs) :
                  /\ gs[i] \in Guard /\ gs[i].below \in Nat
                  /\ gs[i].depth \in Nat /\ gs[i].id \in Nat
<1>1. Len(gs) \in Nat /\ \A i \in 1 .. Len(gs) : gs[i] \in Guard
  OBVIOUS
<1>2. \A guard \in Guard : guard.below \in Nat /\ guard.depth \in Nat /\ guard.id \in Nat
  BY DEF Guard
<1>. QED
  BY <1>1, <1>2

LEMMA AppendSeq ==
    ASSUME NEW X, NEW s \in Seq(X), NEW x \in X
    PROVE  /\ Append(s, x) \in Seq(X)
           /\ Len(Append(s, x)) = Len(s) + 1
           /\ \A i \in 1 .. Len(s) : Append(s, x)[i] = s[i]
           /\ Append(s, x)[Len(s) + 1] = x
OBVIOUS

LEMMA OwnPartSeq ==
    ASSUME NEW s \in Seq(Nat), NEW f \in Nat
    PROVE  /\ OwnPart(s, f) \in Seq(Nat) /\ Len(OwnPart(s, f)) \in Nat
           /\ f >= Len(s) => Len(OwnPart(s, f)) = 0
           /\ f <= Len(s) =>
                  /\ Len(OwnPart(s, f)) = Len(s) - f
                  /\ \A i \in 1 .. Len(OwnPart(s, f)) : OwnPart(s, f)[i] = s[f + i]
<1>1. f + 1 \in Int /\ Len(s) \in Nat /\ Len(s) - (f + 1) + 1 = Len(s) - f
  OBVIOUS
<1>2. \A i \in f + 1 .. Len(s) : s[i] \in Nat
  OBVIOUS
<1>3. /\ SubSeq(s, f + 1, Len(s)) \in Seq(Nat)
      /\ Len(SubSeq(s, f + 1, Len(s))) = IF f + 1 <= Len(s) THEN Len(s) - (f + 1) + 1 ELSE 0
      /\ \A i \in 1 .. Len(s) - (f + 1) + 1 : SubSeq(s, f + 1, Len(s))[i] = s[f + 1 + i - 1]
  BY <1>1, <1>2, SubSeqProperties
<1>4. /\ f <= Len(s) => Len(OwnPart(s, f)) = Len(s) - f
      /\ f >= Len(s) => Len(OwnPart(s, f)) = 0
      /\ Len(OwnPart(s, f)) \in Nat
  <2>. DEFINE k == Len(OwnPart(s, f))  n == Len(s)
  <2>1. k = IF f + 1 <= n THEN n - f ELSE 0
    BY <1>1, <1>3 DEF OwnPart
  <2>2. n \in Nat
    BY <1>1
  <2>. HIDE DEF k, n
  <2>3. (f <= n => k = n - f) /\ (f >= n => k = 0) /\ k \in Nat
    BY <2>1, <2>2
  <2>. QED
    BY <2>3 DEF k, n
<1>5. \A i \in 1 .. Len(s) - f : OwnPart(s, f)[i] = s[f + i]
  <2>1. \A i \in 1 .. Len(s) - f : f + 1 + i - 1 = f + i
    BY <1>1
  <2>. QED
    BY <1>1, <1>3, <2>1 DEF OwnPart
<1>6. OwnPart(s, f) \in Seq(Nat)
  BY <1>3 DEF OwnPart
<1>. QED
  BY <1>4, <1>5, <1>6

LEMMA OwnPartPopped ==
    ASSUME NEW s \in Seq(Nat), NEW f \in Nat, f <= Len(s), OwnPart(s, f) # <<>>
    PROVE  /\ f <= Len(popped(s)) /\ s # <<>> /\ popped(s) \in Seq(Nat)
           /\ OwnPart(popped(s), f) = popped(OwnPart(s, f))
           /\ OwnPart(s, f)[Len(OwnPart(s, f))] = s[Len(s)]
<1>. DEFINE m == OwnPart(s, f)
<1>1. /\ m \in Seq(Nat) /\ Len(m) = Len(s) - f /\ Len(m) >= 1 /\ Len(s) \in Nat
      /\ \A i \in 1 .. Len(m) : m[i] = s[f + i]
  BY OwnPartSeq
<1>2. s # <<>> /\ m # <<>>
  BY <1>1
<1>3. /\ popped(s) \in Seq(Nat) /\ Len(popped(s)) = Len(s) - 1
      /\ \A i \in 1 .. Len(s) - 1 : popped(s)[i] = s[i]
  BY <1>2, PoppedSeq
<1>4. /\ popped(m) \in Seq(Nat) /\ Len(popped(m)) = Len(m) - 1
      /\ \A i \in 1 .. Len(m) - 1 : popped(m)[i] = m[i]
  BY <1>1, <1>2, PoppedSeq
<1>5. f <= Len(popped(s)) /\ Len(popped(s)) - f = Len(m) - 1
  BY <1>1, <1>3
<1>6. /\ OwnPart(popped(s), f) \in Seq(Nat) /\ Len(OwnPart(popped(s), f)) = Len(m) - 1
      /\ \A i \in 1 .. Len(m) - 1 : OwnPart(popped(s), f)[i] = popped(s)[f + i]
  <2>. DEFINE r == popped(s)
  <2>1. r \in Seq(Nat) /\ f <= Len(r) /\ Len(r) - f = Len(m) - 1
    BY <1>3, <1>5
  <2>. HIDE DEF r, m
  <2>2. /\ OwnPart(r, f) \in Seq(Nat) /\ Len(OwnPart(r, f)) = Len(m) - 1
        /\ \A i \in 1 .. Len(m) - 1 : OwnPart(r, f)[i] = r[f + i]
    <3>1. /\ OwnPart(r, f) \in Seq(Nat) /\ Len(OwnPart(r, f)) = Len(r) - f
          /\ \A i \in 1 .. Len(OwnPart(r, f)) : OwnPart(r, f)[i] = r[f + i]
      BY <2>1, OwnPartSeq
    <3>2. Len(OwnPart(r, f)) = Len(m) - 1
      BY <2>1, <3>1
    <3>. QED
      BY <3>1, <3>2
  <2>. QED
    BY <2>2 DEF r
<1>7. \A i \in 1 .. Len(m) - 1 : i \in 1 .. Len(m) /\ f + i \in 1 .. Len(s) - 1
  BY <1>1
<1>8. OwnPart(popped(s), f) = popped(m)
  <2>1. \A i \in 1 .. Len(m) - 1 : OwnPart(popped(s), f)[i] = popped(m)[i]
    BY <1>1, <1>3, <1>4, <1>6, <1>7
  <2>. QED
    BY <1>4, <1>6, <2>1, SeqEqual
<1>9. m[Len(m)] = s[Len(s)]
  <2>1. Len(m) \in 1 .. Len(m) /\ f + Len(m) = Len(s)
    BY <1>1
  <2>. QED
    BY <1>1, <2>1
<1>. QED
  BY <1>2, <1>3, <1>5, <1>8, <1>9

LEMMA OwnPartAppended ==
    ASSUME NEW s \in Seq(Nat), NEW f \in Nat, f <= Len(s), NEW x \in Nat
    PROVE  /\ f <= Len(Append(s, x)) /\ Append(s, x) \in Seq(Nat)
           /\ OwnPart(Append(s, x), f) = Append(OwnPart(s, f), x)
<1>. DEFINE m == OwnPart(s, f)  t == Append(s, x)
<1>1. /\ m \in Seq(Nat) /\ Len(m) = Len(s) - f /\ Len(s) \in Nat /\ Len(m) \in Nat
      /\ \A i \in 1 .. Len(m) : m[i] = s[f + i]
  BY OwnPartSeq
<1>2. /\ t \in Seq(Nat) /\ Len(t) = Len(s) + 1 /\ t[Len(s) + 1] = x
      /\ \A i \in 1 .. Len(s) : t[i] = s[i]
  BY AppendSeq
<1>3. /\ Append(m, x) \in Seq(Nat) /\ Len(Append(m, x)) = Len(m) + 1
      /\ \A i \in 1 .. Len(m) : Append(m, x)[i] = m[i]
      /\ Append(m, x)[Len(m) + 1] = x
  BY <1>1, AppendSeq
<1>. HIDE DEF m, t
<1>4. f <= Len(t) /\ Len(t) - f = Len(m) + 1
  BY <1>1, <1>2
<1>5. /\ OwnPart(t, f) \in Seq(Nat) /\ Len(OwnPart(t, f)) = Len(m) + 1
      /\ \A i \in 1 .. Len(m) + 1 : OwnPart(t, f)[i] = t[f + i]
  BY <1>2, <1>4, OwnPartSeq
<1>6. \A i \in 1 .. Len(m) + 1 :
         \/ i \in 1 .. Len(m) /\ f + i \in 1 .. Len(s)
         \/ i = Len(m) + 1 /\ f + i = Len(s) + 1
  <2>. DEFINE k == Len(m)  n == Len(s)
  <2>1. k \in Nat /\ n \in Nat /\ k = n - f
    BY <1>1
  <2>. HIDE DEF k, n
  <2>2. \A i \in 1 .. k + 1 : (i \in 1 .. k /\ f + i \in 1 .. n) \/ (i = k + 1 /\ f + i = n + 1)
    BY <2>1
  <2>. QED
    BY <2>2 DEF k, n
<1>7. \A i \in 1 .. Len(m) + 1 : OwnPart(t, f)[i] = Append(m, x)[i]
  BY <1>1, <1>2, <1>3, <1>5, <1>6
<1>8. OwnPart(t, f) = Append(m, x)
  BY <1>3, <1>5, <1>7, SeqEqual
<1>. QED
  BY <1>2, <1>4, <1>8 DEF m, t

LEMMA NewHooks ==
    ASSUME Types, NEW suite \in Suites
    PROVE  /\ newHooks(suite.setups) \in Seq(Hook)
           /\ Len(newHooks(suite.setups)) = Len(suite.setups)
           /\ \A i \in 1 .. Len(suite.setups) :
                  /\ newHooks(suite.setups)[i].depth = depth + 1
                  /\ newHooks(suite.setups)[i].effect = registered + i
                  /\ newHooks(suite.setups)[i].initialized = FALSE
<1>. DEFINE n == Len(suite.setups)
            hook(i) == [kind |-> suite.setups[i], depth |-> depth + 1,
                        effect |-> registered + i, initialized |-> FALSE, handle |-> 0]
<1>1. n \in Nat /\ \A i \in 1 .. n : suite.setups[i] \in Kind
  BY SandboxAssumption
<1>2. \A i \in 1 .. n : hook(i) \in Hook
  BY <1>1 DEF Types, Hook
<1>3. newHooks(suite.setups) = [i \in 1 .. n |-> hook(i)]
  BY DEF newHooks
<1>. HIDE DEF n
<1>4. /\ [i \in 1 .. n |-> hook(i)] \in Seq(Hook)
      /\ Len([i \in 1 .. n |-> hook(i)]) = n
  <2>. HIDE DEF hook
  <2>. QED
    BY <1>1, <1>2
<1>. QED
  BY <1>1, <1>3, <1>4 DEF n

LEMMA NewGuards ==
    ASSUME Types, NEW suite \in Suites
    PROVE  /\ newGuards(suite.guards) \in Seq(Guard)
           /\ Len(newGuards(suite.guards)) = Len(suite.guards)
           /\ Len(suite.guards) \in Nat /\ Len(suite.guards) <= 1
           /\ \A i \in 1 .. Len(suite.guards) :
                  /\ newGuards(suite.guards)[i].depth = depth + 1
                  /\ newGuards(suite.guards)[i].id = 0
                  /\ newGuards(suite.guards)[i].below \in Len(hooks) .. Len(hooks) + Len(suite.setups)
<1>. DEFINE n == Len(suite.guards)
            guard(i) == [below |-> Len(hooks) + suite.guards[i], depth |-> depth + 1, id |-> 0]
<1>1. /\ n \in Nat /\ n <= 1 /\ Len(hooks) \in Nat /\ Len(suite.setups) \in Nat
      /\ \A i \in 1 .. n : suite.guards[i] \in 0 .. Len(suite.setups)
  <2>1. /\ suite.setups \in Seq(Kind) /\ suite.guards \in Seq(0 .. Len(suite.setups))
        /\ Len(suite.guards) <= 1
    BY SandboxAssumption
  <2>2. Len(suite.guards) \in Nat /\ Len(suite.setups) \in Nat
    BY <2>1
  <2>3. \A i \in 1 .. Len(suite.guards) : suite.guards[i] \in 0 .. Len(suite.setups)
    BY <2>1
  <2>4. Len(hooks) \in Nat
    BY HookFields DEF Types
  <2>5. Len(suite.guards) <= 1
    BY <2>1
  <2>. QED
    BY <2>2, <2>3, <2>4, <2>5
<1>2. \A i \in 1 .. n : guard(i) \in Guard
  BY <1>1 DEF Types, Guard
<1>3. newGuards(suite.guards) = [i \in 1 .. n |-> guard(i)]
  BY DEF newGuards
<1>5. \A i \in 1 .. n : guard(i).below \in Len(hooks) .. Len(hooks) + Len(suite.setups)
  BY <1>1
<1>. HIDE DEF n
<1>4. /\ [i \in 1 .. n |-> guard(i)] \in Seq(Guard)
      /\ Len([i \in 1 .. n |-> guard(i)]) = n
  <2>. HIDE DEF guard
  <2>. QED
    BY <1>1, <1>2
<1>6. \A i \in 1 .. n :
         /\ newGuards(suite.guards)[i].depth = depth + 1
         /\ newGuards(suite.guards)[i].id = 0
         /\ newGuards(suite.guards)[i].below \in Len(hooks) .. Len(hooks) + Len(suite.setups)
  BY <1>3, <1>5
<1>7. newGuards(suite.guards) \in Seq(Guard) /\ Len(newGuards(suite.guards)) = n
  BY <1>3, <1>4
<1>. QED
  BY <1>1, <1>6, <1>7 DEF n

LEMMA ConcatSeq ==
    ASSUME NEW X, NEW s \in Seq(X), NEW t \in Seq(X)
    PROVE  /\ s \o t \in Seq(X)
           /\ Len(s \o t) = Len(s) + Len(t)
           /\ \A i \in 1 .. Len(s) : (s \o t)[i] = s[i]
           /\ \A i \in 1 .. Len(t) : (s \o t)[Len(s) + i] = t[i]
           /\ \A i \in Len(s) + 1 .. Len(s) + Len(t) : (s \o t)[i] = t[i - Len(s)]
OBVIOUS

----------------------------------------------------------------------------
(* The type invariant.                                                      *)

LEMMA TypeInit == Init => TypeInv
BY DEF Init, ChainInit, TypeInv, Types, NestingInv, PhaseInv, Phase, N, G

LEMMA TypeOpen ==
    ASSUME TypeInv, NEW suite \in Suites, OpenSuite(suite)
    PROVE  TypeInv'
<1>. DEFINE hs == newHooks(suite.setups)
            gs == newGuards(suite.guards)
<1>1. /\ hooks' \in Seq(Hook) /\ N' = N + Len(hs)
      /\ \A i \in 1 .. N : hooks'[i] = hooks[i]
      /\ \A i \in N + 1 .. N' : hooks'[i].depth = depth + 1 /\ hooks'[i].effect # 0
      /\ Len(hs) = Len(suite.setups) /\ Len(hs) \in Nat
  <2>1. hs \in Seq(Hook) /\ hooks \in Seq(Hook) /\ hooks' = hooks \o hs
    BY NewHooks DEF OpenSuite, TypeInv, Types
  <2>2. \A i \in 1 .. Len(hs) : hs[i].depth = depth + 1 /\ hs[i].effect = registered + i
    BY NewHooks DEF TypeInv
  <2>3. Len(hs) = Len(suite.setups)
    BY NewHooks DEF TypeInv
  <2>. HIDE DEF hs
  <2>4. /\ hooks \o hs \in Seq(Hook) /\ Len(hooks \o hs) = N + Len(hs)
        /\ \A i \in 1 .. N : (hooks \o hs)[i] = hooks[i]
        /\ \A i \in N + 1 .. N + Len(hs) : (hooks \o hs)[i] = hs[i - N]
    BY <2>1, ConcatSeq DEF N
  <2>5. N \in Nat /\ Len(hs) \in Nat /\ registered \in Nat
    BY <2>1 DEF N, TypeInv, Types
  <2>6. \A i \in N + 1 .. N + Len(hs) : i - N \in 1 .. Len(hs)
    BY <2>5
  <2>7. N' = Len(hooks')
    BY DEF N
  <2>. QED
    BY <2>1, <2>2, <2>3, <2>4, <2>5, <2>6, <2>7, SMTT(30)
<1>2. /\ guards' \in Seq(Guard) /\ G' = G + Len(gs)
      /\ \A i \in 1 .. G : guards'[i] = guards[i]
      /\ \A i \in G + 1 .. G' : guards'[i].depth = depth + 1
      /\ Len(gs) \in Nat /\ Len(gs) <= 1
  <2>1. gs \in Seq(Guard) /\ guards \in Seq(Guard) /\ guards' = guards \o gs
    BY NewGuards DEF OpenSuite, TypeInv, Types
  <2>2. \A i \in 1 .. Len(gs) : gs[i].depth = depth + 1
    BY NewGuards DEF TypeInv
  <2>3. Len(gs) \in Nat /\ Len(gs) <= 1
    BY NewGuards DEF TypeInv
  <2>. HIDE DEF gs
  <2>4. /\ guards \o gs \in Seq(Guard) /\ Len(guards \o gs) = G + Len(gs)
        /\ \A i \in 1 .. G : (guards \o gs)[i] = guards[i]
        /\ \A i \in G + 1 .. G + Len(gs) :
               (guards \o gs)[i] = gs[i - G]
    BY <2>1, ConcatSeq DEF G
  <2>5. G \in Nat /\ \A i \in G + 1 .. G + Len(gs) : i - G \in 1 .. Len(gs)
    BY <2>1, <2>3 DEF G
  <2>6. G' = Len(guards')
    BY DEF G
  <2>. QED
    BY <2>1, <2>2, <2>3, <2>4, <2>5, <2>6
<1>. HIDE DEF hs, gs
<1>3. N \in Nat /\ G \in Nat /\ depth \in Nat /\ depth' = depth + 1
  BY DEF TypeInv, Types, OpenSuite, N, G
<1>4. \A i \in 1 .. N : hooks[i].depth \in Nat
  BY HookFields DEF TypeInv, Types, N
<1>5. \A i \in 1 .. G : guards[i].depth \in Nat
  BY GuardFields DEF TypeInv, Types, G
<1>6. NestingInv'
  <2>1. N' \in Nat /\ N' >= N /\ G' \in Nat /\ G' <= G + 1
    <3>1. N' \in Nat /\ N' >= N
      BY <1>1, <1>3
    <3>2. G' \in Nat /\ G' <= G + 1
      BY <1>2, <1>3
    <3>. QED
      BY <3>1, <3>2
  <2>2. \A j \in 1 .. N' : \A i \in 1 .. N' : i <= j => hooks'[i].depth <= hooks'[j].depth
    <3>1. \A i \in 1 .. N : hooks'[i].depth = hooks[i].depth /\ hooks[i].depth <= depth
      BY <1>1, <1>3, <1>4 DEF TypeInv, NestingInv
    <3>2. \A i \in 1 .. N' : i \in 1 .. N \/ i \in N + 1 .. N'
      BY <1>3, <2>1
    <3>3. \A i \in 1 .. N, j \in 1 .. N : i <= j => hooks[i].depth <= hooks[j].depth
      BY DEF TypeInv, NestingInv
    <3>4. \A i \in 1 .. N, j \in N + 1 .. N' : hooks'[i].depth <= hooks'[j].depth
      <4>. TAKE i \in 1 .. N, j \in N + 1 .. N'
      <4>1. hooks'[i].depth = hooks[i].depth /\ hooks[i].depth <= depth
        BY <3>1
      <4>2. hooks'[j].depth = depth + 1
        BY <1>1
      <4>3. hooks[i].depth \in Nat
        BY <1>4
      <4>. QED
        BY <1>3, <4>1, <4>2, <4>3
    <3>5. \A i \in N + 1 .. N', j \in 1 .. N : ~(i <= j)
      BY <1>3, <2>1
    <3>6. \A i \in N + 1 .. N', j \in N + 1 .. N' : hooks'[i].depth <= hooks'[j].depth
      BY <1>1, <1>3
    <3>. QED
      BY <3>1, <3>2, <3>3, <3>4, <3>5, <3>6
  <2>3. \A j \in 1 .. N' : hooks'[j].depth \in 1 .. depth' /\ hooks'[j].effect # 0
    <3>1. \A i \in 1 .. N : hooks'[i] = hooks[i] /\ hooks[i].depth \in 1 .. depth /\ hooks[i].effect # 0
      BY <1>1 DEF TypeInv, NestingInv
    <3>2. \A i \in 1 .. N' : i \in 1 .. N \/ i \in N + 1 .. N'
      BY <1>3, <2>1
    <3>3. \A j \in 1 .. N : hooks'[j].depth \in 1 .. depth' /\ hooks'[j].effect # 0
      BY <1>3, <1>4, <3>1
    <3>4. \A j \in N + 1 .. N' : hooks'[j].depth \in 1 .. depth' /\ hooks'[j].effect # 0
      BY <1>1, <1>3
    <3>. QED
      BY <3>2, <3>3, <3>4
  <2>4. \A j \in 1 .. G' : \A i \in 1 .. G' :
           i < j => guards'[i].depth < guards'[j].depth
    BY <1>2, <1>3, <1>5, <2>1, SMTT(30) DEF TypeInv, NestingInv
  <2>5. \A g \in 1 .. G' : guards'[g].depth \in 1 .. depth'
    BY <1>2, <1>3, <1>5, <2>1 DEF TypeInv, NestingInv
  <2>. QED
    BY <2>2, <2>3, <2>4, <2>5 DEF NestingInv
<1>7. Types'
  <2>1. registered' \in Nat
    <3>1. registered' = registered + Len(hs) /\ registered \in Nat
      BY <1>1 DEF OpenSuite, TypeInv, Types
    <3>. QED
      BY <1>1, <3>1
  <2>2. depth' \in Nat /\ failedDepth' \in 0 .. depth' /\ base' \in Seq(Nat)
    BY <1>3 DEF OpenSuite, TypeInv, Types
  <2>3. pos' \in 0 .. Len(hooks') /\ gpos' \in 0 .. Len(guards')
    <3>1. pos' = 0 /\ gpos' = 0
      BY DEF OpenSuite, TypeInv, PhaseInv
    <3>2. Len(hooks') \in Nat /\ Len(guards') \in Nat
      BY <1>1, <1>2, HookFields, GuardFields
    <3>. QED
      BY <3>1, <3>2
  <2>4. floor' \in Nat
    BY DEF OpenSuite, TypeInv, Types
  <2>. QED
    BY <1>1, <1>2, <2>1, <2>2, <2>3, <2>4 DEF OpenSuite, TypeInv, Types, nodeVars
<1>8. PhaseInv'
  BY <1>1, <1>3 DEF OpenSuite, TypeInv, PhaseInv
<1>. QED
  BY <1>6, <1>7, <1>8 DEF TypeInv

LEMMA TypeLeaveHook ==
    ASSUME TypeInv, floor' = floor, LeaveHook
    PROVE  TypeInv'
<1>1. /\ hooks \in Seq(Hook) /\ hooks # <<>> /\ hooks' = popped(hooks)
      /\ SNAPSHOTS \in Seq(Nat)
  BY DEF LeaveHook, Innermost, TypeInv, Types
<1>2. hooks' \in Seq(Hook) /\ N' = N - 1 /\ \A i \in 1 .. N - 1 : hooks'[i] = hooks[i]
  BY <1>1, PoppedSeq DEF N
<1>3. SNAPSHOTS' \in Seq(Nat)
  BY <1>1, PoppedSeq DEF LeaveHook
<1>4. N \in Nat /\ N > 0 /\ Len(hooks') = N - 1
  BY <1>1, <1>2 DEF N
<1>5. NestingInv'
  <2>1. /\ UNCHANGED <<guards, depth>>
        /\ \A i \in 1 .. N' : i \in 1 .. N /\ hooks'[i] = hooks[i]
    BY <1>2, <1>4 DEF LeaveHook
  <2>2. G' = G
    BY <2>1 DEF G
  <2>. QED
    BY <2>1, <2>2 DEF TypeInv, NestingInv
<1>6. Types'
  BY <1>2, <1>3, <1>4 DEF LeaveHook, TypeInv, PhaseInv, Types, nodeVars
<1>7. PhaseInv'
  BY DEF LeaveHook, TypeInv, PhaseInv
<1>. QED
  BY <1>5, <1>6, <1>7 DEF TypeInv

LEMMA TypeLeaveSuite ==
    ASSUME TypeInv, floor' = floor, LeaveSuite
    PROVE  TypeInv'
<1>1. /\ guards \in Seq(Guard) /\ hooks \in Seq(Hook)
      /\ \A i \in 1 .. N : hooks[i].depth \in Nat
      /\ \A i \in 1 .. G : guards[i].depth \in Nat
      /\ depth \in Nat /\ depth > 0
  BY HookFields, GuardFields DEF LeaveSuite, TypeInv, Types, PhaseInv, N, G
<1>2. \A i \in 1 .. N : hooks[i].depth < depth
  <2>1. N = 0 \/ (N > 0 /\ hooks[N].depth < depth)
    BY <1>1 DEF LeaveSuite, Innermost, TypeInv, NestingInv, N, G
  <2>. QED
    BY <1>1, <2>1 DEF TypeInv, NestingInv, N, G
<1>3. /\ guards' \in Seq(Guard) /\ G' <= G
      /\ \A i \in 1 .. G' : guards'[i] = guards[i] /\ guards[i].depth < depth
  <2>1. CASE Innermost(guards)
    <3>1. /\ guards' \in Seq(Guard) /\ G' = G - 1
          /\ \A i \in 1 .. G - 1 : guards'[i] = guards[i]
      BY <1>1, <2>1, PoppedSeq DEF LeaveSuite, Innermost, G
    <3>. QED
      BY <1>1, <2>1, <3>1 DEF Innermost, TypeInv, NestingInv, G
  <2>2. CASE ~Innermost(guards)
    <3>1. guards' = guards
      BY <2>2 DEF LeaveSuite
    <3>2. G = 0 \/ (G > 0 /\ guards[G].depth < depth)
      BY <1>1, <2>2 DEF Innermost, TypeInv, NestingInv, G
    <3>. QED
      BY <1>1, <3>1, <3>2 DEF TypeInv, NestingInv, G
  <2>. QED
    BY <2>1, <2>2
<1>4. NestingInv'
  BY <1>1, <1>2, <1>3, SMTT(30) DEF LeaveSuite, TypeInv, NestingInv, N, G
<1>5. Types' /\ PhaseInv'
  BY <1>1, <1>3 DEF LeaveSuite, TypeInv, PhaseInv, Types, Phase, nodeVars, N, G, failureAfter
<1>. QED
  BY <1>4, <1>5 DEF TypeInv

\* A set-up only changes a flag or a handle of its hook.
LEMMA EditedHook ==
    ASSUME hooks \in Seq(Hook), NEW k \in 1 .. N, NEW x \in Nat,
           \/ hooks' = [hooks EXCEPT ![k].handle = x]
           \/ hooks' = [hooks EXCEPT ![k].initialized = TRUE]
    PROVE  /\ hooks' \in Seq(Hook) /\ N' = N
           /\ \A i \in 1 .. N :
                  /\ hooks'[i].kind = hooks[i].kind
                  /\ hooks'[i].depth = hooks[i].depth
                  /\ hooks'[i].effect = hooks[i].effect
                  /\ i # k => hooks'[i] = hooks[i]
           /\ hooks' = [hooks EXCEPT ![k].handle = x] =>
                  hooks'[k].initialized = hooks[k].initialized
           /\ hooks' = [hooks EXCEPT ![k].initialized = TRUE] => hooks'[k].initialized
<1>1. hooks \in Seq(Hook) /\ k \in 1 .. Len(hooks)
  BY DEF N
<1>2. hooks[k] \in Hook
  BY <1>1
<1>3. /\ [hooks[k] EXCEPT !.handle = x] \in Hook
      /\ [hooks[k] EXCEPT !.initialized = TRUE] \in Hook
  BY <1>2 DEF Hook
<1>4. /\ \A f : [hooks[k] EXCEPT !.handle = f].kind = hooks[k].kind
      /\ \A f : [hooks[k] EXCEPT !.handle = f].depth = hooks[k].depth
      /\ \A f : [hooks[k] EXCEPT !.handle = f].effect = hooks[k].effect
      /\ \A f : [hooks[k] EXCEPT !.handle = f].initialized = hooks[k].initialized
      /\ \A f : [hooks[k] EXCEPT !.initialized = f].kind = hooks[k].kind
      /\ \A f : [hooks[k] EXCEPT !.initialized = f].depth = hooks[k].depth
      /\ \A f : [hooks[k] EXCEPT !.initialized = f].effect = hooks[k].effect
      /\ \A f : [hooks[k] EXCEPT !.initialized = f].initialized = f
  BY <1>2 DEF Hook
<1>5. ASSUME NEW hook \in Hook, hooks' = [hooks EXCEPT ![k] = hook]
      PROVE  /\ hooks' \in Seq(Hook) /\ Len(hooks') = Len(hooks)
             /\ \A i \in 1 .. Len(hooks) : hooks'[i] = IF i = k THEN hook ELSE hooks[i]
  BY <1>1, <1>5, ExceptSeq
<1>6. hooks' = [hooks EXCEPT ![k].handle = x] =>
         /\ hooks' \in Seq(Hook) /\ Len(hooks') = Len(hooks)
         /\ \A i \in 1 .. Len(hooks) :
               hooks'[i] = IF i = k THEN [hooks[k] EXCEPT !.handle = x] ELSE hooks[i]
  BY <1>3, <1>5
<1>7. hooks' = [hooks EXCEPT ![k].initialized = TRUE] =>
         /\ hooks' \in Seq(Hook) /\ Len(hooks') = Len(hooks)
         /\ \A i \in 1 .. Len(hooks) :
               hooks'[i] = IF i = k THEN [hooks[k] EXCEPT !.initialized = TRUE] ELSE hooks[i]
  BY <1>3, <1>5
<1>8. ASSUME NEW new, new.kind = hooks[k].kind, new.depth = hooks[k].depth,
             new.effect = hooks[k].effect,
             hooks' \in Seq(Hook) /\ Len(hooks') = Len(hooks),
             \A i \in 1 .. Len(hooks) : hooks'[i] = IF i = k THEN new ELSE hooks[i]
      PROVE  /\ hooks' \in Seq(Hook) /\ N' = N
             /\ \A i \in 1 .. N :
                    /\ hooks'[i].kind = hooks[i].kind
                    /\ hooks'[i].depth = hooks[i].depth
                    /\ hooks'[i].effect = hooks[i].effect
                    /\ i # k => hooks'[i] = hooks[i]
             /\ hooks'[k] = new
  BY <1>1, <1>8 DEF N
<1>9. /\ hooks' \in Seq(Hook) /\ N' = N
      /\ \A i \in 1 .. N :
             /\ hooks'[i].kind = hooks[i].kind
             /\ hooks'[i].depth = hooks[i].depth
             /\ hooks'[i].effect = hooks[i].effect
             /\ i # k => hooks'[i] = hooks[i]
  <2>1. CASE hooks' = [hooks EXCEPT ![k].handle = x]
    BY <1>4, <1>6, <1>8, <2>1
  <2>2. CASE hooks' = [hooks EXCEPT ![k].initialized = TRUE]
    BY <1>4, <1>7, <1>8, <2>2
  <2>. QED
    BY <2>1, <2>2
<1>10. ASSUME hooks' = [hooks EXCEPT ![k].handle = x]
       PROVE  hooks'[k].initialized = hooks[k].initialized
  BY <1>1, <1>4, <1>6, <1>10
<1>11. ASSUME hooks' = [hooks EXCEPT ![k].initialized = TRUE]
       PROVE  hooks'[k].initialized
  BY <1>1, <1>4, <1>7, <1>11
<1>. QED
  BY <1>9, <1>10, <1>11

LEMMA TypeHooks ==
    ASSUME TypeInv, HookNext \/ phase = "save",
           NEW x \in Nat, hooks' = [hooks EXCEPT ![pos + 1].handle = x]
                           \/ hooks' = [hooks EXCEPT ![pos + 1].initialized = TRUE]
    PROVE  /\ hooks' \in Seq(Hook) /\ N' = N /\ pos + 1 \in 1 .. N
           /\ \A i \in 1 .. N :
                  /\ hooks'[i].kind = hooks[i].kind
                  /\ hooks'[i].depth = hooks[i].depth
                  /\ hooks'[i].effect = hooks[i].effect
                  /\ i # pos + 1 => hooks'[i] = hooks[i]
           /\ hooks' = [hooks EXCEPT ![pos + 1].handle = x] =>
                  hooks'[pos + 1].initialized = hooks[pos + 1].initialized
           /\ hooks' = [hooks EXCEPT ![pos + 1].initialized = TRUE] => hooks'[pos + 1].initialized
<1>1. hooks \in Seq(Hook) /\ pos + 1 \in 1 .. N
  BY SMTT(30) DEF TypeInv, Types, PhaseInv, HookNext, N
<1>. QED
  BY <1>1, EditedHook

\* What the node does, as seen from its clients.
NodeType ==
    /\ chain \in Seq(Nat) /\ nextId \in Nat \ {0}
    /\ DOMAIN snapshots \subseteq 1 .. nextId - 1
    /\ \A id \in DOMAIN snapshots : snapshots[id] \in Seq(Nat)

LEMMA Saving ==
    ASSUME NodeType, saveSnapshotAsync
    PROVE  /\ NodeType' /\ nextId' = nextId + 1 /\ chain' = chain
           /\ DOMAIN snapshots' = DOMAIN snapshots \union {nextId}
           /\ nextId \notin DOMAIN snapshots
           /\ snapshots'[nextId] = chain
           /\ \A id \in DOMAIN snapshots : snapshots'[id] = snapshots[id]
BY DEF NodeType, saveSnapshotAsync

LEMMA Reverting ==
    ASSUME NodeType, NEW id \in Nat, revertByIdAsync(id)
    PROVE  /\ NodeType' /\ nextId' = nextId
           /\ DOMAIN snapshots' \subseteq DOMAIN snapshots
           /\ \A other \in DOMAIN snapshots' : snapshots'[other] = snapshots[other]
           /\ \A other \in DOMAIN snapshots : other < id => other \in DOMAIN snapshots'
           /\ id \notin DOMAIN snapshots'
           /\ id \in DOMAIN snapshots =>
                  /\ chain' = snapshots[id]
                  /\ \A other \in DOMAIN snapshots' : other < id
           /\ id \notin DOMAIN snapshots => UNCHANGED <<chain, snapshots>>
BY DEF NodeType, revertByIdAsync, Kept

LEMMA Transacting ==
    ASSUME NodeType, NEW effect \in Nat, Transact(effect)
    PROVE  /\ NodeType' /\ UNCHANGED <<snapshots, nextId>>
           /\ Len(chain') = Len(chain) + 1 /\ Len(chain) \in Nat
           /\ \A i \in 1 .. Len(chain) : chain'[i] = chain[i]
           /\ chain'[Len(chain) + 1] = effect
<1>1. chain \in Seq(Nat) /\ chain' = Append(chain, effect)
  BY DEF NodeType, Transact
<1>. QED
  BY <1>1, AppendSeq DEF NodeType, Transact

LEMMA TypeQuiet ==
    ASSUME TypeInv, floor' = floor,
           \/ StartLeaving \/ StartRound \/ BeginTest \/ EndTest \/ EndRound
    PROVE  TypeInv'
<1>1. UNCHANGED <<nodeVars, SNAPSHOTS, mochaVars>>
  BY DEF StartLeaving, StartRound, BeginTest, EndTest, EndRound
<1>2. NestingInv'
  BY <1>1 DEF mochaVars, TypeInv, NestingInv, N, G
<1>3. Len(hooks) \in Nat /\ Len(guards) \in Nat
  BY DEF TypeInv, Types
<1>4. Types'
  BY <1>1, <1>3 DEF nodeVars, mochaVars, TypeInv, Types, PhaseInv, Phase,
     StartLeaving, StartRound, BeginTest, EndTest, EndRound
<1>5. PhaseInv'
  BY <1>1, <1>3 DEF mochaVars, TypeInv, PhaseInv, StartLeaving, StartRound, BeginTest, EndTest, EndRound
<1>. QED
  BY <1>2, <1>4, <1>5 DEF TypeInv

LEMMA TypeSaveGuard ==
    ASSUME TypeInv, floor' = floor, SaveGuard
    PROVE  /\ TypeInv' /\ G' = G /\ gpos + 1 \in 1 .. G
           /\ guards'[gpos + 1].id = nextId
           /\ \A i \in 1 .. G :
                  /\ guards'[i].below = guards[i].below
                  /\ guards'[i].depth = guards[i].depth
                  /\ i # gpos + 1 => guards'[i] = guards[i]
<1>1. guards \in Seq(Guard) /\ gpos + 1 \in 1 .. Len(guards) /\ nextId \in Nat
  BY DEF SaveGuard, GuardNext, TypeInv, Types
<1>2. guards[gpos + 1] \in Guard
  BY <1>1
<1>3. /\ [guards[gpos + 1] EXCEPT !.id = nextId] \in Guard
      /\ [guards[gpos + 1] EXCEPT !.id = nextId].id = nextId
      /\ [guards[gpos + 1] EXCEPT !.id = nextId].below = guards[gpos + 1].below
      /\ [guards[gpos + 1] EXCEPT !.id = nextId].depth = guards[gpos + 1].depth
  BY <1>1, <1>2 DEF Guard
<1>4. guards' = [guards EXCEPT ![gpos + 1] = [guards[gpos + 1] EXCEPT !.id = nextId]]
  BY DEF SaveGuard
<1>5. /\ guards' \in Seq(Guard) /\ Len(guards') = Len(guards)
      /\ \A i \in 1 .. Len(guards) :
            guards'[i] = IF i = gpos + 1 THEN [guards[gpos + 1] EXCEPT !.id = nextId]
                         ELSE guards[i]
  BY <1>1, <1>3, <1>4, ExceptSeq
<1>6. /\ G' = G /\ gpos + 1 \in 1 .. G
      /\ guards'[gpos + 1].id = nextId
      /\ \A i \in 1 .. G :
             /\ guards'[i].below = guards[i].below
             /\ guards'[i].depth = guards[i].depth
             /\ i # gpos + 1 => guards'[i] = guards[i]
  BY <1>1, <1>3, <1>5 DEF G
<1>7. NestingInv'
  <2>1. UNCHANGED <<hooks, depth, N>>
    BY DEF SaveGuard, N
  <2>. QED
    BY <1>6, <2>1 DEF TypeInv, NestingInv
<1>8. PhaseInv'
  BY DEF SaveGuard, TypeInv, PhaseInv, N
<1>9. NodeType'
  BY Saving DEF SaveGuard, NodeType, TypeInv, Types
<1>10. gpos' \in 0 .. Len(guards')
  BY <1>1, <1>5 DEF SaveGuard, TypeInv, Types
<1>11. Types'
  BY <1>5, <1>9, <1>10 DEF SaveGuard, NodeType, TypeInv, Types
<1>. QED
  BY <1>6, <1>7, <1>8, <1>11 DEF TypeInv

\* The actions that change the node or the hooks, not the suites.
LEMMA TypeHooksKept ==
    ASSUME TypeInv, floor' = floor, HookNext \/ phase = "save", NodeType',
           UNCHANGED <<guards, depth, base, failedDepth, registered, gpos, tests>>,
           NEW x \in Nat, hooks' = [hooks EXCEPT ![pos + 1].handle = x]
                           \/ hooks' = [hooks EXCEPT ![pos + 1].initialized = TRUE],
           SNAPSHOTS' \in Seq(Nat),
           \/ phase' = "setUp" /\ pos' = pos + 1
           \/ phase' = "save" /\ pos' = pos
    PROVE  TypeInv'
<1>1. /\ hooks' \in Seq(Hook) /\ N' = N /\ pos + 1 \in 1 .. N
      /\ \A i \in 1 .. N :
             /\ hooks'[i].depth = hooks[i].depth
             /\ hooks'[i].effect = hooks[i].effect
  BY TypeHooks
<1>2. NestingInv'
  <2>1. UNCHANGED <<guards, depth, G>>
    BY DEF G
  <2>. QED
    BY <1>1, <2>1 DEF TypeInv, NestingInv
<1>3. pos \in Nat /\ N \in Nat /\ Len(hooks') = N
  BY <1>1 DEF TypeInv, Types, N
<1>4. Types'
  <2>1. pos' \in 0 .. Len(hooks')
    BY <1>1, <1>3
  <2>2. phase' \in Phase
    BY DEF Phase
  <2>. QED
    BY <1>1, <2>1, <2>2 DEF TypeInv, Types, NodeType
<1>5. depth > 0 /\ failedDepth = 0
  BY DEF TypeInv, PhaseInv, HookNext
<1>6. PhaseInv'
  BY <1>1, <1>3, <1>5 DEF PhaseInv
<1>. QED
  BY <1>2, <1>4, <1>6 DEF TypeInv

----------------------------------------------------------------------------
(* What an action leaves alone.                                             *)

LEMMA Sizes ==
    ASSUME TypeInv
    PROVE  /\ N \in Nat /\ G \in Nat /\ S \in Nat /\ Len(base) \in Nat /\ Len(chain) \in Nat
           /\ pos \in 0 .. N /\ gpos \in 0 .. G
           /\ depth \in Nat /\ failedDepth \in Nat /\ nextId \in Nat
           /\ \A j \in 1 .. N : hooks[j].depth \in Nat /\ hooks[j].initialized \in BOOLEAN
           /\ \A g \in 1 .. G : guards[g].below \in Nat /\ guards[g].depth \in Nat /\ guards[g].id \in Nat
           /\ \A j \in 1 .. S : Mine[j] \in Nat
           /\ \A id \in DOMAIN snapshots : id \in Nat /\ id < nextId
           /\ NodeType /\ floor \in Nat /\ SNAPSHOTS \in Seq(Nat) /\ Mine \in Seq(Nat)
<1>0. floor \in Nat /\ SNAPSHOTS \in Seq(Nat) /\ Mine \in Seq(Nat) /\ S \in Nat
  BY OwnPartSeq DEF TypeInv, Types, S, Mine
<1>1. /\ N \in Nat /\ G \in Nat /\ S \in Nat /\ Len(base) \in Nat /\ Len(chain) \in Nat
      /\ pos \in 0 .. N /\ gpos \in 0 .. G
      /\ depth \in Nat /\ failedDepth \in Nat /\ nextId \in Nat
  BY <1>0 DEF TypeInv, Types, N, G, NodeType
<1>2. \A j \in 1 .. N : hooks[j].depth \in Nat /\ hooks[j].initialized \in BOOLEAN
  BY HookFields DEF TypeInv, Types, N
<1>3. \A g \in 1 .. G : guards[g].below \in Nat /\ guards[g].depth \in Nat /\ guards[g].id \in Nat
  BY GuardFields DEF TypeInv, Types, G
<1>4. \A j \in 1 .. S : Mine[j] \in Nat
  BY <1>0 DEF S
<1>5. (\A id \in DOMAIN snapshots : id \in Nat /\ id < nextId) /\ NodeType
  BY DEF TypeInv, Types, NodeType
<1>. QED
  BY <1>0, <1>1, <1>2, <1>3, <1>4, <1>5

LEMMA TypeRestoreGuard ==
    ASSUME TypeInv, floor' = floor, RestoreGuard
    PROVE  TypeInv'
<1>1. /\ UNCHANGED <<SNAPSHOTS, hooks, guards, depth, base, failedDepth, registered, phase, pos, tests>>
      /\ gpos > 0 /\ gpos' = gpos - 1 /\ phase = "tearDown"
  BY DEF RestoreGuard, mochaVars
<1>2. NodeType /\ gpos \in 0 .. Len(guards) /\ Len(guards) \in Nat
      /\ \A g \in 1 .. G : guards[g].id \in Nat
  BY Sizes DEF G
<1>3. NodeType'
  <2>1. CASE revertByIdAsync(guards[gpos].id)
    <3>1. guards[gpos].id \in Nat
      BY <1>1, <1>2 DEF G
    <3>. QED
      BY <1>2, <2>1, <3>1, Reverting
  <2>2. CASE UNCHANGED nodeVars
    BY <1>2, <2>2 DEF nodeVars, NodeType
  <2>. QED
    BY <2>1, <2>2 DEF RestoreGuard
<1>4. gpos' \in 0 .. Len(guards)
  BY <1>1, <1>2
<1>5. Types'
  BY <1>1, <1>3, <1>4 DEF TypeInv, Types, NodeType
<1>. QED
  BY <1>1, <1>5 DEF TypeInv, NestingInv, PhaseInv, N, G

LEMMA TypeTestActs ==
    ASSUME TypeInv, floor' = floor, TestActs
    PROVE  TypeInv'
<1>1. UNCHANGED <<SNAPSHOTS, hooks, guards, depth, base, failedDepth, registered, phase, pos, gpos, tests>>
  BY DEF TestActs, mochaVars
<1>2. NodeType'
  BY Sizes, Transacting DEF TestActs, Own
<1>3. Types'
  BY <1>1, <1>2 DEF TypeInv, Types, NodeType
<1>. QED
  BY <1>1, <1>3 DEF TypeInv, NestingInv, PhaseInv, N, G

LEMMA TypeDeploys ==
    ASSUME TypeInv, floor' = floor, HookNext, Deploys,
           UNCHANGED <<SNAPSHOTS, gpos, tests>>,
           \/ phase' = "setUp" /\ pos' = pos + 1
           \/ phase' = "save" /\ pos' = pos
    PROVE  TypeInv'
<1>1. Len(chain) + 1 \in Nat /\ NodeType /\ SNAPSHOTS' \in Seq(Nat)
  BY Sizes
<1>2. current \in Hook
  <2>1. hooks \in Seq(Hook) /\ pos + 1 \in 1 .. Len(hooks)
    BY SMTT(30) DEF TypeInv, Types, HookNext
  <2>. QED
    BY <2>1 DEF current
<1>3. NodeType'
  <2>1. current.effect \in Nat
    BY <1>2 DEF Hook
  <2>. QED
    BY <1>1, <2>1, Transacting DEF Deploys
<1>4. /\ UNCHANGED <<guards, depth, base, failedDepth, registered>>
      /\ hooks' = [hooks EXCEPT ![pos + 1].handle = Len(chain) + 1]
  BY DEF Deploys
<1>. QED
  BY <1>1, <1>3, <1>4, TypeHooksKept

LEMMA TypeRestore ==
    ASSUME TypeInv, floor' = floor, Restore
    PROVE  TypeInv'
<1>1. /\ UNCHANGED <<hooks, guards, depth, base, failedDepth, registered, pos, gpos, tests>>
      /\ phase = "setUp" /\ phase' = "save" /\ SNAPSHOTS # <<>> /\ SNAPSHOTS' = popped(SNAPSHOTS)
      /\ revertByIdAsync(snapshotToRestore) /\ pos < N
  BY DEF Restore, mochaVars, HookNext, N
<1>2. SNAPSHOTS \in Seq(Nat) /\ NodeType
  BY Sizes
<1>3. SNAPSHOTS' \in Seq(Nat) /\ snapshotToRestore \in Nat
  BY <1>1, <1>2, PoppedSeq DEF snapshotToRestore
<1>4. NodeType'
  BY <1>1, <1>2, <1>3, Reverting
<1>5. Types'
  BY <1>1, <1>3, <1>4 DEF TypeInv, Types, NodeType, Phase
<1>. QED
  BY <1>1, <1>5 DEF TypeInv, NestingInv, PhaseInv, N, G

LEMMA TypeSaveCache ==
    ASSUME TypeInv, floor' = floor, SaveCache
    PROVE  TypeInv'
<1>1. /\ phase = "save" /\ phase' = "setUp" /\ pos' = pos + 1
      /\ UNCHANGED <<guards, depth, base, failedDepth, registered, gpos, tests>>
      /\ hooks' = [hooks EXCEPT ![pos + 1].initialized = TRUE]
      /\ SNAPSHOTS' = Append(SNAPSHOTS, nextId) /\ saveSnapshotAsync
  BY DEF SaveCache
<1>2. SNAPSHOTS \in Seq(Nat) /\ NodeType /\ nextId \in Nat /\ 0 \in Nat
  BY Sizes
<1>3. SNAPSHOTS' \in Seq(Nat)
  BY <1>1, <1>2, AppendSeq
<1>4. NodeType'
  BY <1>1, <1>2, Saving
<1>. QED
  BY <1>1, <1>2, <1>3, <1>4, TypeHooksKept

LEMMA TypeFailHook ==
    ASSUME TypeInv, floor' = floor, FailHook
    PROVE  TypeInv'
<1>1. /\ UNCHANGED <<SNAPSHOTS, hooks, guards, depth, base, registered, pos, tests>>
      /\ phase = "setUp" /\ phase' = "tearDown" /\ gpos' = Len(guards) /\ failedDepth' = current.depth
      /\ current = hooks[pos + 1]
  BY DEF FailHook, HookNext, current
<1>2. NodeType /\ pos + 1 \in 1 .. N /\ Len(guards) \in Nat /\ depth \in Nat
  BY Sizes, SMTT(30) DEF FailHook, HookNext, N, G
<1>3. NodeType'
  BY <1>2, Transacting DEF FailHook, nodeVars, Own, NodeType
<1>4. failedDepth' \in 0 .. depth
  BY <1>1, <1>2 DEF TypeInv, NestingInv
<1>5. Types'
  BY <1>1, <1>2, <1>3, <1>4 DEF TypeInv, Types, NodeType, Phase
<1>. QED
  BY <1>1, <1>5 DEF TypeInv, NestingInv, PhaseInv, N, G

LEMMA HoldsKept ==
    ASSUME NEW b, NEW hs, NEW hs2, NEW c, NEW n, Holds(b, hs, c, n),
           \A i \in 1 .. n : hs2[i].effect = hs[i].effect
    PROVE  Holds(b, hs2, c, n)
BY DEF Holds

LEMMA SuitesFrame ==
    ASSUME SuitesInv, N' = N, G' = G, depth' = depth,
           \A i \in 1 .. N : hooks'[i].kind = hooks[i].kind /\ hooks'[i].depth = hooks[i].depth,
           \A g \in 1 .. G : guards'[g].below = guards[g].below /\ guards'[g].depth = guards[g].depth,
           OutermostEnds => OutermostEnds',
           N \in Nat, G \in Nat
    PROVE  /\ SuitesInv'
           /\ AnchoredByCache' <=> AnchoredByCache
           /\ AnchoredByGuard' <=> AnchoredByGuard
<1>1. /\ AnchoredByCache' <=> AnchoredByCache
      /\ AnchoredByGuard' <=> AnchoredByGuard
  BY DEF AnchoredByCache, AnchoredByGuard
<1>2. \A j \in 1 .. N : \A i \in 1 .. j : i \in 1 .. N
  OBVIOUS
<1>. QED
  BY <1>1, <1>2 DEF SuitesInv, Cached

LEMMA StackFrame ==
    ASSUME StackInv, UNCHANGED <<SNAPSHOTS, floor, hooks, base>>, phase # "save",
           \A j \in 1 .. S : Saved(Mine[j], j)'
    PROVE  StackInv'
<1>1. Mine' = Mine
  BY DEF Mine
<1>. QED
  BY <1>1 DEF StackInv, Cached, S, N

LEMMA GuardedIsUncached ==
    ASSUME SandboxInv, AnchoredByGuard
    PROVE  S = 0 /\ \A j \in 1 .. N : ~Cached(j)
<1>1. N \in Nat /\ G \in Nat /\ S \in Nat
  BY Sizes DEF SandboxInv
<1>2. \A j \in 1 .. N : ~Cached(j)
  <2>1. 1 \in 1 .. G /\ guards[1].below = 0
    BY <1>1 DEF AnchoredByGuard
  <2>2. \A j \in 1 .. N : Cached(j) => j <= guards[1].below
    BY <2>1 DEF SandboxInv, SuitesInv
  <2>. QED
    BY <1>1, <2>1, <2>2
<1>3. \A j \in 1 .. S : j \in 1 .. N /\ Cached(j)
  BY <1>1 DEF SandboxInv, StackInv
<1>. QED
  BY <1>1, <1>2, <1>3

\* With nothing but phase and places changed, and no snapshot being taken.
LEMMA QuietFrame ==
    ASSUME SandboxInv, UNCHANGED <<nodeVars, SNAPSHOTS, floor, mochaVars>>, phase # "save",
           OutermostEnds => OutermostEnds'
    PROVE  /\ SuitesInv' /\ StackInv'
           /\ AnchoredByCache' <=> AnchoredByCache
           /\ AnchoredByGuard' <=> AnchoredByGuard
           /\ N' = N /\ G' = G /\ S' = S
           /\ \A n : Found(n)' <=> Found(n)
           /\ \A n : FoundAtLeast(n)' <=> FoundAtLeast(n)
           /\ \A id, n : Saved(id, n)' <=> Saved(id, n)
<1>1. N' = N /\ G' = G /\ S' = S
  BY DEF mochaVars, N, G, S, Mine
<1>2. /\ \A n : Found(n)' <=> Found(n)
      /\ \A n : FoundAtLeast(n)' <=> FoundAtLeast(n)
      /\ \A id, n : Saved(id, n)' <=> Saved(id, n)
  BY DEF mochaVars, nodeVars, Found, FoundAtLeast, Saved
<1>3. StackInv'
  <2>1. Mine' = Mine
    BY DEF Mine
  <2>. QED
    BY <1>2, <2>1, StackFrame DEF SandboxInv, StackInv, mochaVars
<1>. QED
  BY <1>1, <1>2, <1>3, SuitesFrame, Sizes DEF SandboxInv, mochaVars

LEMMA QuietStep ==
    ASSUME SandboxInv, floor' = floor,
           \/ StartLeaving \/ StartRound \/ BeginTest \/ EndTest \/ EndRound
    PROVE  SandboxInv'
<1>1. UNCHANGED <<nodeVars, SNAPSHOTS, floor, Mine, mochaVars>> /\ phase # "save"
  BY DEF Mine, StartLeaving, StartRound, BeginTest, EndTest, EndRound
<1>2. OutermostEnds => OutermostEnds'
  BY DEF OutermostEnds, StartLeaving, StartRound, BeginTest, EndTest, EndRound
<1>3. TypeInv /\ TypeInv'
  BY TypeQuiet DEF SandboxInv
<1>4. /\ SuitesInv' /\ StackInv'
      /\ AnchoredByCache' <=> AnchoredByCache
      /\ AnchoredByGuard' <=> AnchoredByGuard
      /\ N' = N /\ G' = G /\ S' = S
      /\ \A n : Found(n)' <=> Found(n)
      /\ \A n : FoundAtLeast(n)' <=> FoundAtLeast(n)
      /\ \A id, n : Saved(id, n)' <=> Saved(id, n)
  BY <1>1, <1>2, QuietFrame
<1>5. /\ UNCHANGED <<guards, hooks, snapshots, nextId, Mine, failedDepth, base, depth>>
      /\ N \in Nat /\ G \in Nat /\ S \in Nat /\ pos \in 0 .. N /\ gpos \in 0 .. G
  BY <1>1, <1>3, Sizes DEF nodeVars, mochaVars
<1>6. AnchoredByGuard => S = 0
  BY GuardedIsUncached
<1>7. CASE StartLeaving
  <2>1. GuardsInv'
    BY <1>4, <1>5, <1>7 DEF StartLeaving, SandboxInv, GuardsInv
  <2>2. AnchorInv'
    BY <1>7 DEF StartLeaving, AnchorInv
  <2>3. RoundInv'
    BY <1>4, <1>5, <1>7 DEF StartLeaving, SandboxInv, RoundInv, OutermostEnds
  <2>. QED
    BY <1>3, <1>4, <2>1, <2>2, <2>3 DEF SandboxInv
<1>8. CASE StartRound
  <2>1. pos' = 0 /\ gpos' = 0 /\ gpos = 0 /\ phase' = "setUp" /\ phase = "rest" /\ failedDepth = 0
        /\ depth > 0
    BY <1>3, <1>8 DEF StartRound, TypeInv, PhaseInv
  <2>2. GuardsInv'
    BY <1>4, <1>5, <2>1 DEF SandboxInv, GuardsInv
  <2>3. S = 0 => Found(0)
    BY <2>1 DEF SandboxInv, RoundInv, OutermostEnds
  <2>4. AnchorInv'
    BY <1>4, <1>6, <2>1, <2>3 DEF AnchorInv
  <2>5. RoundInv'
    BY <1>4, <1>5, <2>1, <2>3 DEF RoundInv
  <2>. QED
    BY <1>3, <1>4, <2>2, <2>4, <2>5 DEF SandboxInv
<1>9. CASE BeginTest
  <2>1. phase = "setUp" /\ ~GuardNext /\ pos = N /\ phase' = "test" /\ UNCHANGED <<pos, gpos>>
    BY <1>9 DEF BeginTest, N
  <2>2. GuardsInv'
    BY <1>4, <1>5, <2>1 DEF SandboxInv, GuardsInv
  <2>3. AnchorInv'
    BY <1>4, <1>5, <2>1 DEF SandboxInv, AnchorInv, GuardNext, AnchoredByGuard, G
  <2>4. FoundAtLeast(N)
    <3>1. S <= N
      BY DEF SandboxInv, StackInv
    <3>2. Found(N)
      BY <1>5, <2>1, <3>1 DEF SandboxInv, RoundInv
    <3>. QED
      BY <1>3, <1>5, <3>2, Sizes DEF Found, FoundAtLeast, Holds, HoldsAtLeast
  <2>5. RoundInv'
    BY <1>4, <1>5, <2>1, <2>4 DEF SandboxInv, RoundInv, Cached
  <2>. QED
    BY <1>3, <1>4, <2>2, <2>3, <2>5 DEF SandboxInv
<1>10. CASE EndTest
  <2>1. phase = "test" /\ phase' = "tearDown" /\ gpos' = G /\ pos' = pos /\ failedDepth = 0
    BY <1>3, <1>10 DEF EndTest, TypeInv, PhaseInv, G
  <2>2. GuardsInv'
    BY <1>4, <1>5, <2>1 DEF SandboxInv, GuardsInv
  <2>3. AnchorInv'
    BY <1>4, <1>5, <2>1 DEF SandboxInv, AnchorInv, AnchoredByGuard
  <2>4. AnchoredByCache => S > 0
    BY <1>5, <2>1 DEF SandboxInv, RoundInv, StackInv, AnchoredByCache, Cached
  <2>5. RoundInv'
    BY <1>4, <1>5, <2>1, <2>4 DEF SandboxInv, RoundInv
  <2>. QED
    BY <1>3, <1>4, <2>2, <2>3, <2>5 DEF SandboxInv
<1>11. CASE EndRound
  <2>1. phase = "tearDown" /\ phase' = "rest" /\ gpos = 0 /\ gpos' = 0 /\ depth > 0
    BY <1>3, <1>11 DEF EndRound, TypeInv, PhaseInv
  <2>2. GuardsInv'
    BY <1>4, <1>5, <2>1 DEF SandboxInv, GuardsInv
  <2>3. AnchorInv'
    BY <2>1 DEF AnchorInv
  <2>4. AnchoredByCache \/ AnchoredByGuard
    BY <2>1 DEF SandboxInv, SuitesInv, OutermostEnds
  <2>5. failedDepth # 1 /\ S = 0 => Found(0)
    BY <1>5, <2>1, <2>4 DEF SandboxInv, RoundInv, AnchorInv
  <2>6. RoundInv'
    BY <1>4, <1>5, <2>1, <2>5 DEF RoundInv
  <2>. QED
    BY <1>3, <1>4, <2>2, <2>3, <2>6 DEF SandboxInv
<1>. QED
  BY <1>7, <1>8, <1>9, <1>10, <1>11

----------------------------------------------------------------------------
(* The guards.                                                              *)

LEMMA SaveGuardStep ==
    ASSUME SandboxInv, floor' = floor, SaveGuard
    PROVE  SandboxInv'
<1>. USE DEF SandboxInv
<1>1. /\ TypeInv' /\ G' = G /\ gpos + 1 \in 1 .. G
      /\ guards'[gpos + 1].id = nextId
      /\ \A i \in 1 .. G :
             /\ guards'[i].below = guards[i].below
             /\ guards'[i].depth = guards[i].depth
             /\ i # gpos + 1 => guards'[i] = guards[i]
  BY TypeSaveGuard
<1>2. /\ UNCHANGED <<SNAPSHOTS, floor, Mine, hooks, depth, base, failedDepth, phase, pos, chain>>
      /\ N' = N /\ S' = S /\ phase = "setUp" /\ gpos' = gpos + 1
      /\ guards[gpos + 1].below = pos
  BY DEF SaveGuard, saveSnapshotAsync, N, S, Mine, GuardNext
<1>3. /\ DOMAIN snapshots' = DOMAIN snapshots \union {nextId}
      /\ nextId \notin DOMAIN snapshots /\ nextId' = nextId + 1
      /\ snapshots'[nextId] = chain
      /\ \A id \in DOMAIN snapshots : snapshots'[id] = snapshots[id]
  BY Sizes, Saving DEF SaveGuard
<1>4. /\ N \in Nat /\ G \in Nat /\ S \in Nat /\ pos \in 0 .. N /\ gpos \in 0 .. G
      /\ nextId \in Nat /\ \A id \in DOMAIN snapshots : id \in Nat /\ id < nextId
      /\ \A g \in 1 .. G : guards[g].id \in Nat /\ guards[g].below \in Nat
  BY Sizes
<1>5. /\ SuitesInv'
      /\ AnchoredByCache' <=> AnchoredByCache
      /\ AnchoredByGuard' <=> AnchoredByGuard
  BY <1>1, <1>2, <1>4, SuitesFrame DEF OutermostEnds
<1>6. /\ \A n : Found(n)' <=> Found(n)
      /\ \A n : FoundAtLeast(n)' <=> FoundAtLeast(n)
      /\ \A id, n : Saved(id, n) => Saved(id, n)'
  BY <1>2, <1>3 DEF Found, FoundAtLeast, Saved
<1>7. StackInv'
  BY <1>2, <1>6, StackFrame DEF StackInv
<1>8. \A j \in 1 .. S : Mine[j] < nextId
  BY <1>4 DEF StackInv, Saved
<1>9. GuardsInv'
  <2>1. \A g \in 1 .. G : guards'[g].id < nextId'
    BY <1>1, <1>3, <1>4 DEF GuardsInv
  <2>2. \A g \in 1 .. G : g > gpos' => guards'[g].id \notin DOMAIN snapshots'
    BY <1>1, <1>2, <1>3, <1>4 DEF GuardsInv
  <2>3. \A g \in 1 .. G : guards'[g].id \in DOMAIN snapshots' =>
           /\ \A j \in 1 .. S : Mine[j] < guards'[g].id
           /\ g > 1 => guards'[1].id < guards'[g].id
    <3>1. TAKE g \in 1 .. G
    <3>2. HAVE guards'[g].id \in DOMAIN snapshots'
    <3>3. CASE g = gpos + 1
      <4>1. g > 1 => guards'[1] = guards[1] /\ guards[1].id < nextId
        BY <1>1, <1>4, <3>3 DEF GuardsInv
      <4>. QED
        BY <1>1, <1>8, <3>3, <4>1
    <3>4. CASE g # gpos + 1
      <4>1. guards'[g] = guards[g] /\ guards[g].id \in DOMAIN snapshots /\ g <= gpos
        BY <1>1, <1>3, <1>4, <3>2, <3>4 DEF GuardsInv
      <4>2. guards'[1] = guards[1]
        BY <1>1, <1>4, <4>1
      <4>. QED
        BY <4>1, <4>2 DEF GuardsInv
    <3>. QED
      BY <3>3, <3>4
  <2>4. \A g \in 1 .. gpos' : guards'[g].below <= pos
    BY <1>1, <1>2, <1>4 DEF GuardsInv
  <2>. QED
    BY <1>1, <1>2, <2>1, <2>2, <2>3, <2>4 DEF GuardsInv
<1>10. AnchorInv'
  <2>1. ASSUME AnchoredByGuard
        PROVE  Saved(guards[1].id, 0)'
    <3>1. CASE gpos = 0
      <4>1. Found(0) /\ guards'[1].id = nextId
        BY <1>1, <1>2, <2>1, <3>1 DEF AnchorInv
      <4>. QED
        BY <1>2, <1>3, <4>1 DEF Saved, Found
    <3>2. CASE gpos # 0
      <4>1. Saved(guards[1].id, 0) /\ guards'[1] = guards[1]
        BY <1>1, <1>2, <1>4, <2>1, <3>2 DEF AnchorInv
      <4>. QED
        BY <1>6, <4>1 DEF Saved
    <3>. QED
      BY <3>1, <3>2
  <2>. QED
    BY <1>2, <1>4, <1>5, <2>1 DEF AnchorInv
<1>11. RoundInv'
  BY <1>2, <1>5, <1>6 DEF RoundInv, Cached
<1>. QED
  BY <1>1, <1>5, <1>7, <1>9, <1>10, <1>11

LEMMA RestoreGuardStep ==
    ASSUME SandboxInv, floor' = floor, RestoreGuard
    PROVE  SandboxInv'
<1>. USE DEF SandboxInv
<1>1. /\ UNCHANGED <<SNAPSHOTS, floor, Mine, hooks, guards, depth, base, failedDepth, phase, pos, nextId, tests, registered>>
      /\ N' = N /\ G' = G /\ S' = S /\ phase = "tearDown" /\ gpos > 0 /\ gpos' = gpos - 1
  BY DEF RestoreGuard, revertByIdAsync, nodeVars, mochaVars, N, G, S, Mine
<1>2. /\ N \in Nat /\ G \in Nat /\ S \in Nat /\ gpos \in 1 .. G
      /\ nextId \in Nat /\ \A id \in DOMAIN snapshots : id \in Nat /\ id < nextId
      /\ \A g \in 1 .. G : guards[g].id \in Nat /\ guards[g].below \in Nat
      /\ \A j \in 1 .. S : Mine[j] \in Nat
      /\ NodeType
  BY <1>1, Sizes
<1>. DEFINE id == guards[gpos].id
<1>3. /\ NodeType'
      /\ DOMAIN snapshots' \subseteq DOMAIN snapshots
      /\ \A other \in DOMAIN snapshots' : snapshots'[other] = snapshots[other]
      /\ id \notin DOMAIN snapshots'
      /\ id \in DOMAIN snapshots => \A other \in DOMAIN snapshots : other < id => other \in DOMAIN snapshots'
      /\ id \notin DOMAIN snapshots => UNCHANGED snapshots
      /\ id \in DOMAIN snapshots /\ Restores(guards[gpos]) => chain' = snapshots[id]
  <2>1. CASE Restores(guards[gpos])
    <3>1. revertByIdAsync(id)
      BY <2>1 DEF RestoreGuard
    <3>. QED
      BY <1>2, <3>1, Reverting
  <2>2. CASE ~Restores(guards[gpos])
    <3>1. UNCHANGED nodeVars
      BY <2>2 DEF RestoreGuard
    <3>2. NodeType'
      BY <1>2, <3>1 DEF nodeVars, NodeType
    <3>3. id \notin DOMAIN snapshots
      <4>1. gpos \in 1 .. G /\ failedDepth # 0 /\ ~(guards[gpos].depth <= failedDepth)
        BY <1>2, <2>2 DEF Restores
      <4>2. guards[gpos].depth \in Nat /\ failedDepth \in Nat
        BY <4>1, Sizes
      <4>. QED
        BY <1>1, <4>1, <4>2 DEF GuardsInv
    <3>. QED
      BY <2>2, <3>1, <3>2, <3>3 DEF nodeVars
  <2>. QED
    BY <2>1, <2>2
<1>4. /\ SuitesInv'
      /\ AnchoredByCache' <=> AnchoredByCache
      /\ AnchoredByGuard' <=> AnchoredByGuard
  BY <1>1, <1>2, SuitesFrame DEF OutermostEnds
<1>5. \A other, n : Saved(other, n) /\ (id \in DOMAIN snapshots => other < id) => Saved(other, n)'
  BY <1>1, <1>3 DEF Saved
<1>6. StackInv'
  <2>1. \A j \in 1 .. S : Saved(Mine[j], j)'
    BY <1>1, <1>2, <1>5 DEF StackInv, GuardsInv
  <2>. QED
    BY <1>1, <2>1, StackFrame
<1>7. GuardsInv'
  BY <1>1, <1>2, <1>3 DEF GuardsInv
<1>8. AnchorInv'
  <2>1. ASSUME AnchoredByGuard
        PROVE  /\ gpos' > 0 => Saved(guards[1].id, 0)'
               /\ gpos' = 0 => Found(0)'
    <3>1. Saved(guards[1].id, 0)
      BY <1>1, <1>2, <2>1 DEF AnchorInv
    <3>2. ASSUME gpos > 1
          PROVE  Saved(guards[1].id, 0)'
      <4>1. id \in DOMAIN snapshots => guards[1].id < id
        BY <1>2, <3>2 DEF GuardsInv
      <4>. QED
        BY <1>1, <1>5, <3>1, <4>1 DEF Saved
    <3>3. ASSUME gpos = 1
          PROVE  Found(0)'
      <4>1. Restores(guards[1])
        BY <1>2, <2>1, Sizes DEF Restores, AnchoredByGuard
      <4>. QED
        BY <1>1, <1>3, <3>1, <3>3, <4>1 DEF Saved, Found
    <3>. QED
      BY <1>1, <1>2, <3>2, <3>3
  <2>. QED
    BY <1>1, <1>4, <2>1 DEF AnchorInv
<1>9. RoundInv'
  BY <1>1, <1>4 DEF RoundInv
<1>10. TypeInv'
  BY TypeRestoreGuard
<1>. QED
  BY <1>4, <1>6, <1>7, <1>8, <1>9, <1>10

LEMMA TestActsStep ==
    ASSUME SandboxInv, floor' = floor, TestActs
    PROVE  SandboxInv'
<1>. USE DEF SandboxInv
<1>1. /\ UNCHANGED <<SNAPSHOTS, floor, Mine, hooks, guards, depth, base, failedDepth, phase, pos, gpos, nextId, snapshots,
                     tests, registered>>
      /\ N' = N /\ G' = G /\ S' = S /\ phase = "test"
  BY DEF TestActs, Transact, mochaVars, N, G, S, Mine
<1>2. /\ NodeType' /\ Len(chain') = Len(chain) + 1 /\ Len(chain) \in Nat
      /\ \A i \in 1 .. Len(chain) : chain'[i] = chain[i]
      /\ N \in Nat /\ Len(base) \in Nat /\ G \in Nat
  BY Sizes, Transacting DEF TestActs, Own
<1>3. /\ SuitesInv' /\ (AnchoredByGuard' <=> AnchoredByGuard)
  BY <1>1, <1>2, SuitesFrame DEF OutermostEnds
<1>4. \A other, n : Saved(other, n)' <=> Saved(other, n)
  BY <1>1 DEF Saved
<1>5. StackInv'
  BY <1>1, <1>4, StackFrame DEF StackInv
<1>6. FoundAtLeast(N)'
  <2>1. HoldsAtLeast(base, hooks, chain, N)
    BY <1>1 DEF RoundInv, FoundAtLeast
  <2>2. HoldsAtLeast(base, hooks, chain', N)
    BY <1>2, <2>1 DEF HoldsAtLeast
  <2>. QED
    BY <1>1, <2>2 DEF FoundAtLeast
<1>7. GuardsInv' /\ AnchorInv' /\ RoundInv'
  BY <1>1, <1>3, <1>4, <1>6 DEF GuardsInv, AnchorInv, RoundInv, Cached
<1>8. TypeInv'
  BY TypeTestActs
<1>. QED
  BY <1>3, <1>5, <1>7, <1>8

----------------------------------------------------------------------------
(* The set-ups.                                                             *)

LEMMA AtHook ==
    ASSUME SandboxInv, HookNext
    PROVE  /\ phase = "setUp" /\ pos + 1 \in 1 .. N /\ pos \in Nat /\ S \in Nat /\ N \in Nat
           /\ AnchoredByGuard => gpos > 0
           /\ ~current.initialized => S <= pos /\ Found(pos)
           /\ Cached(pos + 1) => gpos = 0
           /\ Cached(pos + 1) /\ ~current.initialized => S = pos
           /\ current.initialized => Cached(pos + 1) /\ pos + 1 <= S
<1>. USE DEF SandboxInv
<1>1. /\ N \in Nat /\ G \in Nat /\ S \in Nat /\ pos \in 0 .. N /\ gpos \in 0 .. G
      /\ \A g \in 1 .. G : guards[g].below \in Nat
  BY Sizes
<1>2. phase = "setUp" /\ pos + 1 \in 1 .. N /\ ~GuardNext /\ current = hooks[pos + 1]
  BY <1>1 DEF HookNext, N, current
<1>3. AnchoredByGuard => gpos > 0
  BY <1>1, <1>2 DEF AnchorInv, AnchoredByGuard, GuardNext, G
<1>4. ASSUME ~current.initialized
      PROVE  S <= pos /\ Found(pos)
  <2>1. S <= pos
    BY <1>1, <1>2, <1>4 DEF StackInv
  <2>. QED
    BY <1>1, <1>2, <2>1 DEF RoundInv
<1>5. ASSUME Cached(pos + 1), gpos # 0
      PROVE  FALSE
  <2>1. 1 \in 1 .. G /\ 1 \in 1 .. gpos
    BY <1>1, <1>5
  <2>2. guards[1].below <= pos
    BY <1>2, <2>1 DEF GuardsInv
  <2>3. pos + 1 <= guards[1].below
    BY <1>2, <1>5, <2>1 DEF SuitesInv
  <2>. QED
    BY <1>1, <2>1, <2>2, <2>3
<1>6. ASSUME Cached(pos + 1), ~current.initialized
      PROVE  S = pos
  <2>1. CASE pos = 0
    BY <1>1, <1>4, <1>6, <2>1
  <2>2. CASE pos >= 1
    <3>1. pos \in 1 .. pos + 1 /\ pos \in 1 .. N /\ pos \in 1 .. pos
      BY <1>1, <1>2, <2>2
    <3>2. Cached(pos)
      BY <1>2, <1>6, <3>1 DEF SuitesInv
    <3>3. hooks[pos].initialized
      BY <1>2, <3>1, <3>2 DEF RoundInv
    <3>4. pos <= S
      BY <1>2, <3>1, <3>3 DEF StackInv
    <3>. QED
      BY <1>1, <1>4, <1>6, <3>4
  <2>. QED
    BY <1>1, <2>1, <2>2
<1>7. current.initialized => Cached(pos + 1) /\ pos + 1 <= S
  BY <1>2 DEF StackInv
<1>. QED
  BY <1>1, <1>2, <1>3, <1>4, <1>5, <1>6, <1>7

\* A set-up that is carried out.
LEMMA Deploying ==
    ASSUME SandboxInv, floor' = floor, HookNext, Deploys, ~current.initialized,
           UNCHANGED <<SNAPSHOTS, gpos, tests>>,
           \/ phase' = "setUp" /\ pos' = pos + 1
           \/ phase' = "save" /\ pos' = pos /\ gpos = 0
    PROVE  /\ TypeInv' /\ SuitesInv' /\ StackInv' /\ GuardsInv' /\ AnchorInv'
           /\ N' = N /\ S' = S
           /\ \A i \in 1 .. N :
                  /\ hooks'[i].kind = hooks[i].kind
                  /\ i # pos + 1 => hooks'[i] = hooks[i]
           /\ hooks'[pos + 1].handle = Len(base) + pos + 1
           /\ hooks'[pos + 1].initialized = FALSE
           /\ Holds(base, hooks', chain', pos + 1)
<1>. USE DEF SandboxInv
<1>1. /\ N \in Nat /\ G \in Nat /\ S \in Nat /\ pos \in 0 .. N /\ gpos \in 0 .. G
      /\ Len(chain) \in Nat /\ Len(base) \in Nat /\ NodeType
  BY Sizes
<1>2. /\ phase = "setUp" /\ pos + 1 \in 1 .. N /\ S <= pos /\ Found(pos)
      /\ AnchoredByGuard => gpos > 0
  BY AtHook
<1>3. /\ hooks \in Seq(Hook) /\ hooks' = [hooks EXCEPT ![pos + 1].handle = Len(chain) + 1]
      /\ hooks[pos + 1] \in Hook /\ pos + 1 \in 1 .. Len(hooks)
      /\ UNCHANGED <<guards, depth, base, failedDepth, registered>>
      /\ current = hooks[pos + 1]
  BY <1>2 DEF Deploys, TypeInv, Types, N, current
<1>4. /\ hooks' \in Seq(Hook) /\ N' = N
      /\ \A i \in 1 .. N :
             /\ hooks'[i].kind = hooks[i].kind
             /\ hooks'[i].depth = hooks[i].depth
             /\ hooks'[i].effect = hooks[i].effect
             /\ i # pos + 1 => hooks'[i] = hooks[i]
  <2>1. Len(chain) + 1 \in Nat /\ TypeInv
    BY <1>1
  <2>. QED
    BY <1>3, <2>1, TypeHooks
<1>5. /\ hooks'[pos + 1].handle = Len(chain) + 1
      /\ hooks'[pos + 1].initialized = FALSE
  <2>1. hooks'[pos + 1] = [hooks[pos + 1] EXCEPT !.handle = Len(chain) + 1]
    BY <1>3
  <2>2. hooks[pos + 1].initialized = FALSE
    BY <1>3 DEF Hook
  <2>3. \A f : /\ [hooks[pos + 1] EXCEPT !.handle = f].handle = f
               /\ [hooks[pos + 1] EXCEPT !.handle = f].initialized = hooks[pos + 1].initialized
    BY <1>3 DEF Hook
  <2>. QED
    BY <2>1, <2>2, <2>3
<1>6. Len(chain) = Len(base) + pos
  BY <1>2 DEF Found, Holds
<1>7. current.effect \in Nat
  BY <1>2, <1>3, HookFields DEF N
<1>8. /\ NodeType' /\ UNCHANGED <<snapshots, nextId>>
      /\ Len(chain') = Len(chain) + 1
      /\ \A i \in 1 .. Len(chain) : chain'[i] = chain[i]
      /\ chain'[Len(chain) + 1] = current.effect
  BY <1>1, <1>7, Transacting DEF Deploys
<1>9. Holds(base, hooks', chain', pos + 1)
  <2>1. \A i \in 1 .. Len(base) : i \in 1 .. Len(chain)
    BY <1>1, <1>6
  <2>2. \A i \in 1 .. pos : Len(base) + i \in 1 .. Len(chain) /\ i \in 1 .. N
    BY <1>1, <1>2, <1>6
  <2>3. \A i \in 1 .. pos : chain'[Len(base) + i] = hooks'[i].effect
    BY <1>2, <1>4, <1>8, <2>2 DEF Found, Holds
  <2>4. chain'[Len(base) + (pos + 1)] = hooks'[pos + 1].effect
    BY <1>1, <1>2, <1>3, <1>4, <1>6, <1>8, SMTT(30)
  <2>5. \A i \in 1 .. Len(base) : chain'[i] = base[i]
    BY <1>2, <1>8, <2>1 DEF Found, Holds
  <2>6. Len(chain') = Len(base) + (pos + 1)
    BY <1>1, <1>6, <1>8
  <2>7. \A i \in 1 .. pos + 1 : i \in 1 .. pos \/ i = pos + 1
    BY <1>1
  <2>. QED
    BY <2>3, <2>4, <2>5, <2>6, <2>7 DEF Holds
<1>10. TypeInv'
  BY TypeDeploys
<1>11. /\ SuitesInv'
       /\ AnchoredByGuard' <=> AnchoredByGuard
       /\ S' = S /\ G' = G
  BY <1>1, <1>2, <1>3, <1>4, SuitesFrame DEF OutermostEnds, S, Mine, G
<1>12. \A j \in 0 .. N : \A id : Saved(id, j) => Saved(id, j)'
  <2>1. TAKE j \in 0 .. N
  <2>2. TAKE id
  <2>3. HAVE Saved(id, j)
  <2>4. \A i \in 1 .. j : hooks'[i].effect = hooks[i].effect
    BY <1>1, <1>4
  <2>5. Holds(base, hooks', snapshots[id], j)
    BY <2>3, <2>4, HoldsKept DEF Saved
  <2>. QED
    BY <1>3, <1>8, <2>3, <2>5 DEF Saved
<1>16. Mine' = Mine /\ UNCHANGED <<SNAPSHOTS, floor>>
  BY DEF Mine
<1>13. StackInv'
  <2>1. \A j \in 1 .. S : j \in 1 .. N /\ j \in 0 .. N /\ j # pos + 1
    BY <1>1, <1>2
  <2>2. \A j \in 1 .. S : Saved(Mine[j], j)'
    <3>1. \A j \in 1 .. S : Saved(Mine[j], j)
      BY DEF StackInv
    <3>2. \A j \in 1 .. S : (\A id : Saved(id, j) => Saved(id, j)')
      BY <1>12, <2>1
    <3>. QED
      BY <1>16, <3>1, <3>2 DEF Saved
  <2>3. \A j \in 1 .. N : hooks'[j].initialized =>
           /\ Cached(j)' /\ hooks'[j].handle = Len(base) + j
           /\ j <= S \/ (phase' = "save" /\ j = S + 1)
    BY <1>2, <1>4, <1>5 DEF StackInv, Cached
  <2>4. \A j \in 1 .. S : hooks'[j].initialized
    BY <1>4, <2>1 DEF StackInv
  <2>. QED
    BY <1>3, <1>4, <1>11, <1>16, <2>2, <2>3, <2>4 DEF StackInv
<1>14. GuardsInv'
  <2>1. phase' = "setUp" => \A g \in 1 .. gpos : guards[g].below <= pos'
    <3>1. \A g \in 1 .. gpos : guards[g].below <= pos /\ guards[g].below \in Nat
      BY <1>1, <1>2, Sizes DEF GuardsInv
    <3>. QED
      BY <1>1, <3>1
  <2>2. phase' # "tearDown" /\ UNCHANGED gpos
    OBVIOUS
  <2>. QED
    BY <1>3, <1>8, <1>11, <1>16, <2>1, <2>2 DEF GuardsInv
<1>15. AnchorInv'
  <2>1. ASSUME AnchoredByGuard
        PROVE  Saved(guards[1].id, 0)' /\ gpos > 0
    <3>1. Saved(guards[1].id, 0) /\ gpos > 0 /\ 0 \in 0 .. N
      BY <1>1, <1>2, <2>1 DEF AnchorInv
    <3>2. Holds(base, hooks', snapshots[guards[1].id], 0)
      BY <1>1, <3>1, HoldsKept DEF Saved
    <3>. QED
      BY <1>3, <1>8, <3>1, <3>2 DEF Saved
  <2>. QED
    BY <1>11, <2>1 DEF AnchorInv
<1>. QED
  BY <1>1, <1>3, <1>4, <1>5, <1>6, <1>9, <1>10, <1>11, <1>13, <1>14, <1>15

LEMMA RunEachStep ==
    ASSUME SandboxInv, floor' = floor, RunEach
    PROVE  SandboxInv'
<1>1. HookNext /\ Deploys /\ ~current.initialized
  <2>1. HookNext /\ Deploys /\ current.kind = "each"
    BY DEF RunEach
  <2>. QED
    BY <2>1, AtHook DEF current, Cached
<1>2. /\ UNCHANGED <<SNAPSHOTS, floor, Mine, phase, gpos, tests>> /\ pos' = pos + 1 /\ phase = "setUp"
      /\ pos + 1 \in 1 .. N /\ pos \in Nat /\ S \in Nat /\ N \in Nat /\ S <= pos
      /\ hooks[pos + 1].kind = "each" /\ UNCHANGED base
  BY <1>1, AtHook DEF RunEach, Deploys, current, Mine
<1>3. /\ TypeInv' /\ SuitesInv' /\ StackInv' /\ GuardsInv' /\ AnchorInv'
      /\ N' = N /\ S' = S
      /\ \A i \in 1 .. N :
             /\ hooks'[i].kind = hooks[i].kind
             /\ i # pos + 1 => hooks'[i] = hooks[i]
      /\ hooks'[pos + 1].handle = Len(base) + pos + 1
      /\ Holds(base, hooks', chain', pos + 1)
  BY <1>1, <1>2, Deploying
<1>4. \A j \in 1 .. pos + 1 : j \in 1 .. pos \/ j = pos + 1
  BY <1>2
<1>5. \A j \in 1 .. pos + 1 :
         /\ Cached(j)' => hooks'[j].initialized
         /\ hooks'[j].handle = Len(base) + j
  <2>1. \A j \in 1 .. pos : hooks'[j] = hooks[j]
    BY <1>2, <1>3
  <2>2. hooks'[pos + 1].kind # "cache"
    BY <1>2, <1>3
  <2>3. \A j \in 1 .. pos : (Cached(j) => hooks[j].initialized) /\ hooks[j].handle = Len(base) + j
    BY <1>2 DEF SandboxInv, RoundInv
  <2>. QED
    <3>1. \A j \in 1 .. pos : (Cached(j)' => hooks'[j].initialized) /\ hooks'[j].handle = Len(base) + j
      BY <2>1, <2>3 DEF Cached
    <3>2. \A j \in 1 .. pos + 1 : j = pos + 1 => ~(hooks'[j].kind = "cache") /\ hooks'[j].handle = Len(base) + j
      BY <1>2, <1>3, <2>2
    <3>. QED
      BY <1>4, <3>1, <3>2 DEF Cached
<1>6. RoundInv'
  <2>1. ~(pos + 1 < S)
    BY <1>2
  <2>2. Found(pos)'
    BY <1>2, <1>3 DEF Found
  <2>. QED
    BY <1>2, <1>3, <1>5, <2>1, <2>2 DEF RoundInv
<1>. QED
  BY <1>3, <1>6 DEF SandboxInv

LEMMA InitializeStep ==
    ASSUME SandboxInv, floor' = floor, Initialize
    PROVE  SandboxInv'
<1>1. HookNext /\ Deploys /\ ~current.initialized /\ Cached(pos + 1)
  BY DEF Initialize, Cached, current
<1>2. /\ UNCHANGED <<SNAPSHOTS, floor, Mine, pos, gpos, tests>> /\ phase' = "save" /\ phase = "setUp"
      /\ pos + 1 \in 1 .. N /\ pos \in Nat /\ S \in Nat /\ N \in Nat /\ S = pos
      /\ gpos = 0 /\ UNCHANGED base
  BY <1>1, AtHook DEF Initialize, Deploys, Mine
<1>3. /\ TypeInv' /\ SuitesInv' /\ StackInv' /\ GuardsInv' /\ AnchorInv'
      /\ N' = N /\ S' = S
      /\ \A i \in 1 .. N :
             /\ hooks'[i].kind = hooks[i].kind
             /\ i # pos + 1 => hooks'[i] = hooks[i]
      /\ hooks'[pos + 1].handle = Len(base) + pos + 1
      /\ Holds(base, hooks', chain', pos + 1)
  BY <1>1, <1>2, Deploying
<1>4. \A j \in 1 .. pos :
         /\ Cached(j)' => hooks'[j].initialized
         /\ hooks'[j].handle = Len(base) + j
  <2>1. \A j \in 1 .. pos : hooks'[j] = hooks[j]
    BY <1>2, <1>3
  <2>2. \A j \in 1 .. pos : (Cached(j) => hooks[j].initialized) /\ hooks[j].handle = Len(base) + j
    BY <1>2 DEF SandboxInv, RoundInv
  <2>. QED
    BY <2>1, <2>2 DEF Cached
<1>5. Found(S + 1)'
  BY <1>2, <1>3 DEF Found
<1>6. Cached(S + 1)'
  BY <1>1, <1>2, <1>3 DEF Cached
<1>7. RoundInv'
  BY <1>2, <1>3, <1>4, <1>5, <1>6 DEF RoundInv
<1>. QED
  BY <1>3, <1>7 DEF SandboxInv

LEMMA RestoreStep ==
    ASSUME SandboxInv, floor' = floor, Restore
    PROVE  SandboxInv'
<1>. USE DEF SandboxInv
<1>. DEFINE id == Mine[S]
<1>1. HookNext /\ Cached(pos + 1) /\ current.initialized
  BY DEF Restore, Cached, current
<1>2. /\ phase = "setUp" /\ phase' = "save" /\ UNCHANGED <<hooks, guards, depth, base, failedDepth, registered, pos, gpos, tests>>
      /\ pos + 1 \in 1 .. N /\ pos \in Nat /\ S \in Nat /\ N \in Nat /\ pos + 1 <= S
      /\ gpos = 0 /\ ~AnchoredByGuard /\ N' = N /\ G' = G
      /\ SNAPSHOTS' = popped(SNAPSHOTS) /\ revertByIdAsync(SNAPSHOTS[Len(SNAPSHOTS)])
  BY <1>1, AtHook DEF Restore, mochaVars, N, G, snapshotToRestore
<1>3. /\ G \in Nat /\ NodeType /\ Mine \in Seq(Nat) /\ Mine # <<>> /\ S >= 1 /\ S \in 1 .. S
      /\ \A j \in 1 .. S : Mine[j] \in Nat
      /\ \A g \in 1 .. G : guards[g].id \in Nat
  <2>1. S >= 1 /\ S \in 1 .. S
    BY <1>2
  <2>. QED
    BY <2>1, Sizes DEF S
<1>14. /\ floor' <= Len(SNAPSHOTS') /\ Mine' = popped(Mine) /\ revertByIdAsync(id)
  <2>1. floor \in Nat /\ SNAPSHOTS \in Seq(Nat) /\ floor <= Len(SNAPSHOTS) /\ OwnPart(SNAPSHOTS, floor) # <<>>
    BY <1>3, Sizes DEF StackInv, Mine
  <2>2. /\ floor <= Len(popped(SNAPSHOTS))
        /\ OwnPart(popped(SNAPSHOTS), floor) = popped(OwnPart(SNAPSHOTS, floor))
        /\ OwnPart(SNAPSHOTS, floor)[Len(OwnPart(SNAPSHOTS, floor))] = SNAPSHOTS[Len(SNAPSHOTS)]
    BY <2>1, OwnPartPopped
  <2>. QED
    BY <1>2, <2>2 DEF Mine, S
<1>4. /\ Mine' \in Seq(Nat) /\ S' = S - 1
      /\ \A j \in 1 .. S - 1 : Mine'[j] = Mine[j]
  BY <1>3, <1>14, PoppedSeq DEF S
<1>5. /\ id \in DOMAIN snapshots /\ id \in Nat
      /\ Holds(base, hooks, snapshots[id], S)
  BY <1>3 DEF StackInv, Saved
<1>6. /\ NodeType' /\ nextId' = nextId
      /\ DOMAIN snapshots' \subseteq DOMAIN snapshots
      /\ \A other \in DOMAIN snapshots' : snapshots'[other] = snapshots[other]
      /\ \A other \in DOMAIN snapshots : other < id => other \in DOMAIN snapshots'
      /\ \A other \in DOMAIN snapshots' : other < id
      /\ chain' = snapshots[id]
  BY <1>3, <1>5, <1>14, Reverting
<1>7. /\ SuitesInv' /\ (AnchoredByGuard' <=> AnchoredByGuard)
  BY <1>2, <1>3, SuitesFrame DEF OutermostEnds
<1>8. \A j \in 1 .. S - 1 : j \in 1 .. S /\ j < S /\ j \in 1 .. N
  BY <1>2 DEF StackInv
<1>9. StackInv'
  <2>1. \A j \in 1 .. S - 1 : Saved(Mine[j], j) /\ Mine[j] < id
    BY <1>3, <1>8 DEF StackInv
  <2>2. \A j \in 1 .. S - 1 : Saved(Mine[j], j)'
    BY <1>2, <1>4, <1>6, <2>1 DEF Saved
  <2>3. S - 1 <= N
    BY <1>2 DEF StackInv
  <2>4. \A j \in 1 .. S - 1 : \A i \in 1 .. S - 1 : i < j => Mine'[i] < Mine'[j]
    BY <1>4, <1>8 DEF StackInv
  <2>5. \A j \in 1 .. N : hooks[j].initialized =>
           /\ Cached(j) /\ hooks[j].handle = Len(base) + j
           /\ j <= S - 1 \/ j = S - 1 + 1
    BY <1>2 DEF StackInv
  <2>6. \A j \in 1 .. S - 1 : hooks[j].initialized
    BY <1>8 DEF StackInv
  <2>. QED
    BY <1>2, <1>4, <1>14, <2>2, <2>3, <2>4, <2>5, <2>6 DEF StackInv, Cached
<1>10. GuardsInv'
  <2>1. \A g \in 1 .. G : guards[g].id \notin DOMAIN snapshots'
    BY <1>2, <1>3, <1>6 DEF GuardsInv
  <2>. QED
    BY <1>2, <1>6, <2>1 DEF GuardsInv
<1>11. AnchorInv'
  BY <1>2, <1>7 DEF AnchorInv
<1>12. RoundInv'
  <2>1. S' + 1 = S /\ S' < N /\ pos <= S'
    BY <1>2, <1>4 DEF StackInv
  <2>2. Found(S + 1)'
    BY <1>2, <1>5, <1>6, <2>1 DEF Found
  <2>3. hooks[S].initialized /\ hooks[pos + 1].initialized /\ S \in 1 .. N
    BY <1>1, <1>2, <1>3 DEF StackInv, current
  <2>4. Cached(S) /\ hooks[S].handle = Len(base) + S /\ hooks[pos + 1].handle = Len(base) + (pos + 1)
    BY <1>2, <2>3 DEF StackInv
  <2>5. Cached(S + 1)'
    BY <1>2, <2>1, <2>4 DEF Cached
  <2>6. hooks'[S' + 1].initialized /\ hooks'[S' + 1].handle = Len(base') + S' + 1
    <3>1. hooks'[S' + 1] = hooks[S] /\ Len(base') + S' + 1 = Len(base) + S
      BY <1>2, <1>4, <2>1, Sizes
    <3>. QED
      BY <2>3, <2>4, <3>1
  <2>7. hooks'[pos' + 1].handle = Len(base') + pos' + 1
    <3>1. Len(base) + (pos + 1) = Len(base) + pos + 1
      BY <1>2, Sizes
    <3>. QED
      BY <1>2, <2>4, <3>1
  <2>8. \A j \in 1 .. pos : (Cached(j)' => hooks'[j].initialized) /\ hooks'[j].handle = Len(base) + j
    BY <1>2 DEF RoundInv, Cached
  <2>. QED
    BY <1>2, <2>1, <2>2, <2>5, <2>6, <2>7, <2>8 DEF RoundInv
<1>13. TypeInv'
  BY TypeRestore
<1>. QED
  BY <1>7, <1>9, <1>10, <1>11, <1>12, <1>13

LEMMA SaveCacheStep ==
    ASSUME SandboxInv, floor' = floor, SaveCache
    PROVE  SandboxInv'
<1>. USE DEF SandboxInv
<1>1. /\ N \in Nat /\ G \in Nat /\ S \in Nat /\ pos \in Nat /\ nextId \in Nat /\ Len(base) \in Nat
      /\ NodeType
      /\ \A id \in DOMAIN snapshots : id \in Nat /\ id < nextId
      /\ \A g \in 1 .. G : guards[g].id \in Nat
  BY Sizes
<1>2. /\ phase = "save" /\ phase' = "setUp" /\ pos' = pos + 1 /\ gpos = 0
      /\ UNCHANGED <<guards, depth, base, failedDepth, registered, gpos, tests>>
      /\ hooks' = [hooks EXCEPT ![pos + 1].initialized = TRUE]
      /\ SNAPSHOTS' = Append(SNAPSHOTS, nextId) /\ saveSnapshotAsync
      /\ G' = G /\ pos < N
  BY DEF SaveCache, TypeInv, PhaseInv, GuardsInv, G
<1>3. /\ S < N /\ pos <= S /\ Cached(S + 1) /\ Found(S + 1)
      /\ hooks[S + 1].initialized \/ pos = S
      /\ hooks[S + 1].handle = Len(base) + S + 1
      /\ hooks[pos + 1].handle = Len(base) + pos + 1
      /\ \A j \in 1 .. pos : (Cached(j) => hooks[j].initialized) /\ hooks[j].handle = Len(base) + j
  BY <1>2 DEF RoundInv
<1>4. /\ Mine' \in Seq(Nat) /\ S' = S + 1
      /\ \A j \in 1 .. S : Mine'[j] = Mine[j]
      /\ Mine'[S + 1] = nextId
      /\ floor' <= Len(SNAPSHOTS')
  <2>1. floor \in Nat /\ SNAPSHOTS \in Seq(Nat) /\ floor <= Len(SNAPSHOTS) /\ Mine \in Seq(Nat)
    BY Sizes DEF StackInv
  <2>2. Mine' = Append(Mine, nextId) /\ floor' <= Len(SNAPSHOTS')
    BY <1>1, <1>2, <2>1, OwnPartAppended DEF Mine
  <2>. QED
    BY <1>1, <2>1, <2>2, AppendSeq DEF S
<1>5. /\ NodeType' /\ nextId' = nextId + 1 /\ chain' = chain
      /\ DOMAIN snapshots' = DOMAIN snapshots \union {nextId}
      /\ nextId \notin DOMAIN snapshots
      /\ snapshots'[nextId] = chain
      /\ \A id \in DOMAIN snapshots : snapshots'[id] = snapshots[id]
  BY <1>1, <1>2, Saving
<1>6. /\ N' = N /\ pos + 1 \in 1 .. N
      /\ \A i \in 1 .. N :
             /\ hooks'[i].kind = hooks[i].kind
             /\ hooks'[i].depth = hooks[i].depth
             /\ hooks'[i].effect = hooks[i].effect
             /\ i # pos + 1 => hooks'[i] = hooks[i]
  <2>1. 0 \in Nat
    OBVIOUS
  <2>. QED
    BY <1>2, <2>1, TypeHooks
<1>7. /\ hooks'[pos + 1].initialized
      /\ \A i \in 1 .. N : hooks'[i].handle = hooks[i].handle
      /\ \A i \in 1 .. N : hooks[i].initialized => hooks'[i].initialized
  <2>1. hooks \in Seq(Hook) /\ hooks[pos + 1] \in Hook /\ pos + 1 \in 1 .. Len(hooks)
    BY <1>6 DEF TypeInv, Types, N
  <2>2. hooks'[pos + 1] = [hooks[pos + 1] EXCEPT !.initialized = TRUE]
    <3>1. hooks' = [hooks EXCEPT ![pos + 1] = [hooks[pos + 1] EXCEPT !.initialized = TRUE]]
      BY <1>2
    <3>2. [hooks[pos + 1] EXCEPT !.initialized = TRUE] \in Hook
      BY <2>1 DEF Hook
    <3>. DEFINE hook == [hooks[pos + 1] EXCEPT !.initialized = TRUE]
    <3>3. hook \in Hook /\ hooks' = [hooks EXCEPT ![pos + 1] = hook]
      BY <3>1, <3>2
    <3>. HIDE DEF hook
    <3>4. hooks'[pos + 1] = hook
      BY <2>1, <3>3
    <3>. QED
      BY <3>4 DEF hook
  <2>3. /\ [hooks[pos + 1] EXCEPT !.initialized = TRUE].initialized = TRUE
        /\ [hooks[pos + 1] EXCEPT !.initialized = TRUE].handle = hooks[pos + 1].handle
    BY <2>1 DEF Hook
  <2>. QED
    BY <1>6, <2>2, <2>3
<1>8. TypeInv'
  BY TypeSaveCache
<1>9. /\ SuitesInv' /\ (AnchoredByGuard' <=> AnchoredByGuard)
  BY <1>1, <1>2, <1>6, SuitesFrame DEF OutermostEnds
<1>10. Holds(base, hooks', chain, S + 1) /\ \A j \in 1 .. S + 1 : j \in 1 .. N
  <2>1. \A j \in 1 .. S + 1 : j \in 1 .. N
    BY <1>1, <1>3
  <2>. QED
    BY <1>3, <1>6, <2>1, HoldsKept DEF Found
<1>11. ~AnchoredByGuard
  <2>1. S + 1 \in 1 .. N
    BY <1>1, <1>3
  <2>. QED
    BY <1>3, <2>1, GuardedIsUncached
<1>12. \A j \in 1 .. S + 1 : j \in 1 .. S \/ j = S + 1
  BY <1>1
<1>13. StackInv'
  <2>1. \A j \in 1 .. S : /\ Mine[j] \in DOMAIN snapshots
                          /\ Holds(base, hooks', snapshots[Mine[j]], j)
    <3>1. TAKE j \in 1 .. S
    <3>2. Mine[j] \in DOMAIN snapshots /\ Holds(base, hooks, snapshots[Mine[j]], j)
      BY DEF StackInv, Saved
    <3>3. \A i \in 1 .. j : hooks'[i].effect = hooks[i].effect
      BY <1>1, <1>3, <1>6
    <3>. QED
      BY <3>2, <3>3, HoldsKept
  <2>2. \A j \in 1 .. S + 1 : Saved(Mine[j], j)'
    <3>1. \A j \in 1 .. S : Saved(Mine[j], j)'
      BY <1>2, <1>4, <1>5, <2>1 DEF Saved
    <3>2. \A j \in 1 .. S + 1 : j = S + 1 => Saved(Mine[j], j)'
      BY <1>2, <1>4, <1>5, <1>10 DEF Saved
    <3>. QED
      BY <1>12, <3>1, <3>2
  <2>3. \A j \in 1 .. S + 1 : \A i \in 1 .. S + 1 : i < j => Mine'[i] < Mine'[j]
    <3>1. \A i \in 1 .. S : Mine[i] < nextId
      BY <1>1, <2>1
    <3>2. \A j \in 1 .. S : \A i \in 1 .. S : i < j => Mine'[i] < Mine'[j]
      BY <1>4 DEF StackInv
    <3>3. \A i \in 1 .. S : Mine'[i] < Mine'[S + 1]
      BY <1>4, <3>1
    <3>4. \A j \in 1 .. S : ~(S + 1 < j)
      BY <1>1
    <3>. QED
      BY <1>1, <1>12, <3>2, <3>3, <3>4
  <2>4. \A j \in 1 .. N : hooks'[j].initialized =>
           Cached(j)' /\ hooks'[j].handle = Len(base) + j /\ j <= S + 1
    <3>1. TAKE j \in 1 .. N
    <3>2. HAVE hooks'[j].initialized
    <3>3. CASE hooks[j].initialized
      <4>1. /\ hooks[j].kind = "cache" /\ hooks[j].handle = Len(base) + j
            /\ j <= S \/ j = S + 1
        BY <3>3 DEF StackInv, Cached
      <4>. QED
        BY <1>1, <1>2, <1>6, <1>7, <4>1 DEF Cached
    <3>4. CASE ~hooks[j].initialized
      <4>1. j = pos + 1
        BY <1>6, <3>2, <3>4
      <4>2. j = S + 1
        <5>1. hooks[S + 1].initialized => S = pos \/ S > pos
          BY <1>1, <1>3
        <5>2. ASSUME S > pos
              PROVE  FALSE
          <6>1. pos + 1 \in 1 .. S
            BY <1>1, <5>2
          <6>. QED
            BY <3>4, <4>1, <6>1 DEF StackInv
        <5>. QED
          BY <1>1, <1>3, <4>1, <5>2
      <4>. QED
        BY <1>1, <1>3, <1>6, <1>7, <4>2 DEF Cached
    <3>. QED
      BY <3>3, <3>4
  <2>5. \A j \in 1 .. S + 1 : hooks'[j].initialized
    <3>1. \A j \in 1 .. S : hooks'[j].initialized
      <4>1. \A j \in 1 .. S : j \in 1 .. N /\ hooks[j].initialized
        BY <1>1, <1>3 DEF StackInv
      <4>. QED
        BY <1>7, <4>1
    <3>2. hooks'[S + 1].initialized
      <4>1. S + 1 \in 1 .. N
        BY <1>1, <1>3
      <4>2. CASE pos = S
        BY <1>7, <4>2
      <4>3. CASE hooks[S + 1].initialized
        BY <1>7, <4>1, <4>3
      <4>. QED
        BY <1>3, <4>2, <4>3
    <3>. QED
      BY <1>12, <3>1, <3>2
  <2>6. S + 1 <= N
    BY <1>1, <1>3
  <2>. QED
    BY <1>2, <1>4, <1>6, <2>2, <2>3, <2>4, <2>5, <2>6 DEF StackInv
<1>14. GuardsInv'
  <2>1. \A g \in 1 .. G : guards[g].id \notin DOMAIN snapshots' /\ guards[g].id < nextId
    BY <1>1, <1>2, <1>5, SMTT(30) DEF GuardsInv
  <2>2. \A g \in 1 .. G : guards[g].id < nextId'
    BY <1>1, <1>5, <2>1
  <2>3. \A g \in 1 .. gpos : FALSE
    BY <1>2
  <2>. QED
    BY <1>2, <2>1, <2>2, <2>3 DEF GuardsInv
<1>15. AnchorInv'
  BY <1>9, <1>11 DEF AnchorInv
<1>16. RoundInv'
  <2>1. \A j \in 1 .. pos + 1 : (Cached(j)' => hooks'[j].initialized) /\ hooks'[j].handle = Len(base) + j
    <3>1. \A j \in 1 .. pos : (Cached(j)' => hooks'[j].initialized) /\ hooks'[j].handle = Len(base) + j
      <4>1. \A j \in 1 .. pos : j \in 1 .. N
        BY <1>1, <1>2
      <4>. QED
        BY <1>3, <1>6, <1>7, <4>1 DEF Cached
    <3>2. hooks'[pos + 1].initialized /\ hooks'[pos + 1].handle = Len(base) + (pos + 1)
      BY <1>1, <1>3, <1>6, <1>7
    <3>3. \A j \in 1 .. pos + 1 : j \in 1 .. pos \/ j = pos + 1
      BY <1>1
    <3>. QED
      BY <3>1, <3>2, <3>3
  <2>2. pos' >= S' => pos' = S + 1 /\ S' = S + 1
    BY <1>1, <1>2, <1>3, <1>4
  <2>3. pos' >= S' => Found(pos)'
    BY <1>2, <1>5, <1>10, <2>2 DEF Found
  <2>4. Found(S)'
    BY <1>2, <1>4, <1>5, <1>10 DEF Found
  <2>. QED
    BY <1>2, <2>1, <2>3, <2>4 DEF RoundInv
<1>. QED
  BY <1>8, <1>9, <1>13, <1>14, <1>15, <1>16

LEMMA FailHookStep ==
    ASSUME SandboxInv, floor' = floor, FailHook
    PROVE  SandboxInv'
<1>. USE DEF SandboxInv
<1>1. /\ N \in Nat /\ G \in Nat /\ S \in Nat /\ pos \in Nat /\ gpos \in 0 .. G /\ NodeType
      /\ \A g \in 1 .. G : guards[g].depth \in Nat /\ guards[g].below \in Nat
  BY Sizes
<1>2. /\ HookNext /\ phase = "setUp" /\ phase' = "tearDown" /\ gpos' = G
      /\ failedDepth' = current.depth /\ current = hooks[pos + 1] /\ pos + 1 \in 1 .. N
      /\ UNCHANGED <<SNAPSHOTS, floor, Mine, hooks, guards, depth, base, registered, pos, tests, snapshots, nextId>>
      /\ N' = N /\ G' = G /\ S' = S
      /\ AnchoredByGuard => gpos > 0
  BY AtHook DEF FailHook, Transact, nodeVars, current, N, G, S, Mine
<1>3. NodeType'
  BY <1>1, Transacting DEF FailHook, nodeVars, Own, NodeType
<1>4. current.depth \in Nat /\ current.depth \in 1 .. depth /\ hooks[1].depth \in Nat /\ depth \in Nat
  BY <1>1, <1>2, Sizes DEF TypeInv, NestingInv
<1>5. /\ SuitesInv'
      /\ AnchoredByCache' <=> AnchoredByCache
      /\ AnchoredByGuard' <=> AnchoredByGuard
  BY <1>1, <1>2, SuitesFrame DEF OutermostEnds
<1>6. \A id, n : Saved(id, n)' <=> Saved(id, n)
  BY <1>2 DEF Saved
<1>7. StackInv'
  BY <1>2, <1>6, StackFrame DEF StackInv
<1>8. GuardsInv'
  <2>1. ASSUME NEW g \in 1 .. G, guards[g].depth > current.depth
        PROVE  guards[g].id \notin DOMAIN snapshots
    <3>1. CASE g > gpos
      BY <3>1 DEF GuardsInv
    <3>2. CASE g <= gpos
      <4>1. guards[g].below <= pos
        BY <1>1, <1>2, <3>2 DEF GuardsInv
      <4>2. pos + 1 > guards[g].below
        BY <1>1, <4>1
      <4>3. hooks[pos + 1].depth >= guards[g].depth
        BY <1>2, <4>2 DEF SuitesInv
      <4>. QED
        BY <1>1, <1>2, <1>4, <2>1, <4>3
    <3>. QED
      BY <1>1, <3>1, <3>2
  <2>2. \A g \in 1 .. G : ~(g > G)
    BY <1>1
  <2>. QED
    BY <1>2, <2>1, <2>2 DEF GuardsInv
<1>9. AnchorInv'
  <2>1. AnchoredByGuard => Saved(guards[1].id, 0) /\ G > 0
    BY <1>1, <1>2 DEF AnchorInv, AnchoredByGuard
  <2>2. Saved(guards[1].id, 0)' <=> Saved(guards[1].id, 0)
    BY <1>2 DEF Saved
  <2>. QED
    BY <1>1, <1>2, <1>5, <2>1, <2>2 DEF AnchorInv
<1>10. AnchoredByCache => S > 0 \/ current.depth = 1
  <2>1. ASSUME AnchoredByCache, current.depth # 1
        PROVE  S > 0
    <3>1. pos >= 1
      BY <1>1, <1>2, <2>1 DEF AnchoredByCache
    <3>2. 1 \in 1 .. pos /\ 1 \in 1 .. N /\ Cached(1)
      BY <1>1, <2>1, <3>1 DEF AnchoredByCache, Cached
    <3>3. hooks[1].initialized
      BY <1>2, <3>2 DEF RoundInv
    <3>4. 1 <= S
      BY <1>2, <3>2, <3>3 DEF StackInv
    <3>. QED
      BY <1>1, <3>4
  <2>. QED
    BY <2>1
<1>11. RoundInv'
  BY <1>2, <1>5, <1>10 DEF RoundInv
<1>12. TypeInv'
  BY TypeFailHook
<1>. QED
  BY <1>5, <1>7, <1>8, <1>9, <1>11, <1>12

----------------------------------------------------------------------------
(* The suites.                                                              *)

LEMMA LeaveHookStep ==
    ASSUME SandboxInv, floor' = floor, LeaveHook
    PROVE  SandboxInv'
<1>. USE DEF SandboxInv
<1>1. /\ phase = "leaving" /\ hooks # <<>> /\ hooks[N].depth = depth
      /\ UNCHANGED <<nodeVars, guards, depth, base, failedDepth, registered, phase, pos, gpos, tests>>
      /\ hooks' = popped(hooks) /\ hooks \in Seq(Hook) /\ G' = G
      /\ Mine \in Seq(Nat) /\ SNAPSHOTS \in Seq(Nat) /\ floor \in Nat
  BY Sizes DEF LeaveHook, Innermost, N, G, TypeInv, Types
<1>2. /\ N' = N - 1 /\ \A i \in 1 .. N - 1 : hooks'[i] = hooks[i]
  BY <1>1, PoppedSeq DEF N
<1>3. /\ N \in Nat /\ N >= 1 /\ N \in 1 .. N /\ G \in Nat /\ S \in Nat /\ S <= N
      /\ \A j \in 1 .. N - 1 : j \in 1 .. N /\ j < N
      /\ \A g \in 1 .. G : guards[g].below \in Nat
      /\ depth \in Nat
  BY <1>1, Sizes DEF N, StackInv
<1>4. TypeInv'
  BY TypeLeaveHook
<1>5. /\ S' \in Nat /\ S' <= S /\ S' <= N - 1
      /\ \A j \in 1 .. S' : Mine'[j] = Mine[j] /\ j \in 1 .. S
      /\ S' # S => S = N /\ Cached(N)
      /\ \A j \in 1 .. N - 1 : j <= S => j <= S'
      /\ floor' <= Len(SNAPSHOTS')
  <2>1. CASE hooks[N].initialized
    <3>1. Cached(N) /\ N <= S
      BY <1>1, <1>3, <2>1 DEF StackInv
    <3>2. Mine # <<>> /\ S = N
      BY <1>3, <3>1 DEF S
    <3>3. Mine' = popped(Mine) /\ floor' <= Len(SNAPSHOTS')
      <4>1. floor <= Len(SNAPSHOTS) /\ OwnPart(SNAPSHOTS, floor) # <<>>
        BY <3>2 DEF StackInv, Mine
      <4>2. /\ floor <= Len(popped(SNAPSHOTS)) /\ SNAPSHOTS # <<>>
            /\ OwnPart(popped(SNAPSHOTS), floor) = popped(OwnPart(SNAPSHOTS, floor))
        BY <1>1, <4>1, OwnPartPopped
      <4>3. SNAPSHOTS' = popped(SNAPSHOTS)
        BY <2>1, <3>1, <4>2 DEF LeaveHook, PopsSnapshot, Cached, N
      <4>. QED
        BY <4>2, <4>3 DEF Mine
    <3>4. S' = S - 1 /\ \A j \in 1 .. S - 1 : Mine'[j] = Mine[j]
      BY <1>1, <3>2, <3>3, PoppedSeq DEF S
    <3>. QED
      BY <1>3, <3>1, <3>2, <3>3, <3>4
  <2>2. CASE ~hooks[N].initialized
    <3>1. Mine' = Mine /\ S' = S /\ floor' <= Len(SNAPSHOTS')
      BY <2>2 DEF LeaveHook, PopsSnapshot, N, S, Mine, StackInv
    <3>2. S # N
      BY <1>3, <2>2 DEF StackInv
    <3>. QED
      BY <1>3, <3>1, <3>2
  <2>. QED
    BY <2>1, <2>2
<1>6. N - 1 = 0 \/ (N - 1 >= 1 /\ hooks'[1] = hooks[1])
  BY <1>2, <1>3
<1>7. /\ AnchoredByCache' => AnchoredByCache
      /\ AnchoredByGuard' <=> AnchoredByGuard
  BY <1>1, <1>2, <1>3, <1>6 DEF AnchoredByCache, AnchoredByGuard
<1>8. SuitesInv'
  <2>1. \A g \in 1 .. G : \A j \in 1 .. N - 1 :
           j > guards[g].below => hooks'[j].depth >= guards[g].depth
    BY <1>2, <1>3 DEF SuitesInv
  <2>2. \A j \in 1 .. N - 1 : hooks'[j].kind = "cache" =>
           /\ \A i \in 1 .. j : hooks'[i].kind = "cache"
           /\ \A g \in 1 .. G : j <= guards[g].below
    <3>1. \A j \in 1 .. N - 1 : \A i \in 1 .. j : i \in 1 .. N - 1
      BY <1>3
    <3>. QED
      BY <1>2, <1>3, <3>1 DEF SuitesInv, Cached
  <2>3. ASSUME depth > 0, ~OutermostEnds'
        PROVE  AnchoredByCache' \/ AnchoredByGuard
    <3>1. depth # 1 /\ ~OutermostEnds
      BY <1>1, <2>3 DEF OutermostEnds
    <3>2. AnchoredByCache \/ AnchoredByGuard
      BY <2>3, <3>1 DEF SuitesInv
    <3>3. ASSUME AnchoredByCache
          PROVE  AnchoredByCache'
      <4>1. N # 1
        BY <1>1, <3>1, <3>3 DEF AnchoredByCache
      <4>. QED
        BY <1>2, <1>3, <1>6, <3>3, <4>1 DEF AnchoredByCache
    <3>. QED
      BY <3>2, <3>3
  <2>. QED
    BY <1>1, <1>2, <1>7, <2>1, <2>2, <2>3 DEF SuitesInv, Cached
<1>9. \A j \in 0 .. N - 1 : \A id : Saved(id, j) => Saved(id, j)'
  <2>1. TAKE j \in 0 .. N - 1
  <2>2. TAKE id
  <2>3. HAVE Saved(id, j)
  <2>4. \A i \in 1 .. j : hooks'[i].effect = hooks[i].effect
    BY <1>2, <1>3
  <2>5. Holds(base, hooks', snapshots[id], j)
    BY <2>3, <2>4, HoldsKept DEF Saved
  <2>. QED
    BY <1>1, <2>3, <2>5 DEF Saved, nodeVars
<1>10. StackInv'
  <2>1. \A j \in 1 .. S' : Saved(Mine[j], j)'
    <3>1. TAKE j \in 1 .. S'
    <3>2. j \in 1 .. S /\ j \in 0 .. N - 1 /\ Mine'[j] = Mine[j]
      BY <1>3, <1>5
    <3>3. Saved(Mine[j], j)
      BY <3>2 DEF StackInv
    <3>4. /\ Mine[j] \in DOMAIN snapshots
          /\ Holds(base, hooks', snapshots[Mine[j]], j)
      <4>1. \A i \in 1 .. j : hooks'[i].effect = hooks[i].effect
        BY <1>2, <1>3, <3>2
      <4>. QED
        BY <3>3, <4>1, HoldsKept DEF Saved
    <3>. QED
      BY <1>1, <3>2, <3>4 DEF Saved, nodeVars
  <2>2. \A j \in 1 .. S' : \A i \in 1 .. S' : i < j => Mine'[i] < Mine'[j]
    BY <1>5 DEF StackInv
  <2>3. \A j \in 1 .. N - 1 : hooks'[j].initialized =>
           hooks'[j].kind = "cache" /\ hooks'[j].handle = Len(base) + j /\ j <= S'
    BY <1>1, <1>2, <1>3, <1>5 DEF StackInv, Cached
  <2>4. \A j \in 1 .. S' : hooks'[j].initialized
    <3>1. \A j \in 1 .. S' : j \in 1 .. S /\ j \in 1 .. N - 1
      BY <1>3, <1>5
    <3>. QED
      BY <1>2, <3>1 DEF StackInv
  <2>. QED
    BY <1>1, <1>2, <1>5, <2>1, <2>2, <2>3, <2>4 DEF StackInv, Cached
<1>11. GuardsInv'
  <2>1. \A g \in 1 .. G : guards[g].id \in DOMAIN snapshots => \A j \in 1 .. S' : Mine'[j] < guards[g].id
    BY <1>5 DEF GuardsInv
  <2>. QED
    BY <1>1, <2>1 DEF GuardsInv, nodeVars
<1>12. AnchorInv'
  BY <1>1 DEF AnchorInv
<1>13. RoundInv'
  <2>1. ASSUME depth > 0, ~OutermostEnds', failedDepth # 1, S' = 0
        PROVE  Found(0)'
    <3>1. depth # 1 /\ ~OutermostEnds
      BY <1>1, <2>1 DEF OutermostEnds
    <3>2. S = 0
      <4>1. AnchoredByCache \/ AnchoredByGuard
        BY <2>1, <3>1 DEF SuitesInv
      <4>2. CASE AnchoredByGuard
        BY <4>2, GuardedIsUncached
      <4>3. CASE AnchoredByCache
        <5>1. N # 1
          BY <1>1, <3>1, <4>3 DEF AnchoredByCache
        <5>2. 1 \in 1 .. N - 1
          BY <1>3, <5>1
        <5>3. ~(1 <= S)
          BY <1>5, <2>1, <5>2
        <5>. QED
          BY <1>3, <5>3
      <4>. QED
        BY <4>1, <4>2, <4>3
    <3>3. Found(0)
      BY <1>1, <2>1, <3>1, <3>2 DEF RoundInv
    <3>. QED
      BY <1>1, <3>3 DEF Found, Holds, nodeVars
  <2>. QED
    BY <1>1, <2>1 DEF RoundInv
<1>. QED
  BY <1>4, <1>8, <1>10, <1>11, <1>12, <1>13

LEMMA LeaveSuiteStep ==
    ASSUME SandboxInv, floor' = floor, LeaveSuite
    PROVE  SandboxInv'
<1>. USE DEF SandboxInv
<1>1. /\ phase = "leaving" /\ phase' = "rest" /\ depth' = depth - 1 /\ ~Innermost(hooks)
      /\ failedDepth' = failureAfter /\ depth > 0 /\ pos = 0 /\ gpos = 0
      /\ UNCHANGED <<nodeVars, SNAPSHOTS, floor, Mine, hooks, base, registered, pos, gpos, tests>>
      /\ N' = N /\ S' = S
  BY DEF LeaveSuite, TypeInv, PhaseInv, N, S, Mine
<1>2. /\ N \in Nat /\ G \in Nat /\ S \in Nat /\ depth \in Nat /\ failedDepth \in Nat
      /\ \A j \in 1 .. N : hooks[j].depth \in Nat
      /\ \A g \in 1 .. G : guards[g].below \in Nat /\ guards[g].depth \in Nat
  BY Sizes
<1>3. TypeInv'
  BY TypeLeaveSuite
<1>4. /\ G' \in Nat /\ G' <= G
      /\ \A g \in 1 .. G' : guards'[g] = guards[g] /\ g \in 1 .. G
      /\ \A g \in 1 .. G : guards[g].depth < depth => g <= G'
  <2>0. guards \in Seq(Guard) /\ G = Len(guards)
    BY DEF TypeInv, Types, G
  <2>1. CASE Innermost(guards)
    <3>1. guards # <<>> /\ guards[G].depth = depth /\ guards' = popped(guards)
      BY <2>1 DEF LeaveSuite, Innermost, G
    <3>2. G' = G - 1 /\ \A g \in 1 .. G - 1 : guards'[g] = guards[g]
      BY <2>0, <3>1, PoppedSeq DEF G
    <3>3. G >= 1
      BY <2>0, <3>1
    <3>. QED
      BY <1>2, <3>1, <3>2, <3>3
  <2>2. CASE ~Innermost(guards)
    <3>1. guards' = guards /\ G' = G
      BY <2>2 DEF LeaveSuite, G
    <3>. QED
      BY <1>2, <3>1
  <2>. QED
    BY <2>1, <2>2
<1>5. depth' = 0 \/ (depth' >= 1 /\ ~OutermostEnds /\ depth # 1)
  BY <1>1, <1>2 DEF OutermostEnds
<1>6. /\ AnchoredByCache' <=> AnchoredByCache
      /\ AnchoredByGuard' => AnchoredByGuard
      /\ AnchoredByGuard /\ depth # 1 => AnchoredByGuard'
  <2>1. AnchoredByCache' <=> AnchoredByCache
    BY <1>1 DEF AnchoredByCache
  <2>2. AnchoredByGuard' => AnchoredByGuard
    BY <1>2, <1>4 DEF AnchoredByGuard
  <2>3. ASSUME AnchoredByGuard, depth # 1
        PROVE  AnchoredByGuard'
    <3>1. 1 \in 1 .. G /\ guards[1].depth < depth
      BY <1>1, <1>2, <2>3 DEF AnchoredByGuard
    <3>2. 1 \in 1 .. G'
      BY <1>4, <3>1
    <3>. QED
      BY <1>4, <2>3, <3>2 DEF AnchoredByGuard
  <2>. QED
    BY <2>1, <2>2, <2>3
<1>7. SuitesInv'
  <2>1. \A g \in 1 .. G' : \A j \in 1 .. N :
           j > guards'[g].below => hooks[j].depth >= guards'[g].depth
    BY <1>4 DEF SuitesInv
  <2>2. \A j \in 1 .. N : Cached(j) =>
           /\ \A i \in 1 .. j : Cached(i)
           /\ \A g \in 1 .. G' : j <= guards'[g].below
    BY <1>4 DEF SuitesInv
  <2>3. depth' > 0 => AnchoredByCache' \/ AnchoredByGuard'
    BY <1>1, <1>2, <1>5, <1>6 DEF SuitesInv
  <2>. QED
    BY <1>1, <2>1, <2>2, <2>3 DEF SuitesInv, Cached
<1>8. StackInv'
  <2>1. \A id, n : Saved(id, n)' <=> Saved(id, n)
    BY <1>1 DEF Saved, nodeVars
  <2>. QED
    BY <1>1, <2>1, StackFrame DEF StackInv
<1>9. GuardsInv'
  <2>1. \A g \in 1 .. G' : guards'[g].id = guards[g].id /\ g \in 1 .. G /\ (g > 1 => guards'[1] = guards[1])
    BY <1>2, <1>4
  <2>2. \A g \in 1 .. G : guards[g].id \notin DOMAIN snapshots /\ guards[g].id < nextId
    BY <1>1, <1>2 DEF GuardsInv
  <2>. QED
    BY <1>1, <2>1, <2>2 DEF GuardsInv, nodeVars
<1>10. AnchorInv'
  BY <1>1 DEF AnchorInv
<1>11. RoundInv'
  <2>1. ASSUME depth' > 0, failedDepth' # 1, S = 0
        PROVE  Found(0)'
    <3>1. failedDepth # 1
      BY <1>1, <1>2, <1>5, <2>1 DEF failureAfter
    <3>2. Found(0)
      BY <1>1, <1>2, <1>5, <2>1, <3>1 DEF RoundInv
    <3>. QED
      BY <1>1, <3>2 DEF Found, Holds, nodeVars
  <2>. QED
    BY <1>1, <2>1 DEF RoundInv
<1>. QED
  BY <1>3, <1>7, <1>8, <1>9, <1>10, <1>11

LEMMA OpenSuiteStep ==
    ASSUME TypeInv, depth # 0 => SandboxInv, ~AnyOrder, NEW suite \in Suites, OpenSuite(suite)
    PROVE  SandboxInv'
<1>. USE DEF SandboxInv
<1>. DEFINE hs == newHooks(suite.setups)
            gs == newGuards(suite.guards)
<1>1. /\ N \in Nat /\ G \in Nat /\ S \in Nat /\ depth \in Nat /\ nextId \in Nat /\ Len(base) \in Nat /\ Len(chain) \in Nat
      /\ \A j \in 1 .. N : hooks[j].depth \in Nat
      /\ \A g \in 1 .. G : guards[g].below \in Nat /\ guards[g].depth \in Nat
      /\ \A id \in DOMAIN snapshots : id \in Nat /\ id < nextId
  BY Sizes
<1>2. /\ phase = "rest" /\ phase' = "rest" /\ depth' = depth + 1 /\ failedDepth = 0
      /\ UNCHANGED <<nodeVars, SNAPSHOTS, phase, pos, gpos, failedDepth, tests>>
      /\ base' = IF depth = 0 THEN chain ELSE base
      /\ CachesFirst(hooks', guards') /\ pos = 0 /\ gpos = 0
      /\ hooks' = hooks \o hs /\ guards' = guards \o gs
      /\ floor' = IF depth = 0 THEN Len(SNAPSHOTS) ELSE floor
  BY DEF OpenSuite, TypeInv, PhaseInv
<1>3. TypeInv'
  BY TypeOpen
<1>4. /\ N' \in Nat /\ N' >= N
      /\ \A i \in 1 .. N : hooks'[i] = hooks[i] /\ i \in 1 .. N'
      /\ \A i \in 1 .. N' : i \in 1 .. N \/ (i > N /\ hooks'[i].depth = depth + 1 /\ hooks'[i].initialized = FALSE)
  <2>1. hs \in Seq(Hook) /\ hooks \in Seq(Hook)
    BY NewHooks DEF TypeInv, Types
  <2>2. \A i \in 1 .. Len(hs) : hs[i].depth = depth + 1 /\ hs[i].initialized = FALSE
    BY NewHooks DEF TypeInv
  <2>. HIDE DEF hs
  <2>3. /\ Len(hooks \o hs) = N + Len(hs)
        /\ \A i \in 1 .. N : (hooks \o hs)[i] = hooks[i]
        /\ \A i \in N + 1 .. N + Len(hs) : (hooks \o hs)[i] = hs[i - N]
    BY <2>1, ConcatSeq DEF N
  <2>4. Len(hs) \in Nat /\ N' = N + Len(hs)
    BY <1>2, <2>1, <2>3 DEF N
  <2>5. \A i \in N + 1 .. N + Len(hs) : i - N \in 1 .. Len(hs)
    BY <1>1, <2>4
  <2>6. \A i \in 1 .. N' : i \in 1 .. N \/ (i > N /\ i \in N + 1 .. N + Len(hs))
    BY <1>1, <2>4
  <2>7. N' \in Nat /\ N' >= N /\ \A i \in 1 .. N : i \in 1 .. N'
    BY <1>1, <2>4
  <2>8. \A i \in 1 .. N : hooks'[i] = hooks[i]
    BY <1>2, <2>3
  <2>9. \A i \in N + 1 .. N + Len(hs) : hooks'[i].depth = depth + 1 /\ hooks'[i].initialized = FALSE
    BY <1>2, <2>2, <2>3, <2>5
  <2>. QED
    BY <2>6, <2>7, <2>8, <2>9
<1>5. /\ G' \in Nat /\ G' >= G
      /\ \A i \in 1 .. G : guards'[i] = guards[i] /\ i \in 1 .. G'
      /\ \A i \in 1 .. G' : i \in 1 .. G \/ ( /\ i > G /\ guards'[i].depth = depth + 1
                                             /\ guards'[i].id = 0 /\ guards'[i].below >= N
                                             /\ guards'[i].below \in Nat)
  <2>1. gs \in Seq(Guard) /\ guards \in Seq(Guard)
    BY NewGuards DEF TypeInv, Types
  <2>2. \A i \in 1 .. Len(gs) :
           /\ gs[i].depth = depth + 1 /\ gs[i].id = 0 /\ gs[i].below >= N /\ gs[i].below \in Nat
    <3>1. \A i \in 1 .. Len(gs) :
             /\ gs[i].depth = depth + 1 /\ gs[i].id = 0 /\ gs[i].below \in Len(hooks) .. Len(hooks) + Len(suite.setups)
      BY NewGuards DEF TypeInv
    <3>2. N = Len(hooks) /\ \A i \in 1 .. Len(gs) : gs[i].below \in Nat
      BY <2>1, GuardFields DEF N
    <3>. HIDE DEF gs
    <3>. QED
      BY <1>1, <3>1, <3>2, SandboxAssumption
  <2>. HIDE DEF gs
  <2>3. /\ Len(guards \o gs) = G + Len(gs)
        /\ \A i \in 1 .. G : (guards \o gs)[i] = guards[i]
        /\ \A i \in G + 1 .. G + Len(gs) : (guards \o gs)[i] = gs[i - G]
    BY <2>1, ConcatSeq DEF G
  <2>4. Len(gs) \in Nat /\ G' = G + Len(gs)
    BY <1>2, <2>1, <2>3 DEF G
  <2>5. \A i \in G + 1 .. G + Len(gs) : i - G \in 1 .. Len(gs)
    BY <1>1, <2>4
  <2>6. \A i \in 1 .. G' : i \in 1 .. G \/ (i > G /\ i \in G + 1 .. G + Len(gs))
    BY <1>1, <2>4
  <2>7. G' \in Nat /\ G' >= G /\ \A i \in 1 .. G : i \in 1 .. G'
    BY <1>1, <2>4
  <2>. QED
    BY <1>2, <2>2, <2>3, <2>5, <2>6, <2>7, ZenonT(60)
<1>. HIDE DEF hs, gs
<1>6. depth = 0 => N = 0 /\ G = 0
  <2>1. ASSUME depth = 0
        PROVE  N = 0 /\ G = 0
    <3>1. \A j \in 1 .. N : hooks[j].depth \in 1 .. 0
      BY <2>1 DEF TypeInv, NestingInv
    <3>2. \A g \in 1 .. G : guards[g].depth \in 1 .. 0
      BY <2>1 DEF TypeInv, NestingInv
    <3>3. N = 0
      <4>1. 1 \in 1 .. N => hooks[1].depth \in 1 .. 0
        BY <3>1
      <4>. QED
        BY <1>1, <4>1
    <3>4. G = 0
      <4>1. 1 \in 1 .. G => guards[1].depth \in 1 .. 0
        BY <3>2
      <4>. QED
        BY <1>1, <4>1
    <3>. QED
      BY <3>3, <3>4
  <2>. QED
    BY <2>1
<1>14. /\ S' \in Nat /\ floor' <= Len(SNAPSHOTS')
       /\ depth = 0 => S' = 0
       /\ depth # 0 => Mine' = Mine /\ S' = S
  <2>1. CASE depth = 0
    <3>1. floor' = Len(SNAPSHOTS) /\ SNAPSHOTS' = SNAPSHOTS /\ SNAPSHOTS \in Seq(Nat) /\ Len(SNAPSHOTS) \in Nat
      BY <1>2, <2>1, Sizes
    <3>2. Len(OwnPart(SNAPSHOTS, Len(SNAPSHOTS))) = 0
      BY <3>1, OwnPartSeq
    <3>. QED
      BY <2>1, <3>1, <3>2 DEF S, Mine
  <2>2. CASE depth # 0
    BY <1>1, <1>2, <2>2 DEF S, Mine, StackInv
  <2>. QED
    BY <2>1, <2>2
<1>15. depth # 0 => S <= N /\ \A j \in 1 .. S : j \in 1 .. N
  BY <1>1 DEF StackInv
<1>7. Len(hooks') = N' /\ Len(guards') = G'
  BY DEF N, G
<1>8. SuitesInv'
  <2>1. \A g \in 1 .. G' : \A j \in 1 .. N' :
           j > guards'[g].below => hooks'[j].depth >= guards'[g].depth
    <3>1. TAKE g \in 1 .. G'
    <3>2. TAKE j \in 1 .. N'
    <3>3. HAVE j > guards'[g].below
    <3>4. CASE j \in 1 .. N
      <4>1. g \in 1 .. G
        BY <1>1, <1>5, <3>3, <3>4
      <4>. QED
        BY <1>4, <1>5, <1>6, <1>1, <3>3, <3>4, <4>1 DEF SuitesInv
    <3>5. CASE j \notin 1 .. N
      <4>1. hooks'[j].depth = depth + 1
        BY <1>4, <3>5
      <4>2. g \in 1 .. G => guards'[g].depth \in 1 .. depth
        BY <1>5 DEF TypeInv, NestingInv
      <4>. QED
        BY <1>1, <1>5, <4>1, <4>2
    <3>. QED
      BY <3>4, <3>5
  <2>2. \A j \in 1 .. N' : hooks'[j].kind = "cache" =>
           /\ \A i \in 1 .. j : hooks'[i].kind = "cache"
           /\ \A g \in 1 .. G' : j <= guards'[g].below
    BY <1>2, <1>7 DEF CachesFirst
  <2>3. AnchoredByCache' \/ AnchoredByGuard'
    <3>1. CASE depth = 0
      <4>1. \/ N' >= 1 /\ hooks'[1].kind = "cache"
            \/ G' >= 1 /\ guards'[1].below = 0
        <5>0. hooks' \in Seq(Hook) /\ guards' \in Seq(Guard)
          BY <1>3 DEF TypeInv, Types
        <5>1. hooks' # <<>> => N' >= 1
          BY <1>7, <5>0
        <5>2. guards' # <<>> => G' >= 1
          BY <1>7, <5>0
        <5>. QED
          BY <1>2, <5>1, <5>2 DEF CachesFirst
      <4>2. N' >= 1 => hooks'[1].depth = 1
        BY <1>1, <1>4, <1>6, <3>1
      <4>3. G' >= 1 => guards'[1].depth = 1
        BY <1>1, <1>5, <1>6, <3>1
      <4>. QED
        BY <4>1, <4>2, <4>3 DEF AnchoredByCache, AnchoredByGuard
    <3>2. CASE depth # 0
      <4>1. AnchoredByCache \/ AnchoredByGuard
        BY <1>1, <1>2, <3>2 DEF SuitesInv, OutermostEnds
      <4>2. AnchoredByCache => AnchoredByCache'
        BY <1>1, <1>4 DEF AnchoredByCache
      <4>3. AnchoredByGuard => AnchoredByGuard'
        BY <1>1, <1>5 DEF AnchoredByGuard
      <4>. QED
        BY <4>1, <4>2, <4>3
    <3>. QED
      BY <3>1, <3>2
  <2>. QED
    BY <2>1, <2>2, <2>3 DEF SuitesInv, Cached
<1>9. depth # 0 => base' = base
  BY <1>2
<1>10. StackInv'
  <2>1. \A j \in 1 .. S' : Saved(Mine[j], j)'
    <3>1. TAKE j \in 1 .. S'
    <3>2. Saved(Mine[j], j) /\ base' = base /\ Mine' = Mine /\ depth # 0 /\ j \in 1 .. S
      BY <1>1, <1>9, <1>14 DEF StackInv
    <3>3. \A i \in 1 .. j : hooks'[i].effect = hooks[i].effect
      <4>1. \A i \in 1 .. j : i \in 1 .. N
        BY <1>1, <1>15, <3>2
      <4>. QED
        BY <1>4, <4>1
    <3>4. Holds(base, hooks', snapshots[Mine[j]], j)
      BY <3>2, <3>3, HoldsKept DEF Saved
    <3>. QED
      BY <1>2, <3>2, <3>4 DEF Saved, nodeVars
  <2>2. \A j \in 1 .. N' : hooks'[j].initialized =>
           hooks'[j].kind = "cache" /\ hooks'[j].handle = Len(base') + j /\ j <= S'
    <3>1. TAKE j \in 1 .. N'
    <3>2. HAVE hooks'[j].initialized
    <3>3. j \in 1 .. N /\ hooks'[j] = hooks[j]
      BY <1>4, <3>2
    <3>4. depth # 0 /\ base' = base /\ S' = S
      BY <1>1, <1>2, <1>6, <1>14, <3>3
    <3>. QED
      BY <1>2, <3>2, <3>3, <3>4 DEF StackInv, Cached
  <2>3. \A j \in 1 .. S' : hooks'[j].initialized
    <3>1. TAKE j \in 1 .. S'
    <3>2. depth # 0 /\ j \in 1 .. S /\ j \in 1 .. N
      BY <1>1, <1>14, <1>15
    <3>. QED
      BY <1>4, <3>2 DEF StackInv
  <2>4. S' <= N'
    BY <1>1, <1>4, <1>14, <1>15
  <2>5. \A j \in 1 .. S' : \A i \in 1 .. S' : i < j => Mine'[i] < Mine'[j]
    <3>1. CASE depth = 0
      BY <1>14, <3>1
    <3>2. CASE depth # 0
      BY <1>14, <3>2 DEF StackInv
    <3>. QED
      BY <3>1, <3>2
  <2>. QED
    BY <1>2, <1>14, <2>1, <2>2, <2>3, <2>4, <2>5 DEF StackInv, Cached
<1>11. GuardsInv'
  <2>1. 0 \notin DOMAIN snapshots /\ 0 < nextId
    BY DEF TypeInv, Types
  <2>2. \A g \in 1 .. G : guards[g].id \notin DOMAIN snapshots /\ guards[g].id < nextId
    BY <1>1, <1>2, <1>6 DEF GuardsInv
  <2>3. \A g \in 1 .. G' : guards'[g].id \notin DOMAIN snapshots /\ guards'[g].id < nextId
    BY <1>5, <2>1, <2>2
  <2>. QED
    BY <1>2, <2>3 DEF GuardsInv, nodeVars
<1>12. AnchorInv'
  BY <1>2 DEF AnchorInv
<1>13. RoundInv'
  <2>1. S' = 0 => Holds(base', hooks', chain, 0)
    <3>1. CASE depth = 0
      BY <1>1, <1>2, <3>1 DEF Holds
    <3>2. CASE depth # 0
      <4>1. S' = 0 => Found(0) /\ base' = base
        BY <1>1, <1>2, <1>14, <3>2 DEF RoundInv, OutermostEnds
      <4>. QED
        BY <4>1 DEF Found, Holds
    <3>. QED
      BY <3>1, <3>2
  <2>2. S' = 0 => Found(0)'
    BY <1>2, <2>1 DEF Found, nodeVars
  <2>. QED
    BY <1>2, <2>2 DEF RoundInv
<1>. QED
  BY <1>3, <1>8, <1>10, <1>11, <1>12, <1>13

----------------------------------------------------------------------------
(* Set-ups that time out.                                                   *)

\* Only set-ups that failed are late, at most one of those the suites still have.
LateInv ==
    /\ \A j \in 1 .. N : hooks[j].effect <= registered
    /\ \A j \in 1 .. N : hooks[j].initialized => Cached(j)
    /\ phase = "save" => Cached(pos + 1)
    /\ \A l \in late :
           /\ l.place >= 1 /\ l.effect <= registered
           /\ l.stage # "deploys" => l.kind = "cache"
           /\ IsOpen(l) =>
                  /\ failedDepth # 0 /\ hooks[l.place].depth >= failedDepth
                  /\ hooks[l.place].kind = l.kind /\ ~hooks[l.place].initialized
    /\ \A l \in late : \A m \in late : IsOpen(l) /\ IsOpen(m) => l = m

Ran == {j \in 1 .. N : hooks[j].initialized}

\* Between its pop and its push a cached set-up owes the stack a snapshot.
Owed == IF phase = "save" /\ hooks[pos + 1].initialized THEN 1 ELSE 0
CountInv == Len(SNAPSHOTS) + Owed = stray + Cardinality(Ran)

Inv ==
    /\ TypeInv /\ LateTypes /\ LateInv /\ CountInv
    /\ ~disturbed => SandboxInv

LEMMA LateFields ==
    ASSUME LateTypes, NEW l \in late
    PROVE  /\ l \in LateRun /\ l.place \in Nat /\ l.effect \in Nat /\ l.kind \in Kind
           /\ l.stage \in {"deploys", "saves", "pushes"} /\ l.id \in Nat
BY DEF LateTypes, LateRun

LEMMA AllOver ==
    ASSUME LateInv, failedDepth = 0
    PROVE  \A l \in late : ~IsOpen(l)
BY DEF LateInv

\* The hooks are the same, but for flags and handles.
SameHooks ==
    /\ N' = N /\ registered' = registered
    /\ \A i \in 1 .. N :
           /\ hooks'[i].kind = hooks[i].kind
           /\ hooks'[i].depth = hooks[i].depth
           /\ hooks'[i].effect = hooks[i].effect

LEMMA OpenKept ==
    ASSUME LateTypes, LateInv, N \in Nat, SameHooks, NEW l \in late
    PROVE  IsOpen(l)' <=> IsOpen(l)
<1>1. l.place \in Nat /\ l.place >= 1
  BY LateFields DEF LateInv
<1>2. N = Len(hooks) /\ N' = Len(hooks')
  BY DEF N
<1>3. l.place <= N => l.place \in 1 .. N
  BY <1>1
<1>. QED
  BY <1>2, <1>3 DEF IsOpen, SameHooks

\* A set-up in time runs when none of the late ones has its hook any more.
LEMMA LateRound ==
    ASSUME LateTypes, LateInv, N \in Nat, SameHooks, failedDepth = 0, late' = late,
           \A j \in 1 .. N : hooks'[j].initialized => Cached(j),
           phase' = "save" => pos' + 1 \in 1 .. N /\ Cached(pos' + 1)
    PROVE  LateInv'
<1>1. \A l \in late : ~IsOpen(l)'
  BY AllOver, OpenKept
<1>2. \A j \in 1 .. N : Cached(j)' <=> Cached(j)
  BY DEF Cached, SameHooks
<1>3. phase' = "save" => Cached(pos + 1)'
  BY <1>2 DEF Cached
<1>4. \A l \in late : l.place >= 1 /\ l.effect <= registered' /\ (l.stage # "deploys" => l.kind = "cache")
  BY DEF LateInv, SameHooks
<1>5. \A j \in 1 .. N' : hooks'[j].effect <= registered'
  BY DEF LateInv, SameHooks
<1>6. \A j \in 1 .. N' : hooks'[j].initialized => Cached(j)'
  BY <1>2 DEF SameHooks
<1>. QED
  BY <1>1, <1>3, <1>4, <1>5, <1>6 DEF LateInv

LEMMA LateIdle ==
    ASSUME LateInv, UNCHANGED <<hooks, registered, late, failedDepth>>,
           phase' = "save" => Cached(pos' + 1)
    PROVE  LateInv'
<1>1. N' = N /\ \A j : Cached(j)' <=> Cached(j)
  BY DEF N, Cached
<1>2. \A l : IsOpen(l)' <=> IsOpen(l)
  BY DEF IsOpen
<1>3. phase' = "save" => Cached(pos + 1)'
  BY DEF Cached
<1>. QED
  BY <1>1, <1>2, <1>3 DEF LateInv

LEMMA LateInTime ==
    ASSUME TypeInv, LateTypes, LateInv, InTime, late' = late
    PROVE  LateInv'
<1>1. N \in Nat /\ depth \in Nat /\ failedDepth \in Nat /\ hooks \in Seq(Hook)
      /\ \A j \in 1 .. N : hooks[j].depth \in Nat
  BY Sizes DEF TypeInv, Types
<1>2. CASE \/ StartLeaving \/ StartRound \/ SaveGuard \/ BeginTest \/ TestActs \/ EndTest
           \/ RestoreGuard \/ EndRound
  <2>1. UNCHANGED <<hooks, registered, late, failedDepth>> /\ phase' # "save"
    BY <1>2 DEF StartLeaving, StartRound, SaveGuard, BeginTest, TestActs, EndTest, RestoreGuard,
       EndRound, mochaVars
  <2>. QED
    BY <2>1, LateIdle
<1>3. CASE Restore
  <2>1. UNCHANGED <<hooks, registered, late, failedDepth>> /\ Cached(pos' + 1)
    BY <1>3 DEF Restore, mochaVars, Cached, current
  <2>. QED
    BY <2>1, LateIdle
<1>4. CASE FailHook
  <2>1. SameHooks /\ failedDepth = 0 /\ phase' # "save" /\ hooks' = hooks
    BY <1>4 DEF FailHook, HookNext, TypeInv, PhaseInv, SameHooks, N
  <2>2. \A j \in 1 .. N : hooks'[j].initialized => Cached(j)
    BY <2>1 DEF LateInv
  <2>. QED
    BY <1>1, <2>1, <2>2, LateRound
<1>5. CASE RunEach \/ Initialize \/ SaveCache
  <2>1. PICK x \in Nat : \/ ~SaveCache /\ hooks' = [hooks EXCEPT ![pos + 1].handle = x]
                         \/ SaveCache /\ hooks' = [hooks EXCEPT ![pos + 1].initialized = TRUE]
    <3>1. Len(chain) + 1 \in Nat
      BY Sizes
    <3>. QED
      BY <1>5, <3>1 DEF RunEach, Initialize, SaveCache, Deploys, HookNext
  <2>2. (HookNext \/ phase = "save") /\ registered' = registered
    BY <1>5 DEF RunEach, Initialize, SaveCache, Deploys
  <2>3. /\ N' = N /\ pos + 1 \in 1 .. N
        /\ \A i \in 1 .. N :
               /\ hooks'[i].kind = hooks[i].kind
               /\ hooks'[i].depth = hooks[i].depth
               /\ hooks'[i].effect = hooks[i].effect
               /\ i # pos + 1 => hooks'[i] = hooks[i]
        /\ ~SaveCache => hooks'[pos + 1].initialized = hooks[pos + 1].initialized
    BY <2>1, <2>2, TypeHooks
  <2>4. SameHooks /\ failedDepth = 0
    BY <2>2, <2>3 DEF SameHooks, TypeInv, PhaseInv, HookNext
  <2>5. SaveCache => Cached(pos + 1)
    BY DEF SaveCache, LateInv
  <2>6. \A j \in 1 .. N : hooks'[j].initialized => Cached(j)
    BY <2>3, <2>5 DEF LateInv
  <2>7. phase' = "save" => pos' + 1 \in 1 .. N /\ Cached(pos' + 1)
    BY <1>5, <2>2, <2>3 DEF RunEach, Initialize, SaveCache, HookNext, Cached, current
  <2>. QED
    BY <1>1, <2>4, <2>6, <2>7, LateRound
<1>6. CASE LeaveHook
  <2>1. /\ hooks # <<>> /\ hooks' = popped(hooks) /\ UNCHANGED <<registered, late, failedDepth>>
        /\ phase' # "save"
    BY <1>6 DEF LeaveHook, Innermost
  <2>2. N' = N - 1 /\ \A i \in 1 .. N - 1 : i \in 1 .. N /\ hooks'[i] = hooks[i]
    BY <1>1, <2>1, PoppedSeq DEF N
  <2>3. \A l \in late : IsOpen(l)' => IsOpen(l) /\ hooks'[l.place] = hooks[l.place]
    <3>1. SUFFICES ASSUME NEW l \in late, IsOpen(l)'
                   PROVE  IsOpen(l) /\ hooks'[l.place] = hooks[l.place]
      OBVIOUS
    <3>2. l.place \in Nat /\ l.place >= 1 /\ l.place <= N - 1
      BY <2>2, <3>1, LateFields DEF LateInv, IsOpen, N
    <3>3. l.place \in 1 .. N - 1 /\ l.place <= N
      BY <1>1, <3>2
    <3>. QED
      BY <2>2, <3>1, <3>3 DEF IsOpen, N
  <2>4. \A j \in 1 .. N - 1 : Cached(j)' <=> Cached(j)
    BY <2>2 DEF Cached
  <2>. QED
    BY <2>1, <2>2, <2>3, <2>4 DEF LateInv
<1>7. CASE LeaveSuite
  <2>1. UNCHANGED <<hooks, registered, late>> /\ failedDepth' = failureAfter /\ phase' # "save"
        /\ ~Innermost(hooks)
    BY <1>7 DEF LeaveSuite
  <2>2. CASE failedDepth' = failedDepth
    BY <2>1, <2>2, LateIdle
  <2>3. CASE failedDepth' # failedDepth
    <3>1. failedDepth = depth
      BY <2>1, <2>3 DEF failureAfter
    <3>2. N = 0 \/ (N > 0 /\ hooks[N].depth < depth)
      BY <1>1, <2>1 DEF Innermost, TypeInv, NestingInv, N
    <3>3. \A i \in 1 .. N : hooks[i].depth < depth
      BY <1>1, <3>2 DEF TypeInv, NestingInv
    <3>4. \A l \in late : ~IsOpen(l)
      <4>1. SUFFICES ASSUME NEW l \in late, IsOpen(l)
                     PROVE  FALSE
        OBVIOUS
      <4>2. l.place \in 1 .. N /\ hooks[l.place].depth >= failedDepth
        BY <1>1, <4>1, LateFields DEF LateInv, IsOpen, N
      <4>. QED
        BY <1>1, <3>1, <3>3, <4>2
    <3>5. \A l \in late : ~IsOpen(l)'
      BY <2>1, <3>4 DEF IsOpen
    <3>6. N' = N /\ \A j : Cached(j)' <=> Cached(j)
      BY <2>1 DEF N, Cached
    <3>. QED
      BY <2>1, <3>5, <3>6 DEF LateInv
  <2>. QED
    BY <2>2, <2>3
<1>. QED
  BY <1>2, <1>3, <1>4, <1>5, <1>6, <1>7 DEF InTime

\* The hooks of a suite that opens, and the ones around it.
LEMMA OpenedHooks ==
    ASSUME TypeInv, NEW suite \in Suites, OpenSuite(suite)
    PROVE  /\ N \in Nat /\ N' \in Nat /\ N' >= N /\ registered' >= registered
           /\ registered \in Nat /\ registered' \in Nat
           /\ \A i \in 1 .. N : hooks'[i] = hooks[i] /\ i \in 1 .. N'
           /\ \A i \in 1 .. N' : i \in 1 .. N \/
                  /\ i > N /\ hooks'[i].initialized = FALSE
                  /\ hooks'[i].effect > registered /\ hooks'[i].effect <= registered'
<1>. DEFINE hs == newHooks(suite.setups)
<1>1. /\ hs \in Seq(Hook) /\ hooks \in Seq(Hook) /\ hooks' = hooks \o hs /\ registered \in Nat
      /\ registered' = registered + Len(suite.setups) /\ Len(hs) = Len(suite.setups)
  BY NewHooks DEF OpenSuite, TypeInv, Types
<1>2. \A i \in 1 .. Len(hs) : hs[i].initialized = FALSE /\ hs[i].effect = registered + i
  BY NewHooks DEF TypeInv
<1>. HIDE DEF hs
<1>3. /\ Len(hooks \o hs) = N + Len(hs)
      /\ \A i \in 1 .. N : (hooks \o hs)[i] = hooks[i]
      /\ \A i \in N + 1 .. N + Len(hs) : (hooks \o hs)[i] = hs[i - N]
  <2>1. hs \in Seq(Hook) /\ hooks \in Seq(Hook)
    BY <1>1
  <2>. QED
    BY <2>1, ConcatSeq DEF N
<1>4. Len(hs) \in Nat /\ N \in Nat /\ N' = N + Len(hs) /\ registered' = registered + Len(hs)
  BY <1>1, <1>3 DEF N
<1>5. \A i \in N + 1 .. N + Len(hs) :
         i - N \in 1 .. Len(hs) /\ registered + (i - N) > registered /\ registered + (i - N) <= registered'
  BY <1>1, <1>4
<1>6. \A i \in N + 1 .. N + Len(hs) :
         /\ hooks'[i].initialized = FALSE
         /\ hooks'[i].effect > registered /\ hooks'[i].effect <= registered'
  BY <1>1, <1>2, <1>3, <1>5
<1>7. \A i \in 1 .. N' : i \in 1 .. N \/ (i > N /\ i \in N + 1 .. N + Len(hs))
  BY <1>4
<1>8. N' \in Nat /\ N' >= N /\ registered' >= registered /\ registered' \in Nat
      /\ \A i \in 1 .. N : i \in 1 .. N'
  BY <1>1, <1>4
<1>. QED
  BY <1>1, <1>3, <1>4, <1>6, <1>7, <1>8

LEMMA LateOpen ==
    ASSUME TypeInv, LateTypes, LateInv, NEW suite \in Suites, OpenSuite(suite)
    PROVE  LateInv'
<1>1. /\ N \in Nat /\ N' \in Nat /\ N' >= N /\ registered' >= registered
      /\ registered \in Nat /\ registered' \in Nat
      /\ \A i \in 1 .. N : hooks'[i] = hooks[i] /\ i \in 1 .. N'
      /\ \A i \in 1 .. N' : i \in 1 .. N \/
             /\ i > N /\ hooks'[i].initialized = FALSE
             /\ hooks'[i].effect > registered /\ hooks'[i].effect <= registered'
  BY OpenedHooks
<1>2. failedDepth = 0 /\ late' = late /\ phase' # "save"
  BY DEF OpenSuite
<1>3. \A j \in 1 .. N : hooks[j].effect \in Nat
  BY HookFields DEF TypeInv, Types, N
<1>4. \A l \in late : ~IsOpen(l)'
  <2>1. SUFFICES ASSUME NEW l \in late, IsOpen(l)'
                 PROVE  FALSE
    OBVIOUS
  <2>2. /\ l.place \in Nat /\ l.place >= 1 /\ l.effect \in Nat /\ l.effect <= registered
        /\ l.place <= N' /\ hooks'[l.place].effect = l.effect /\ ~IsOpen(l)
    BY <1>2, <2>1, AllOver, LateFields DEF LateInv, IsOpen, N
  <2>3. l.place \in 1 .. N'
    BY <1>1, <2>2
  <2>4. CASE l.place \in 1 .. N
    BY <1>1, <2>2, <2>4 DEF IsOpen, N
  <2>5. CASE hooks'[l.place].effect > registered
    BY <1>1, <2>2, <2>5
  <2>. QED
    BY <1>1, <2>3, <2>4, <2>5
<1>5. \A j \in 1 .. N' : hooks'[j].effect <= registered'
  BY <1>1, <1>3 DEF LateInv
<1>6. \A j \in 1 .. N' : hooks'[j].initialized => Cached(j)'
  BY <1>1 DEF LateInv, Cached
<1>7. \A l \in late : l.place >= 1 /\ l.effect <= registered' /\ (l.stage # "deploys" => l.kind = "cache")
  BY <1>1, LateFields DEF LateInv
<1>. QED
  BY <1>2, <1>4, <1>5, <1>6, <1>7 DEF LateInv

LEMMA LateTimeOut ==
    ASSUME TypeInv, LateTypes, LateInv, TimeOut
    PROVE  LateTypes' /\ LateInv'
<1>. DEFINE new == [place |-> pos + 1, effect |-> current.effect,
                    kind |-> current.kind, stage |-> "deploys", id |-> 0]
<1>1. /\ late' = late \union {new} /\ FailHook /\ ~current.initialized /\ timeouts' = timeouts + 1
      /\ UNCHANGED <<hooks, registered, disturbed, stray>> /\ phase' # "save"
      /\ failedDepth' = current.depth /\ failedDepth = 0 /\ current = hooks[pos + 1]
  BY DEF TimeOut, FailHook, HookNext, TypeInv, PhaseInv, current
<1>2. pos + 1 \in 1 .. N /\ pos \in Nat /\ N \in Nat /\ N = Len(hooks) /\ N' = N
  BY <1>1, Sizes, SMTT(30) DEF FailHook, HookNext, N
<1>3. /\ current \in Hook /\ current.effect \in Nat /\ current.kind \in Kind
      /\ current.depth \in Nat /\ current.depth # 0
  <2>1. hooks[pos + 1] \in Hook
    BY <1>2 DEF TypeInv, Types
  <2>2. hooks[pos + 1].depth \in 1 .. depth /\ depth \in Nat
    BY <1>2 DEF TypeInv, Types, NestingInv, N
  <2>3. current \in Hook /\ current.depth \in 1 .. depth
    BY <1>1, <2>1, <2>2
  <2>4. current.effect \in Nat /\ current.kind \in Kind
    BY <2>3 DEF Hook
  <2>5. current.depth \in Nat /\ current.depth # 0
    BY <2>2, <2>3
  <2>. QED
    BY <2>3, <2>4, <2>5
<1>4. LateTypes'
  <2>1. new \in LateRun
    BY <1>2, <1>3 DEF LateRun
  <2>. HIDE DEF new
  <2>. QED
    BY <1>1, <2>1 DEF LateTypes
<1>5. \A l \in late : ~IsOpen(l)'
  BY <1>1, AllOver DEF IsOpen
<1>6. /\ new.place = pos + 1 /\ new.effect = hooks[pos + 1].effect /\ new.kind = hooks[pos + 1].kind
      /\ new.stage = "deploys"
  BY <1>1
<1>. HIDE DEF new
<1>7. /\ new.place >= 1 /\ new.effect <= registered'
      /\ failedDepth' # 0 /\ hooks'[new.place].depth >= failedDepth'
      /\ hooks'[new.place].kind = new.kind /\ ~hooks'[new.place].initialized
  BY <1>1, <1>2, <1>3, <1>6 DEF LateInv
<1>8. \A l \in late : l.place >= 1 /\ l.effect <= registered' /\ (l.stage # "deploys" => l.kind = "cache")
  BY <1>1 DEF LateInv
<1>9. \A j : Cached(j)' <=> Cached(j)
  BY <1>1 DEF Cached
<1>. QED
  BY <1>1, <1>2, <1>4, <1>5, <1>6, <1>7, <1>8, <1>9 DEF LateInv

LEMMA FiniteRan ==
    ASSUME N \in Nat
    PROVE  IsFiniteSet(Ran) /\ Cardinality(Ran) \in Nat
<1>1. IsFiniteSet(1 .. N)
  BY FS_Interval
<1>2. Ran \subseteq 1 .. N
  BY DEF Ran
<1>. QED
  BY <1>1, <1>2, FS_Subset, FS_CardinalityType

\* One set-up more has run.
LEMMA RanMore ==
    ASSUME N \in Nat, N' = N, NEW k \in 1 .. N, ~hooks[k].initialized, hooks'[k].initialized,
           \A i \in 1 .. N : i # k => hooks'[i] = hooks[i]
    PROVE  Cardinality(Ran') = Cardinality(Ran) + 1
<1>1. IsFiniteSet(Ran) /\ k \notin Ran
  BY FiniteRan DEF Ran
<1>2. Ran' = Ran \union {k}
  BY DEF Ran
<1>. QED
  BY <1>1, <1>2, FS_AddElement

LEMMA LateActs ==
    ASSUME TypeInv, LateTypes, LateInv, CountInv, Late
    PROVE  TypeInv' /\ LateTypes' /\ LateInv' /\ CountInv' /\ disturbed'
<1>1. /\ N \in Nat /\ NodeType /\ SNAPSHOTS \in Seq(Nat) /\ hooks \in Seq(Hook) /\ N = Len(hooks)
      /\ stray \in Nat /\ Len(chain) + 1 \in Nat /\ nextId \in Nat /\ Cardinality(Ran) \in Nat
  BY Sizes, FiniteRan DEF TypeInv, Types, LateTypes, N
<1>2. PICK l \in late : LateDeploys(l) \/ LateSaves(l) \/ LatePushes(l)
  BY DEF Late
<1>3. /\ l \in LateRun /\ l.place \in Nat /\ l.place >= 1 /\ l.effect \in Nat /\ l.kind \in Kind
      /\ l.stage \in {"deploys", "saves", "pushes"} /\ l.id \in Nat /\ l.effect <= registered
      /\ l.stage # "deploys" => l.kind = "cache"
  BY LateFields DEF LateInv
<1>4. /\ UNCHANGED <<guards, depth, base, failedDepth, registered, phase, pos, gpos, tests, timeouts, floor>>
      /\ disturbed'
  BY <1>2 DEF LateDeploys, LateSaves, LatePushes, mochaVars
<1>5. IsOpen(l) => l.place \in 1 .. N /\ hooks[l.place].kind = l.kind /\ phase # "save"
                   /\ ~hooks[l.place].initialized
  <2>1. IsOpen(l) => l.place <= N /\ failedDepth # 0 /\ hooks[l.place].kind = l.kind
                     /\ ~hooks[l.place].initialized
    BY <1>1 DEF IsOpen, LateInv
  <2>2. phase = "save" => failedDepth = 0
    BY DEF TypeInv, PhaseInv
  <2>. QED
    BY <1>1, <1>3, <2>1, <2>2
\* What the step does to the hooks, and to the late set-ups.
<1>6. /\ hooks' \in Seq(Hook) /\ SameHooks
      /\ \A i \in 1 .. N : ~(IsOpen(l) /\ i = l.place) => hooks'[i] = hooks[i]
      /\ IsOpen(l) /\ ~LatePushes(l) => ~hooks'[l.place].initialized
      /\ IsOpen(l) /\ LatePushes(l) => hooks'[l.place].initialized
  <2>1. CASE hooks' = hooks /\ ~(IsOpen(l) /\ LatePushes(l))
    BY <1>1, <1>4, <1>5, <2>1 DEF SameHooks, N
  <2>2. CASE IsOpen(l) /\ LateDeploys(l)
    <3>1. hooks' = [hooks EXCEPT ![l.place].handle = Len(chain) + 1]
      BY <2>2 DEF LateDeploys
    <3>2. /\ hooks' \in Seq(Hook) /\ N' = N
          /\ \A i \in 1 .. N :
                 /\ hooks'[i].kind = hooks[i].kind
                 /\ hooks'[i].depth = hooks[i].depth
                 /\ hooks'[i].effect = hooks[i].effect
                 /\ i # l.place => hooks'[i] = hooks[i]
          /\ hooks'[l.place].initialized = hooks[l.place].initialized
      BY <1>1, <1>5, <2>2, <3>1, EditedHook
    <3>3. ~LatePushes(l)
      BY <2>2 DEF LateDeploys, LatePushes
    <3>. QED
      BY <1>4, <1>5, <2>2, <3>2, <3>3 DEF SameHooks
  <2>3. CASE IsOpen(l) /\ LatePushes(l)
    <3>1. hooks' = [hooks EXCEPT ![l.place].initialized = TRUE] /\ 0 \in Nat
      BY <2>3 DEF LatePushes
    <3>2. /\ hooks' \in Seq(Hook) /\ N' = N
          /\ \A i \in 1 .. N :
                 /\ hooks'[i].kind = hooks[i].kind
                 /\ hooks'[i].depth = hooks[i].depth
                 /\ hooks'[i].effect = hooks[i].effect
                 /\ i # l.place => hooks'[i] = hooks[i]
          /\ hooks'[l.place].initialized
      BY <1>1, <1>5, <2>3, <3>1, EditedHook
    <3>. QED
      BY <1>4, <1>5, <2>3, <3>2 DEF SameHooks
  <2>. QED
    BY <1>2, <2>1, <2>2, <2>3 DEF LateDeploys, LateSaves, LatePushes, mochaVars
<1>7. NodeType' /\ SNAPSHOTS' \in Seq(Nat)
  <2>1. CASE LateDeploys(l)
    BY <1>1, <1>3, <2>1, Transacting DEF LateDeploys
  <2>2. CASE LateSaves(l)
    BY <1>1, <2>2, Saving DEF LateSaves
  <2>3. CASE LatePushes(l)
    <3>1. SNAPSHOTS' = Append(SNAPSHOTS, l.id) /\ UNCHANGED nodeVars
      BY <2>3 DEF LatePushes
    <3>. QED
      BY <1>1, <1>3, <3>1, AppendSeq DEF nodeVars, NodeType
  <2>. QED
    BY <1>2, <2>1, <2>2, <2>3
<1>8. TypeInv'
  <2>1. Len(hooks') = Len(hooks) /\ N' = N
    BY <1>1, <1>6 DEF SameHooks, N
  <2>2. Types'
    BY <1>4, <1>6, <1>7, <2>1 DEF TypeInv, Types, NodeType
  <2>3. NestingInv'
    BY <1>4, <1>6 DEF TypeInv, NestingInv, SameHooks, G
  <2>. QED
    BY <1>4, <2>1, <2>2, <2>3 DEF TypeInv, PhaseInv
\* A late set-up that goes on is the same but for its stage.
<1>9. PICK next :
         /\ late' \subseteq (late \ {l}) \union {next}
         /\ next \in LateRun /\ next.place = l.place /\ next.effect = l.effect /\ next.kind = l.kind
         /\ next \in late' => (next.stage # "deploys" => l.kind = "cache")
         /\ LatePushes(l) => late' = late \ {l}
  <2>1. CASE LateDeploys(l)
    <3>. DEFINE m == [l EXCEPT !.stage = "saves"]
    <3>1. m \in LateRun /\ m.place = l.place /\ m.effect = l.effect /\ m.kind = l.kind
      BY <1>3 DEF LateRun
    <3>2. ~LatePushes(l)
      BY <2>1 DEF LateDeploys, LatePushes
    <3>3. late' = (late \ {l}) \union (IF l.kind = "cache" THEN {m} ELSE {})
      BY <2>1 DEF LateDeploys
    <3>4. CASE l.kind = "cache"
      BY <3>1, <3>2, <3>3, <3>4
    <3>5. CASE l.kind # "cache"
      <4>1. late' = late \ {l}
        BY <3>3, <3>5
      <4>2. l \notin late'
        BY <4>1
      <4>. QED
        BY <1>3, <3>2, <4>1, <4>2
    <3>. QED
      BY <3>4, <3>5
  <2>2. CASE LateSaves(l)
    <3>. DEFINE m == [l EXCEPT !.stage = "pushes", !.id = nextId]
    <3>1. m \in LateRun /\ m.place = l.place /\ m.effect = l.effect /\ m.kind = l.kind
      BY <1>1, <1>3 DEF LateRun
    <3>2. ~LatePushes(l) /\ l.kind = "cache"
      BY <1>3, <2>2 DEF LateSaves, LatePushes
    <3>3. late' = (late \ {l}) \union {m}
      BY <2>2 DEF LateSaves
    <3>. QED
      BY <3>1, <3>2, <3>3
  <2>3. CASE LatePushes(l)
    <3>1. late' = late \ {l} /\ l \notin late'
      BY <2>3 DEF LatePushes
    <3>. QED
      BY <1>3, <3>1
  <2>. QED
    BY <1>2, <2>1, <2>2, <2>3
<1>10. LateTypes'
  <2>1. late' \subseteq LateRun
    BY <1>9 DEF LateTypes
  <2>2. stray' \in Nat /\ disturbed' \in BOOLEAN
    <3>1. stray \in Nat /\ disturbed' = TRUE /\ (stray' = stray \/ stray' = stray + 1)
      BY <1>2 DEF LateDeploys, LateSaves, LatePushes, LateTypes
    <3>. QED
      BY <3>1
  <2>. QED
    BY <1>4, <2>1, <2>2 DEF LateTypes
<1>11. LateInv'
  <2>1. \A m \in late : IsOpen(m)' <=> IsOpen(m)
    BY <1>1, <1>6, OpenKept
  <2>2. IsOpen(next)' <=> IsOpen(l)
    BY <1>9, <2>1 DEF IsOpen
  <2>3. \A m \in late \ {l} : IsOpen(m) =>
           /\ ~IsOpen(l) /\ m.place \in 1 .. N /\ hooks'[m.place] = hooks[m.place]
    <3>1. SUFFICES ASSUME NEW m \in late \ {l}, IsOpen(m)
                   PROVE  ~IsOpen(l) /\ m.place \in 1 .. N /\ hooks'[m.place] = hooks[m.place]
      OBVIOUS
    <3>2. ~IsOpen(l)
      BY <3>1 DEF LateInv
    <3>3. m.place \in Nat /\ m.place >= 1 /\ m.place <= N
      BY <1>1, <3>1, LateFields DEF LateInv, IsOpen
    <3>4. m.place \in 1 .. N
      BY <1>1, <3>3
    <3>. QED
      BY <1>6, <3>2, <3>4
  <2>4. \A m \in late \ {l} :
           /\ m.place >= 1 /\ m.effect <= registered'
           /\ m.stage # "deploys" => m.kind = "cache"
           /\ IsOpen(m)' =>
                  /\ failedDepth' # 0 /\ hooks'[m.place].depth >= failedDepth'
                  /\ hooks'[m.place].kind = m.kind /\ ~hooks'[m.place].initialized
    BY <1>4, <2>1, <2>3 DEF LateInv
  <2>5. next \in late' /\ next \notin late \ {l} =>
           /\ next.place >= 1 /\ next.effect <= registered'
           /\ next.stage # "deploys" => next.kind = "cache"
           /\ IsOpen(next)' =>
                  /\ failedDepth' # 0 /\ hooks'[next.place].depth >= failedDepth'
                  /\ hooks'[next.place].kind = next.kind /\ ~hooks'[next.place].initialized
    <3>1. SUFFICES ASSUME next \in late', next \notin late \ {l}
                   PROVE  /\ next.place >= 1 /\ next.effect <= registered'
                          /\ next.stage # "deploys" => next.kind = "cache"
                          /\ IsOpen(next)' =>
                                 /\ failedDepth' # 0 /\ hooks'[next.place].depth >= failedDepth'
                                 /\ hooks'[next.place].kind = next.kind
                                 /\ ~hooks'[next.place].initialized
      OBVIOUS
    <3>2. ~LatePushes(l)
      BY <1>9, <3>1
    <3>3. IsOpen(l) => /\ failedDepth # 0 /\ hooks[l.place].depth >= failedDepth
                       /\ hooks'[l.place].depth = hooks[l.place].depth
                       /\ hooks'[l.place].kind = l.kind /\ ~hooks'[l.place].initialized
      BY <1>5, <1>6, <3>2 DEF LateInv, SameHooks
    <3>. QED
      BY <1>3, <1>4, <1>9, <2>2, <3>1, <3>3
  <2>6. \A m \in late' : m \in late \ {l} \/ (m = next /\ next \in late' /\ next \notin late \ {l})
    BY <1>9
  <2>7. \A m \in late' : \A o \in late' : IsOpen(m)' /\ IsOpen(o)' => m = o
    BY <2>1, <2>2, <2>3, <2>6 DEF LateInv
  <2>8. \A j \in 1 .. N' : hooks'[j].effect <= registered'
    BY <1>6 DEF SameHooks, LateInv
  <2>9. \A j \in 1 .. N' : hooks'[j].initialized => Cached(j)'
    <3>1. SUFFICES ASSUME NEW j \in 1 .. N, hooks'[j].initialized
                   PROVE  hooks'[j].kind = "cache"
      BY <1>6 DEF SameHooks, Cached
    <3>2. CASE IsOpen(l) /\ j = l.place
      <4>1. LatePushes(l)
        BY <1>6, <3>1, <3>2
      <4>2. l.kind = "cache"
        BY <1>3, <4>1 DEF LatePushes
      <4>. QED
        BY <1>5, <1>6, <3>2, <4>2 DEF SameHooks
    <3>3. CASE ~(IsOpen(l) /\ j = l.place)
      BY <1>6, <3>1, <3>3 DEF LateInv, Cached
    <3>. QED
      BY <3>2, <3>3
  <2>10. phase' = "save" => Cached(pos + 1)'
    <3>1. phase = "save" => pos + 1 \in 1 .. N
      BY Sizes, SMTT(30) DEF TypeInv, PhaseInv
    <3>. QED
      BY <1>4, <1>6, <3>1 DEF LateInv, Cached, SameHooks
  <2>. QED
    BY <2>4, <2>5, <2>6, <2>7, <2>8, <2>9, <2>10 DEF LateInv
<1>12. CountInv'
  <2>1. Owed' = Owed /\ Owed \in {0, 1}
    <3>1. phase = "save" => pos + 1 \in 1 .. N /\ ~IsOpen(l)
      BY <1>5, Sizes, SMTT(30) DEF TypeInv, PhaseInv
    <3>. QED
      BY <1>4, <1>6, <3>1 DEF Owed
  <2>2. CASE ~LatePushes(l)
    <3>1. SNAPSHOTS' = SNAPSHOTS /\ stray' = stray
      BY <1>2, <2>2 DEF LateDeploys, LateSaves
    <3>2. Ran' = Ran
      <4>1. N' = N
        BY <1>6 DEF SameHooks
      <4>2. \A i \in 1 .. N : hooks'[i].initialized <=> hooks[i].initialized
        BY <1>5, <1>6, <2>2
      <4>. QED
        BY <4>1, <4>2 DEF Ran
    <3>. QED
      BY <2>1, <3>1, <3>2 DEF CountInv
  <2>3. CASE LatePushes(l)
    <3>1. Len(SNAPSHOTS') = Len(SNAPSHOTS) + 1 /\ Len(SNAPSHOTS) \in Nat
      BY <1>1, <1>3, <2>3, AppendSeq DEF LatePushes
    <3>2. CASE IsOpen(l)
      <4>1. stray' = stray
        BY <2>3, <3>2 DEF LatePushes
      <4>2. Cardinality(Ran') = Cardinality(Ran) + 1
        BY <1>1, <1>5, <1>6, <2>3, <3>2, RanMore DEF SameHooks
      <4>. QED
        BY <1>1, <2>1, <3>1, <4>1, <4>2 DEF CountInv
    <3>3. CASE ~IsOpen(l)
      <4>1. stray' = stray + 1 /\ Ran' = Ran
        BY <2>3, <3>3 DEF LatePushes, Ran, N
      <4>. QED
        BY <1>1, <2>1, <3>1, <4>1 DEF CountInv
    <3>. QED
      BY <3>2, <3>3
  <2>. QED
    BY <2>2, <2>3
<1>. QED
  BY <1>4, <1>8, <1>10, <1>11, <1>12

LEMMA CountIdle ==
    ASSUME CountInv, UNCHANGED <<SNAPSHOTS, stray>>, Ran' = Ran, Owed' = Owed
    PROVE  CountInv'
BY DEF CountInv

LEMMA CountInTime ==
    ASSUME TypeInv, LateTypes, LateInv, CountInv, InTime, stray' = stray
    PROVE  CountInv'
<1>1. /\ N \in Nat /\ SNAPSHOTS \in Seq(Nat) /\ Len(SNAPSHOTS) \in Nat /\ hooks \in Seq(Hook)
      /\ stray \in Nat /\ nextId \in Nat /\ Len(chain) + 1 \in Nat
      /\ IsFiniteSet(Ran) /\ Cardinality(Ran) \in Nat
  BY Sizes, FiniteRan DEF TypeInv, Types, LateTypes
<1>2. CASE \/ StartLeaving \/ StartRound \/ SaveGuard \/ BeginTest \/ TestActs \/ EndTest
           \/ RestoreGuard \/ EndRound \/ FailHook \/ LeaveSuite
  <2>1. UNCHANGED <<SNAPSHOTS, hooks>> /\ phase # "save" /\ phase' # "save"
    BY <1>2 DEF StartLeaving, StartRound, SaveGuard, BeginTest, TestActs, EndTest, RestoreGuard,
       EndRound, FailHook, LeaveSuite, HookNext, mochaVars
  <2>. QED
    BY <2>1, CountIdle DEF Ran, N, Owed
<1>3. CASE Restore
  <2>1. /\ UNCHANGED <<hooks, pos>> /\ phase = "setUp" /\ phase' = "save" /\ hooks[pos + 1].initialized
        /\ SNAPSHOTS # <<>> /\ SNAPSHOTS' = popped(SNAPSHOTS)
    BY <1>3 DEF Restore, mochaVars, HookNext, current
  <2>2. Len(SNAPSHOTS') = Len(SNAPSHOTS) - 1
    BY <1>1, <2>1, PoppedSeq
  <2>3. Owed = 0 /\ Owed' = 1 /\ Ran' = Ran
    BY <2>1 DEF Owed, Ran, N
  <2>. QED
    BY <1>1, <2>2, <2>3 DEF CountInv
<1>4. CASE RunEach \/ Initialize
  <2>1. /\ hooks' = [hooks EXCEPT ![pos + 1].handle = Len(chain) + 1] /\ HookNext
        /\ UNCHANGED SNAPSHOTS /\ phase = "setUp"
    BY <1>4 DEF RunEach, Initialize, Deploys, HookNext
  <2>2. /\ N' = N /\ pos + 1 \in 1 .. N
        /\ \A i \in 1 .. N : i # pos + 1 => hooks'[i] = hooks[i]
        /\ hooks'[pos + 1].initialized = hooks[pos + 1].initialized
    BY <1>1, <2>1, TypeHooks
  <2>3. \A i \in 1 .. N : hooks'[i].initialized <=> hooks[i].initialized
    BY <2>2
  <2>4. Ran' = Ran
    BY <2>2, <2>3 DEF Ran
  <2>5. Owed = 0 /\ Owed' = 0
    BY <1>4, <2>1, <2>2 DEF RunEach, Initialize, Owed, current
  <2>. QED
    BY <2>1, <2>4, <2>5, CountIdle
<1>5. CASE SaveCache
  <2>1. /\ phase = "save" /\ phase' = "setUp" /\ hooks' = [hooks EXCEPT ![pos + 1].initialized = TRUE]
        /\ SNAPSHOTS' = Append(SNAPSHOTS, nextId) /\ 0 \in Nat
    BY <1>5 DEF SaveCache
  <2>2. /\ N' = N /\ pos + 1 \in 1 .. N
        /\ \A i \in 1 .. N : i # pos + 1 => hooks'[i] = hooks[i]
        /\ hooks'[pos + 1].initialized
    BY <1>1, <2>1, TypeHooks
  <2>3. Len(SNAPSHOTS') = Len(SNAPSHOTS) + 1
    BY <1>1, <2>1, AppendSeq
  <2>4. Owed' = 0
    BY <2>1 DEF Owed
  <2>5. CASE hooks[pos + 1].initialized
    <3>1. Ran' = Ran
      BY <2>2, <2>5 DEF Ran
    <3>2. Owed = 1
      BY <2>1, <2>5 DEF Owed
    <3>. QED
      BY <1>1, <2>3, <2>4, <3>1, <3>2 DEF CountInv
  <2>6. CASE ~hooks[pos + 1].initialized
    <3>1. Cardinality(Ran') = Cardinality(Ran) + 1
      BY <1>1, <2>2, <2>6, RanMore
    <3>2. Owed = 0
      BY <2>6 DEF Owed
    <3>3. /\ stray' = stray /\ stray \in Nat /\ Cardinality(Ran) \in Nat
          /\ Len(SNAPSHOTS) + Owed = stray + Cardinality(Ran)
      BY <1>1 DEF CountInv, LateTypes
    <3>. QED
      BY <2>3, <2>4, <3>1, <3>2, <3>3 DEF CountInv
  <2>. QED
    BY <2>5, <2>6
<1>6. CASE LeaveHook
  <2>1. /\ hooks # <<>> /\ hooks' = popped(hooks) /\ phase # "save" /\ phase' # "save"
        /\ SNAPSHOTS' = IF PopsSnapshot(hooks[N]) /\ SNAPSHOTS # <<>> THEN popped(SNAPSHOTS) ELSE SNAPSHOTS
    BY <1>6 DEF LeaveHook, Innermost, N
  <2>2. /\ N' = N - 1 /\ N \in 1 .. N
        /\ \A i \in 1 .. N - 1 : i \in 1 .. N /\ hooks'[i] = hooks[i]
    BY <1>1, <2>1, PoppedSeq DEF N
  <2>3. \A i \in 1 .. N : i = N \/ i \in 1 .. N - 1
    BY <1>1
  <2>4. N \notin 1 .. N - 1
    BY <1>1
  <2>5. Ran' = Ran \ {N}
    BY <2>2, <2>3, <2>4 DEF Ran
  <2>6. Owed = 0 /\ Owed' = 0
    BY <2>1 DEF Owed
  <2>7. CASE hooks[N].initialized
    <3>1. N \in Ran
      BY <2>2, <2>7 DEF Ran
    <3>2. Cardinality(Ran') = Cardinality(Ran) - 1
      BY <1>1, <2>5, <3>1, FS_RemoveElement
    <3>3. Cardinality(Ran) # 0
      BY <1>1, <3>1, FS_EmptySet
    <3>4. PopsSnapshot(hooks[N])
      BY <2>2, <2>7 DEF LateInv, Cached, PopsSnapshot
    <3>5. Len(SNAPSHOTS) # 0
      BY <1>1, <2>6, <3>3 DEF CountInv
    <3>6. SNAPSHOTS # <<>>
      BY <1>1, <3>5
    <3>7. Len(SNAPSHOTS') = Len(SNAPSHOTS) - 1
      BY <1>1, <2>1, <3>4, <3>6, PoppedSeq
    <3>. QED
      BY <1>1, <2>6, <3>2, <3>7 DEF CountInv
  <2>8. CASE ~hooks[N].initialized
    <3>1. Ran' = Ran
      BY <2>5, <2>8 DEF Ran
    <3>2. SNAPSHOTS' = SNAPSHOTS
      BY <2>1, <2>8 DEF PopsSnapshot
    <3>. QED
      BY <2>6, <3>1, <3>2, CountIdle
  <2>. QED
    BY <2>7, <2>8
<1>. QED
  BY <1>2, <1>3, <1>4, <1>5, <1>6 DEF InTime

LEMMA CountOpen ==
    ASSUME TypeInv, CountInv, NEW suite \in Suites, OpenSuite(suite)
    PROVE  CountInv'
<1>1. /\ N \in Nat /\ N' \in Nat /\ N' >= N
      /\ \A i \in 1 .. N : hooks'[i] = hooks[i] /\ i \in 1 .. N'
      /\ \A i \in 1 .. N' : i \in 1 .. N \/ hooks'[i].initialized = FALSE
  BY OpenedHooks
<1>2. Ran' = Ran
  BY <1>1 DEF Ran
<1>3. UNCHANGED <<SNAPSHOTS, stray>> /\ Owed = 0 /\ Owed' = 0
  BY DEF OpenSuite, Owed
<1>. QED
  BY <1>2, <1>3, CountIdle

----------------------------------------------------------------------------
(* The theorems.                                                            *)

LEMMA InvInit == Init => Inv
<1>1. Init => TypeInv
  BY TypeInit
<1>2. Init => N = 0 /\ G = 0 /\ S = 0 /\ Len(base) = 0 /\ Len(chain) = 0
  <2>1. Init => SNAPSHOTS = <<>> /\ floor = 0
    BY DEF Init
  <2>2. <<>> \in Seq(Nat) /\ Len(<<>>) = 0 /\ 0 \in Nat
    OBVIOUS
  <2>3. Len(OwnPart(<<>>, 0)) = 0
    <3>. DEFINE none == <<>>
    <3>1. none \in Seq(Nat) /\ Len(none) = 0 /\ 0 \in Nat /\ 0 >= Len(none)
      BY <2>2
    <3>. HIDE DEF none
    <3>2. Len(OwnPart(none, 0)) = 0
      BY <3>1, OwnPartSeq
    <3>. QED
      BY <3>2 DEF none
  <2>4. Init => S = 0
    BY <2>1, <2>3 DEF S, Mine
  <2>. QED
    BY <2>4 DEF Init, ChainInit, N, G
<1>3. Init => SandboxInv
  BY <1>1, <1>2 DEF Init, SandboxInv, SuitesInv, StackInv, GuardsInv, AnchorInv, RoundInv,
     AnchoredByGuard, AnchoredByCache
<1>4. Init => LateTypes /\ LateInv
  <2>1. Init => late = {} /\ timeouts = 0 /\ disturbed = FALSE /\ stray = 0 /\ phase = "rest"
    BY DEF Init
  <2>2. Init => LateTypes
    <3>1. {} \subseteq LateRun /\ 0 \in Nat /\ FALSE \in BOOLEAN
      OBVIOUS
    <3>. HIDE DEF LateRun
    <3>. QED
      BY <2>1, <3>1 DEF LateTypes
  <2>3. Init => \A j \in 1 .. N : FALSE
    BY <1>2
  <2>. QED
    BY <2>1, <2>2, <2>3 DEF LateInv
<1>5. Init => CountInv
  <2>1. Init => Ran = {}
    BY <1>2 DEF Ran
  <2>2. Init => Len(SNAPSHOTS) = 0 /\ Owed = 0 /\ stray = 0
    BY DEF Init, Owed
  <2>. QED
    BY <2>1, <2>2, FS_EmptySet DEF CountInv
<1>. QED
  BY <1>1, <1>3, <1>4, <1>5 DEF Inv

\* A step of mocha's, as long as no late set-up interferes, and if one does.
LEMMA StepInTime ==
    ASSUME SandboxInv, InTime, floor' = floor
    PROVE  SandboxInv'
BY QuietStep, LeaveHookStep, LeaveSuiteStep, SaveGuardStep, RunEachStep, InitializeStep,
   RestoreStep, SaveCacheStep, FailHookStep, TestActsStep, RestoreGuardStep DEF InTime

LEMMA TypesInTime ==
    ASSUME TypeInv, InTime, floor' = floor
    PROVE  TypeInv'
<1>1. CASE RunEach
  BY <1>1, TypeDeploys DEF RunEach, HookNext
<1>2. CASE Initialize
  BY <1>2, TypeDeploys DEF Initialize
<1>. QED
  BY <1>1, <1>2, TypeQuiet, TypeLeaveHook, TypeLeaveSuite, TypeSaveGuard, TypeRestore, TypeSaveCache,
     TypeFailHook, TypeTestActs, TypeRestoreGuard DEF InTime

LEMMA InvNext ==
    ASSUME ~AnyOrder, Inv, [Next]_vars
    PROVE  Inv'
<1>. USE DEF Inv
<1>1. CASE \E suite \in Suites : OpenSuite(suite)
  <2>1. PICK suite \in Suites : OpenSuite(suite)
    BY <1>1
  <2>2. TypeInv' /\ LateInv' /\ CountInv'
    BY <2>1, TypeOpen, LateOpen, CountOpen
  <2>3. LateTypes'
    BY <2>1 DEF OpenSuite, LateTypes
  <2>4. ~disturbed' => (depth # 0 => SandboxInv)
    BY <2>1 DEF OpenSuite, LateTypes, TypeInv, Types
  <2>5. ~disturbed' => SandboxInv'
    BY <2>1, <2>4, OpenSuiteStep
  <2>. QED
    BY <2>2, <2>3, <2>5
<1>2. CASE InTime /\ UNCHANGED lateVars
  <2>1. UNCHANGED <<late, timeouts, disturbed, floor, stray>>
    BY <1>2 DEF lateVars
  <2>2. TypeInv' /\ LateInv' /\ CountInv'
    BY <1>2, <2>1, TypesInTime, LateInTime, CountInTime
  <2>3. LateTypes'
    BY <2>1 DEF LateTypes
  <2>4. ~disturbed' => SandboxInv'
    BY <1>2, <2>1, StepInTime
  <2>. QED
    BY <2>2, <2>3, <2>4
<1>3. CASE TimeOut
  <2>1. FailHook /\ InTime /\ UNCHANGED <<disturbed, floor, stray>>
    BY <1>3 DEF TimeOut, InTime
  <2>2. TypeInv' /\ CountInv'
    BY <2>1, TypesInTime, CountInTime
  <2>3. LateTypes' /\ LateInv'
    BY <1>3, LateTimeOut
  <2>4. ~disturbed' => SandboxInv'
    BY <2>1, StepInTime
  <2>. QED
    BY <2>2, <2>3, <2>4
<1>4. CASE Late
  BY <1>4, LateActs
<1>5. CASE UNCHANGED vars
  <2>1. UNCHANGED <<nodeVars, SNAPSHOTS, mochaVars, phase, pos, gpos, tests, late, timeouts, disturbed,
                    floor, stray>>
    BY <1>5 DEF vars, lateVars
  <2>2. TypeInv' /\ LateTypes'
    BY <2>1 DEF nodeVars, mochaVars, TypeInv, Types, NestingInv, PhaseInv, LateTypes, N, G
  <2>3. LateInv'
    BY <2>1, LateIdle DEF mochaVars, LateInv
  <2>4. CountInv'
    BY <2>1, CountIdle DEF mochaVars, Ran, N, Owed
  <2>5. Mine' = Mine
    BY <2>1 DEF Mine
  <2>6. SandboxInv => SandboxInv'
    BY <2>1, <2>2, <2>5 DEF nodeVars, mochaVars, SandboxInv, SuitesInv, StackInv, GuardsInv, AnchorInv,
       RoundInv, AnchoredByCache, AnchoredByGuard, OutermostEnds, Cached, Found, FoundAtLeast, Saved,
       N, G, S
  <2>. QED
    BY <2>1, <2>2, <2>3, <2>4, <2>6
<1>. QED
  BY <1>1, <1>2, <1>3, <1>4, <1>5 DEF Next

THEOREM SandboxInvariant ==
    ASSUME ~AnyOrder
    PROVE  Spec => []Inv
<1>1. Init => Inv
  BY InvInit
<1>2. Inv /\ [Next]_vars => Inv'
  BY InvNext
<1>. QED
  BY <1>1, <1>2, PTL DEF Spec

\* The stack, the hooks and the set-ups that time out keep their types
\* (testingUtils.ts).
THEOREM SandboxTypes ==
    ASSUME ~AnyOrder
    PROVE  Spec => []SandboxTypeOK
<1>1. Inv => SandboxTypeOK
  BY DEF Inv, TypeInv, Types, LateTypes, SandboxTypeOK
<1>. QED
  BY <1>1, SandboxInvariant, PTL

\* However suites nest, as long as they put their cached set-ups first, what a
\* hook remembers is on the chain its test runs on, unless a set-up that timed
\* out acts while the outermost suite is open (cacheBeforeEach).
THEOREM HandlesStayFresh ==
    ASSUME ~AnyOrder
    PROVE  Spec => []HandlesFresh
<1>1. Inv => HandlesFresh
  <2>1. SUFFICES ASSUME SandboxInv, phase = "test", NEW i \in 1 .. N
                 PROVE  /\ hooks[i].handle \in DOMAIN chain
                        /\ chain[hooks[i].handle] = hooks[i].effect
    BY DEF Inv, HandlesFresh, N
  <2>2. hooks[i].handle = Len(base) + i /\ FoundAtLeast(N)
    BY <2>1 DEF SandboxInv, RoundInv
  <2>3. /\ chain[Len(base) + i] = hooks[i].effect
        /\ Len(chain) >= Len(base) + N
    BY <2>1, <2>2 DEF FoundAtLeast, HoldsAtLeast
  <2>4. chain \in Seq(Nat) /\ Len(base) \in Nat /\ N \in Nat /\ Len(chain) \in Nat
    BY <2>1, Sizes DEF SandboxInv, TypeInv, Types
  <2>5. DOMAIN chain = 1 .. Len(chain)
    BY <2>4
  <2>6. Len(base) + i \in 1 .. Len(chain)
    BY <2>1, <2>3, <2>4
  <2>. QED
    BY <2>2, <2>3, <2>5, <2>6
<1>. QED
  BY <1>1, SandboxInvariant, PTL

\* The stack that all suites share holds one snapshot for each set-up that ran
\* and one for each that came after its suite, whatever times out; the suites
\* that are open have their own, in order, while no late set-up acts
\* (SNAPSHOTS, testingUtils.ts).
THEOREM StackStaysExact ==
    ASSUME ~AnyOrder
    PROVE  Spec => []StackExact
<1>1. ASSUME Inv, phase \in {"rest", "test"}
      PROVE  Len(SNAPSHOTS) = stray + Cardinality({j \in 1 .. Len(hooks) : hooks[j].initialized})
  <2>1. Owed = 0 /\ Len(SNAPSHOTS) \in Nat
    BY <1>1, Sizes DEF Inv, Owed
  <2>2. Ran = {j \in 1 .. Len(hooks) : hooks[j].initialized}
    BY DEF Ran, N
  <2>. QED
    BY <1>1, <2>1, <2>2 DEF Inv, CountInv
<1>2. ASSUME SandboxInv, phase \in {"rest", "test"}
      PROVE  /\ \A j \in floor + 1 .. Len(SNAPSHOTS) : SNAPSHOTS[j] \in DOMAIN snapshots
             /\ \A j \in 1 .. N : hooks[j].initialized <=> floor + j <= Len(SNAPSHOTS)
             /\ floor <= Len(SNAPSHOTS) /\ Len(SNAPSHOTS) <= floor + N
  <2>1. /\ N \in Nat /\ floor \in Nat /\ SNAPSHOTS \in Seq(Nat) /\ Len(SNAPSHOTS) \in Nat
        /\ floor <= Len(SNAPSHOTS)
    BY <1>2, Sizes DEF SandboxInv, StackInv
  <2>2. /\ S = Len(SNAPSHOTS) - floor /\ S \in Nat
        /\ \A i \in 1 .. S : Mine[i] = SNAPSHOTS[floor + i]
    BY <2>1, OwnPartSeq DEF S, Mine
  <2>3. \A j \in 1 .. S : Mine[j] \in DOMAIN snapshots
    BY <1>2 DEF SandboxInv, StackInv, Saved
  <2>4. \A j \in floor + 1 .. Len(SNAPSHOTS) : j - floor \in 1 .. S /\ floor + (j - floor) = j
    BY <2>1, <2>2
  <2>5. \A j \in 1 .. N : hooks[j].initialized => j <= S
    BY <1>2 DEF SandboxInv, StackInv
  <2>6. \A j \in 1 .. N : j <= S => j \in 1 .. S
    BY <2>2
  <2>7. \A j \in 1 .. N : j <= S => hooks[j].initialized
    BY <1>2, <2>6 DEF SandboxInv, StackInv
  <2>8. \A j \in 1 .. N : j <= S <=> floor + j <= Len(SNAPSHOTS)
    BY <2>1, <2>2
  <2>9. S <= N
    BY <1>2 DEF SandboxInv, StackInv
  <2>10. \A j \in floor + 1 .. Len(SNAPSHOTS) : SNAPSHOTS[j] \in DOMAIN snapshots
    BY <2>2, <2>3, <2>4
  <2>11. Len(SNAPSHOTS) <= floor + N
    BY <2>1, <2>2, <2>9
  <2>. QED
    BY <2>1, <2>5, <2>7, <2>8, <2>10, <2>11
<1>3. Inv => StackExact
  BY <1>1, <1>2 DEF Inv, StackExact, N
<1>. QED
  BY <1>3, SandboxInvariant, PTL

LEMMA EffectsOf ==
    ASSUME NEW hs \in Seq(Hook)
    PROVE  /\ Effects(hs) \in Seq(Nat) /\ Len(Effects(hs)) = Len(hs)
           /\ \A i \in 1 .. Len(hs) : Effects(hs)[i] = hs[i].effect
<1>1. Len(hs) \in Nat /\ \A i \in 1 .. Len(hs) : hs[i].effect \in Nat
  BY HookFields
<1>. DEFINE n == Len(hs)  f(i) == hs[i].effect
<1>2. Effects(hs) = [i \in 1 .. n |-> f(i)]
  BY DEF Effects
<1>3. n \in Nat /\ \A i \in 1 .. n : f(i) \in Nat
  BY <1>1
<1>. HIDE DEF n, f
<1>4. /\ [i \in 1 .. n |-> f(i)] \in Seq(Nat) /\ Len([i \in 1 .. n |-> f(i)]) = n
      /\ \A i \in 1 .. n : [j \in 1 .. n |-> f(j)][i] = f(i)
  BY <1>3
<1>. QED
  BY <1>2, <1>4 DEF n, f

LEMMA SameEffects ==
    ASSUME NEW hs \in Seq(Hook), NEW hs2 \in Seq(Hook), Len(hs2) = Len(hs),
           \A i \in 1 .. Len(hs) : hs2[i].effect = hs[i].effect
    PROVE  Effects(hs2) = Effects(hs)
BY EffectsOf, SeqEqual

LEMMA EffectsFresh ==
    ASSUME NEW hs \in Seq(Hook), \A i \in 1 .. Len(hs) : hs[i].effect # 0
    PROVE  Effects(hs) \in Seq(Nat \ {0})
<1>1. /\ Effects(hs) \in Seq(Nat) /\ Len(Effects(hs)) = Len(hs) /\ Len(hs) \in Nat
      /\ \A i \in 1 .. Len(hs) : Effects(hs)[i] = hs[i].effect
  BY EffectsOf
<1>2. \A i \in 1 .. Len(hs) : Effects(hs)[i] \in Nat \ {0}
  BY <1>1, HookFields
<1>. QED
  BY <1>1, <1>2

LEMMA FreshEffects ==
    ASSUME TypeInv
    PROVE  /\ hooks \in Seq(Hook) /\ Effects(hooks) \in Seq(Nat \ {0})
           /\ Len(Effects(hooks)) = N /\ N \in Nat
           /\ base \in Seq((Nat \ {0}) \union {Own}) /\ chain \in Seq((Nat \ {0}) \union {Own})
<1>1. hooks \in Seq(Hook) /\ base \in Seq(Nat) /\ chain \in Seq(Nat)
  BY DEF TypeInv, Types
<1>2. /\ Effects(hooks) \in Seq(Nat) /\ Len(Effects(hooks)) = N /\ N \in Nat
      /\ \A i \in 1 .. N : Effects(hooks)[i] = hooks[i].effect
  BY <1>1, EffectsOf DEF N
<1>3. \A i \in 1 .. N : Effects(hooks)[i] \in Nat \ {0}
  BY <1>1, <1>2, HookFields DEF TypeInv, NestingInv, N
<1>4. Effects(hooks) \in Seq(Nat \ {0})
  BY <1>2, <1>3
<1>5. Nat \subseteq (Nat \ {0}) \union {Own}
  BY DEF Own
<1>. QED
  BY <1>1, <1>2, <1>4, <1>5, SeqMonotonic

\* A test starts on exactly what the set-ups make of the outermost chain.
LEMMA StartIsFresh ==
    ASSUME SandboxInv, BeginTest
    PROVE  chain = base \o Effects(hooks)
<1>. USE DEF SandboxInv
<1>1. /\ hooks \in Seq(Hook) /\ base \in Seq(Nat) /\ chain \in Seq(Nat) /\ Effects(hooks) \in Seq(Nat)
      /\ Len(Effects(hooks)) = N /\ \A i \in 1 .. N : Effects(hooks)[i] = hooks[i].effect
  BY EffectsOf DEF TypeInv, Types, N
<1>2. N \in Nat /\ S \in Nat /\ Len(base) \in Nat /\ S <= N
  BY Sizes DEF StackInv
<1>3. Found(N)
  <2>1. phase = "setUp" /\ pos = N
    BY DEF BeginTest, N
  <2>. QED
    BY <1>2, <2>1 DEF RoundInv
<1>4. /\ Len(chain) = Len(base) + N
      /\ \A i \in 1 .. Len(base) : chain[i] = base[i]
      /\ \A i \in 1 .. N : chain[Len(base) + i] = Effects(hooks)[i]
  BY <1>1, <1>3 DEF Found, Holds
<1>. DEFINE fresh == base \o Effects(hooks)
<1>5. /\ fresh \in Seq(Nat) /\ Len(fresh) = Len(base) + N
      /\ \A i \in 1 .. Len(base) : fresh[i] = base[i]
      /\ \A i \in 1 .. N : fresh[Len(base) + i] = Effects(hooks)[i]
  <2>. DEFINE e == Effects(hooks)
  <2>1. e \in Seq(Nat) /\ base \in Seq(Nat) /\ Len(e) = N
    BY <1>1
  <2>. HIDE DEF e
  <2>2. /\ base \o e \in Seq(Nat) /\ Len(base \o e) = Len(base) + Len(e)
        /\ \A i \in 1 .. Len(base) : (base \o e)[i] = base[i]
        /\ \A i \in 1 .. Len(e) : (base \o e)[Len(base) + i] = e[i]
    BY <2>1, SMTT(30)
  <2>. QED
    BY <2>1, <2>2 DEF e
<1>. HIDE DEF fresh
<1>6. \A i \in 1 .. Len(chain) : i \in 1 .. Len(base) \/ (i - Len(base) \in 1 .. N /\ i = Len(base) + (i - Len(base)))
  BY <1>2, <1>4
<1>7. \A i \in 1 .. Len(chain) : chain[i] = fresh[i]
  <2>. TAKE i \in 1 .. Len(chain)
  <2>1. CASE i \in 1 .. Len(base)
    BY <1>4, <1>5, <2>1
  <2>2. CASE i - Len(base) \in 1 .. N /\ i = Len(base) + (i - Len(base))
    <3>. DEFINE k == i - Len(base)
    <3>1. k \in 1 .. N /\ i = Len(base) + k
      BY <2>2
    <3>. HIDE DEF k
    <3>2. chain[Len(base) + k] = fresh[Len(base) + k]
      BY <1>4, <1>5, <3>1
    <3>. QED
      BY <3>1, <3>2
  <2>. QED
    BY <1>6, <2>1, <2>2
<1>8. chain = fresh
  BY <1>1, <1>4, <1>5, <1>7, SeqEqual
<1>. QED
  BY <1>8 DEF fresh

freshState == <<base, Effects(hooks), FreshWorld>>

LEMMA FreshOpen ==
    ASSUME TypeInv, TypeInv', NEW suite \in Suites, OpenSuite(suite)
    PROVE  Fresh!Open
<1>. DEFINE hs == newHooks(suite.setups)
<1>1. /\ hooks \in Seq(Hook) /\ Effects(hooks) \in Seq(Nat \ {0}) /\ Len(Effects(hooks)) = N /\ N \in Nat
      /\ base \in Seq((Nat \ {0}) \union {Own}) /\ chain \in Seq((Nat \ {0}) \union {Own})
  BY FreshEffects
<1>2. /\ hooks' \in Seq(Hook) /\ Effects(hooks') \in Seq(Nat \ {0}) /\ Len(Effects(hooks')) = Len(hooks')
      /\ \A i \in 1 .. Len(hooks') : Effects(hooks')[i] = hooks'[i].effect
      /\ Len(hooks') \in Nat
  <2>1. hooks' \in Seq(Hook) /\ \A i \in 1 .. Len(hooks') : hooks'[i].effect # 0
    BY DEF TypeInv, Types, NestingInv, N
  <2>2. Effects(hooks') \in Seq(Nat \ {0})
    BY <2>1, EffectsFresh
  <2>. QED
    BY <2>1, <2>2, EffectsOf
<1>3. \A i \in 1 .. N : Effects(hooks)[i] = hooks[i].effect
  BY <1>1, EffectsOf DEF N
<1>4. Len(hooks') >= N /\ \A i \in 1 .. N : hooks'[i] = hooks[i]
  <2>1. hs \in Seq(Hook) /\ hooks' = hooks \o hs
    BY NewHooks DEF OpenSuite, TypeInv
  <2>. HIDE DEF hs
  <2>2. Len(hs) \in Nat /\ Len(hooks') = N + Len(hs) /\ \A i \in 1 .. N : hooks'[i] = hooks[i]
    BY <1>1, <2>1, ConcatSeq DEF N
  <2>. QED
    BY <1>1, <2>2
<1>5. \A i \in 1 .. N : i \in 1 .. Len(hooks')
  BY <1>1, <1>2, <1>4
<1>6. \A i \in 1 .. Len(Effects(hooks)) : Effects(hooks')[i] = Effects(hooks)[i]
  BY <1>1, <1>2, <1>3, <1>4, <1>5
<1>7. \/ Effects(hooks) = <<>> /\ base' \in Seq((Nat \ {0}) \union {Own})
      \/ UNCHANGED base
  <2>1. CASE depth = 0
    <3>1. N = 0
      <4>1. 1 \in 1 .. N => hooks[1].depth \in 1 .. 0
        BY <2>1 DEF TypeInv, NestingInv
      <4>. QED
        BY <1>1, <4>1
    <3>2. Effects(hooks) = <<>>
      BY <1>1, <3>1
    <3>. QED
      BY <1>1, <2>1, <3>2 DEF OpenSuite
  <2>2. CASE depth # 0
    BY <2>2 DEF OpenSuite
  <2>. QED
    BY <2>1, <2>2
<1>8. FreshWorld = {} /\ FreshWorld' = {}
  BY DEF FreshWorld, OpenSuite
<1>. QED
  BY <1>1, <1>2, <1>4, <1>6, <1>7, <1>8 DEF Fresh!Open, Fresh!NoTest

LEMMA FreshClose ==
    ASSUME TypeInv, TypeInv', LeaveHook
    PROVE  Fresh!Close
<1>1. /\ hooks \in Seq(Hook) /\ hooks # <<>> /\ hooks' = popped(hooks) /\ N \in Nat /\ N >= 1
      /\ Effects(hooks) \in Seq(Nat) /\ Len(Effects(hooks)) = N
      /\ \A i \in 1 .. N : Effects(hooks)[i] = hooks[i].effect
  <2>1. hooks \in Seq(Hook) /\ hooks' = popped(hooks) /\ hooks # <<>>
    BY DEF TypeInv, Types, LeaveHook, Innermost
  <2>2. N \in Nat /\ N >= 1
    BY <2>1 DEF N
  <2>3. /\ Effects(hooks) \in Seq(Nat) /\ Len(Effects(hooks)) = N
        /\ \A i \in 1 .. N : Effects(hooks)[i] = hooks[i].effect
    BY <2>1, EffectsOf DEF N
  <2>. QED
    BY <2>1, <2>2, <2>3
<1>2. /\ hooks' \in Seq(Hook) /\ Len(hooks') = N - 1 /\ \A i \in 1 .. N - 1 : hooks'[i] = hooks[i]
  BY <1>1, PoppedSeq DEF N
<1>3. /\ Effects(hooks') \in Seq(Nat) /\ Len(Effects(hooks')) = N - 1
      /\ \A i \in 1 .. N - 1 : Effects(hooks')[i] = hooks'[i].effect
  BY <1>2, EffectsOf
<1>4. Effects(hooks) # <<>>
  BY <1>1
<1>5. /\ popped(Effects(hooks)) \in Seq(Nat) /\ Len(popped(Effects(hooks))) = N - 1
      /\ \A i \in 1 .. N - 1 : popped(Effects(hooks))[i] = Effects(hooks)[i]
  BY <1>1, <1>4, PoppedSeq
<1>6. \A i \in 1 .. N - 1 : i \in 1 .. N
  BY <1>1
<1>7. Effects(hooks') = popped(Effects(hooks))
  <2>1. \A i \in 1 .. N - 1 : Effects(hooks')[i] = popped(Effects(hooks))[i]
    BY <1>1, <1>2, <1>3, <1>5, <1>6
  <2>. QED
    BY <1>3, <1>5, <2>1, SeqEqual
<1>8. UNCHANGED base /\ FreshWorld = {} /\ FreshWorld' = {}
  BY DEF FreshWorld, LeaveHook
<1>. QED
  BY <1>4, <1>7, <1>8 DEF Fresh!Close, Fresh!NoTest, popped

\* Set-ups change their own handles and flags, never what they do.
LEMMA FreshSetUp ==
    ASSUME TypeInv, RunEach \/ Initialize \/ SaveCache
    PROVE  UNCHANGED freshState
<1>1. PICK x \in Nat : hooks' = [hooks EXCEPT ![pos + 1].handle = x]
                       \/ hooks' = [hooks EXCEPT ![pos + 1].initialized = TRUE]
  <2>1. Len(chain) + 1 \in Nat
    BY Sizes
  <2>. QED
    BY <2>1 DEF RunEach, Initialize, SaveCache, Deploys
<1>2. HookNext \/ phase = "save"
  BY DEF RunEach, Initialize, SaveCache
<1>3. /\ hooks' \in Seq(Hook) /\ N' = N
      /\ \A i \in 1 .. N : hooks'[i].effect = hooks[i].effect
  BY <1>1, <1>2, TypeHooks
<1>4. hooks \in Seq(Hook) /\ N = Len(hooks) /\ N' = Len(hooks')
  BY DEF TypeInv, Types, N
<1>5. Effects(hooks') = Effects(hooks)
  BY <1>3, <1>4, SameEffects
<1>6. UNCHANGED base /\ FreshWorld = {} /\ FreshWorld' = {}
  BY DEF FreshWorld, RunEach, Initialize, SaveCache, Deploys, HookNext
<1>. QED
  BY <1>5, <1>6 DEF freshState

LEMMA FreshStutter ==
    ASSUME \/ StartLeaving \/ LeaveSuite \/ StartRound \/ SaveGuard \/ Restore \/ FailHook
           \/ RestoreGuard \/ EndRound
    PROVE  UNCHANGED freshState
<1>1. UNCHANGED <<base, hooks>>
  BY DEF StartLeaving, LeaveSuite, StartRound, SaveGuard, Restore, FailHook, RestoreGuard, EndRound,
     mochaVars
<1>2. phase # "test" /\ phase' # "test"
  BY DEF StartLeaving, LeaveSuite, StartRound, SaveGuard, Restore, FailHook, RestoreGuard,
     EndRound, HookNext
<1>. QED
  BY <1>1, <1>2 DEF freshState, FreshWorld

LEMMA FreshInTime ==
    ASSUME TypeInv, TypeInv', ~disturbed => SandboxInv, InTime, disturbed' = disturbed
    PROVE  Fresh!Next \/ UNCHANGED freshState
<1>2. CASE LeaveHook
  BY <1>2, FreshClose DEF Fresh!Next
<1>3. CASE BeginTest
  <2>0. UNCHANGED <<base, hooks, chain>> /\ phase = "setUp" /\ phase' = "test"
    BY <1>3 DEF BeginTest, nodeVars, mochaVars
  <2>1. Effects(hooks') = Effects(hooks)
    BY <2>0
  <2>2. CASE disturbed
    BY <2>0, <2>1, <2>2 DEF freshState, FreshWorld
  <2>3. CASE ~disturbed
    <3>1. chain = base \o Effects(hooks)
      BY <1>3, <2>3, StartIsFresh
    <3>2. FreshWorld = {} /\ FreshWorld' = {chain}
      BY <2>0, <2>3 DEF FreshWorld
    <3>3. Fresh!Start
      BY <2>0, <2>1, <3>1, <3>2 DEF Fresh!Start, Fresh!NoTest
    <3>. QED
      BY <3>3 DEF Fresh!Next
  <2>. QED
    BY <2>2, <2>3
<1>4. CASE TestActs
  <2>0. UNCHANGED <<base, hooks>> /\ phase = "test" /\ phase' = "test" /\ chain' = Append(chain, Own)
    BY <1>4 DEF TestActs, Transact, mochaVars
  <2>1. Effects(hooks') = Effects(hooks)
    BY <2>0
  <2>2. CASE disturbed
    BY <2>0, <2>1, <2>2 DEF freshState, FreshWorld
  <2>3. CASE ~disturbed
    <3>1. FreshWorld = {chain} /\ FreshWorld' = {Append(chain, Own)}
      BY <2>0, <2>3 DEF FreshWorld
    <3>2. Fresh!Act
      BY <2>0, <2>1, <3>1 DEF Fresh!Act, Fresh!NoTest
    <3>. QED
      BY <3>2 DEF Fresh!Next
  <2>. QED
    BY <2>2, <2>3
<1>5. CASE EndTest
  <2>0. UNCHANGED <<base, hooks>> /\ phase = "test" /\ phase' # "test"
    BY <1>5 DEF EndTest, mochaVars
  <2>1. Effects(hooks') = Effects(hooks)
    BY <2>0
  <2>2. CASE disturbed
    BY <2>0, <2>1, <2>2 DEF freshState, FreshWorld
  <2>3. CASE ~disturbed
    <3>1. FreshWorld = {chain} /\ FreshWorld' = {}
      BY <2>0, <2>3 DEF FreshWorld
    <3>2. Fresh!Finish
      BY <2>0, <2>1, <3>1 DEF Fresh!Finish, Fresh!NoTest
    <3>. QED
      BY <3>2 DEF Fresh!Next
  <2>. QED
    BY <2>2, <2>3
<1>6. CASE RunEach \/ Initialize \/ SaveCache
  BY <1>6, FreshSetUp
<1>7. CASE \/ StartLeaving \/ LeaveSuite \/ StartRound \/ SaveGuard \/ Restore \/ FailHook
           \/ RestoreGuard \/ EndRound
  BY <1>7, FreshStutter
<1>. QED
  BY <1>2, <1>3, <1>4, <1>5, <1>6, <1>7 DEF InTime

\* The first step of a late set-up ends the fresh tests of the outermost suite.
LEMMA FreshLate ==
    ASSUME Inv, Inv', Late
    PROVE  Fresh!Finish \/ UNCHANGED freshState
<1>1. /\ UNCHANGED <<base, phase>> /\ disturbed'
      /\ hooks \in Seq(Hook) /\ hooks' \in Seq(Hook) /\ N' = N
      /\ \A i \in 1 .. N : hooks'[i].effect = hooks[i].effect
  <2>1. PICK l \in late : LateDeploys(l) \/ LateSaves(l) \/ LatePushes(l)
    BY DEF Late
  <2>2. UNCHANGED <<base, phase>> /\ disturbed'
    BY <2>1 DEF LateDeploys, LateSaves, LatePushes, mochaVars
  <2>3. hooks \in Seq(Hook) /\ N = Len(hooks) /\ Len(chain) + 1 \in Nat /\ 0 \in Nat
    BY Sizes DEF Inv, TypeInv, Types, N
  <2>4. IsOpen(l) => l.place \in 1 .. N
    BY <2>3, LateFields DEF IsOpen, Inv, LateInv
  <2>5. \/ hooks' = hooks
        \/ IsOpen(l) /\ hooks' = [hooks EXCEPT ![l.place].handle = Len(chain) + 1]
        \/ IsOpen(l) /\ hooks' = [hooks EXCEPT ![l.place].initialized = TRUE]
    BY <2>1 DEF LateDeploys, LateSaves, LatePushes, mochaVars
  <2>6. CASE hooks' = hooks
    BY <2>2, <2>3, <2>6 DEF N
  <2>7. CASE hooks' # hooks
    BY <2>2, <2>3, <2>4, <2>5, <2>7, EditedHook
  <2>. QED
    BY <2>6, <2>7
<1>2. Effects(hooks') = Effects(hooks)
  <2>1. N = Len(hooks) /\ N' = Len(hooks')
    BY DEF N
  <2>. QED
    BY <1>1, <2>1, SameEffects
<1>3. FreshWorld' = {}
  BY <1>1 DEF FreshWorld
<1>4. CASE FreshWorld = {}
  BY <1>1, <1>2, <1>3, <1>4 DEF freshState
<1>5. CASE FreshWorld # {}
  BY <1>1, <1>2, <1>3, <1>5 DEF Fresh!Finish, Fresh!NoTest
<1>. QED
  BY <1>4, <1>5

LEMMA FreshNext ==
    ASSUME Inv, Inv', [Next]_vars
    PROVE  Fresh!Next \/ UNCHANGED freshState
<1>. USE DEF Inv
<1>1. CASE \E suite \in Suites : OpenSuite(suite)
  BY <1>1, FreshOpen DEF Fresh!Next
<1>2. CASE InTime /\ UNCHANGED lateVars
  BY <1>2, FreshInTime DEF lateVars
<1>3. CASE TimeOut
  BY <1>3, FreshStutter DEF TimeOut
<1>4. CASE Late
  BY <1>4, FreshLate DEF Fresh!Next
<1>5. CASE UNCHANGED vars
  BY <1>5 DEF vars, nodeVars, mochaVars, lateVars, freshState, FreshWorld
<1>. QED
  BY <1>1, <1>2, <1>3, <1>4, <1>5 DEF Next

\* Snapshots, the stack and the guards implement tests that each start with
\* their suites' set-ups and with nothing of other tests, but for the tests of an
\* outermost suite during which a set-up that timed out goes on.
THEOREM SandboxImplementsFreshTests ==
    ASSUME ~AnyOrder
    PROVE  Spec => TestsAreFresh
<1>1. Init => Fresh!Init
  <2>1. Init => Effects(hooks) = <<>> /\ FreshWorld = {} /\ base = <<>>
    BY DEF Init, Effects, FreshWorld
  <2>. QED
    BY <2>1 DEF Fresh!Init, Fresh!NoTest
<1>2. Inv /\ Inv' /\ [Next]_vars => [Fresh!Next]_freshState
  BY FreshNext
<1>3. TestsAreFresh <=> Fresh!Init /\ [][Fresh!Next]_freshState
  BY DEF TestsAreFresh, Fresh!Spec, Fresh!freshVars, freshState
<1>. QED
  BY <1>1, <1>2, <1>3, SandboxInvariant, PTL DEF Spec

=============================================================================
