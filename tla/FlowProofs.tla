----------------------------- MODULE FlowProofs -----------------------------
(***************************************************************************)
(* Theorems about Flow, for any flows, inputs, records and bounds.         *)
(***************************************************************************)
EXTENDS Flow, SequenceTheorems, FiniteSetTheorems, WellFoundedInduction, TLAPS

-----------------------------------------------------------------------------
(* What the steps hand on.  Output is defined by recursion over the steps; *)
(* induction over them is a fact about sets of numbers.                    *)

LEMMA LeastNatural ==
    ASSUME NEW M \in SUBSET Nat, M # {}
    PROVE  \E x \in M : \A y \in M : x <= y
<1>1. IsWellFoundedOn(OpToRel(<, Nat), Nat)
  BY NatLessThanWellFounded, Zenon
<1>2. PICK x \in M : \A y \in M : <<y, x>> \notin OpToRel(<, Nat)
  BY <1>1, WFMin, Zenon
<1>3. \A y \in M : ~(y < x)
  BY <1>2 DEF OpToRel
<1> QED
  BY <1>3

\* A number below a member of a set that is closed downwards by one step at a time.
LEMMA UpTo ==
    ASSUME NEW n \in Nat, NEW M, 0 \in M, \A k \in 1..n : (\A j \in 0..(k - 1) : j \in M) => k \in M
    PROVE  \A k \in 0..n : k \in M
<1> DEFINE Bad == {k \in 0..n : k \notin M}
<1> SUFFICES ASSUME Bad # {} PROVE FALSE
  OBVIOUS
<1>1. PICK x \in Bad : \A y \in Bad : x <= y
  <2>1. Bad \in SUBSET Nat
    OBVIOUS
  <2> HIDE DEF Bad
  <2> QED
    BY <2>1, LeastNatural
<1>2. x \in 1..n /\ \A j \in 0..(x - 1) : j \in M
  BY <1>1
<1> QED
  BY <1>1, <1>2

\* A function defined from its values at smaller numbers exists.
Chain(f, n, from, S, base, whole, own) ==
    /\ f[0] = base
    /\ \A k \in 1..n : f[k] = {x \in IF k \in whole THEN S ELSE f[from[k]] : <<k, x>> \in own}

LEMMA ChainExists ==
    ASSUME NEW n \in Nat, NEW from, \A k \in 1..n : from[k] \in 0..(k - 1),
           NEW S, NEW base \in SUBSET S, NEW whole, NEW own
    PROVE  \E f \in [0..n -> SUBSET S] : Chain(f, n, from, S, base, whole, own)
<1> DEFINE B(f, k) == IF k = 0 THEN base ELSE {x \in IF k \in whole THEN S ELSE f[from[k]] : <<k, x>> \in own}
           Has(m)  == \E f \in [0..m -> SUBSET S] : \A k \in 0..m : f[k] = B(f, k)
           M       == {m \in 0..n : Has(m)}
<1>1. 0 \in M
  <2> DEFINE f == [k \in 0..0 |-> base]
  <2>1. f \in [0..0 -> SUBSET S]
    OBVIOUS
  <2>2. \A k \in 0..0 : f[k] = B(f, k)
    OBVIOUS
  <2>3. Has(0)
    <3> HIDE DEF f, B
    <3> QED
      BY <2>1, <2>2
  <2> HIDE DEF Has
  <2> QED
    BY <2>3
<1>2. ASSUME NEW k \in 1..n, \A j \in 0..(k - 1) : j \in M PROVE k \in M
  <2>1. Has(k - 1)
    <3> HIDE DEF Has
    <3> QED
      BY <1>2
  <2>2. PICK f \in [0..(k - 1) -> SUBSET S] : \A j \in 0..(k - 1) : f[j] = B(f, j)
    <3> HIDE DEF B
    <3> QED
      BY <2>1
  <2> DEFINE g == [j \in 0..k |-> IF j = k THEN B(f, k) ELSE f[j]]
  <2>3. B(f, k) \in SUBSET S
    BY <2>2
  <2>4. g \in [0..k -> SUBSET S]
    <3> HIDE DEF B
    <3> QED
      BY <2>2, <2>3
  <2>5. \A j \in 0..(k - 1) : g[j] = f[j]
    <3> HIDE DEF B
    <3> QED
      OBVIOUS
  <2>6. g[k] = B(f, k)
    <3> HIDE DEF B
    <3> QED
      OBVIOUS
  <2> HIDE DEF g
  <2>7. ASSUME NEW j \in 0..k PROVE B(g, j) = B(f, j)
    <3>1. CASE j = 0
      BY <3>1
    <3>2. CASE j # 0
      <4>1. from[j] \in 0..(k - 1)
        BY <3>2
      <4>2. g[from[j]] = f[from[j]]
        BY <4>1, <2>5
      <4> QED
        BY <3>2, <4>2
    <3> QED
      BY <3>1, <3>2
  <2> HIDE DEF B
  <2>8. ASSUME NEW j \in 0..k PROVE g[j] = B(g, j)
    <3>1. CASE j = k
      BY <3>1, <2>6, <2>7
    <3>2. CASE j # k
      BY <3>2, <2>2, <2>5, <2>7
    <3> QED
      BY <3>1, <3>2
  <2>9. Has(k)
    BY <2>4, <2>8
  <2> HIDE DEF Has
  <2> QED
    BY <2>9
<1>3. Has(n)
  <2>1. \A k \in 0..n : k \in M
    <3> HIDE DEF M
    <3> QED
      BY <1>1, <1>2, UpTo
  <2> HIDE DEF Has
  <2> QED
    BY <2>1
<1>4. PICK f \in [0..n -> SUBSET S] : \A k \in 0..n : f[k] = B(f, k)
  <2> HIDE DEF B
  <2> QED
    BY <1>3
<1>5. Chain(f, n, from, S, base, whole, own)
  BY <1>4 DEF Chain
<1> QED
  BY <1>4, <1>5

\* The flow is one that Validate lets through, or that of a batch.
WellFormed ==
    /\ N \in Nat \ {0} /\ Field = 1..N /\ Cap \in Nat
    /\ \A k \in 1..N : /\ steps[k].kind \in {"each", "all", "command"}
                       /\ steps[k].from \in 0..(k - 1) /\ steps[k].jobs \in Nat

Each(k) == steps[k].kind = "each"
From(k) == steps[k].from

\* What a step hands on, one step unfolded.
HandsOn(k) == {id \in IF Each(k) THEN Output[From(k)] ELSE Id : rec[k][id] # 0}

LEMMA OutputUnfolds ==
    WellFormed /\ input \in SUBSET Id =>
        /\ Output \in [0..N -> SUBSET Id]
        /\ Output[0] = input
        /\ \A k \in 1..N : Output[k] = HandsOn(k)
<1> SUFFICES ASSUME WellFormed, input \in SUBSET Id
             PROVE  /\ Output \in [0..N -> SUBSET Id]
                    /\ Output[0] = input
                    /\ \A k \in 1..N : Output[k] = HandsOn(k)
  OBVIOUS
<1> DEFINE from  == [k \in 1..N |-> From(k)]
           whole == {k \in 1..N : ~Each(k)}
           own   == {p \in (1..N) \X Id : rec[p[1]][p[2]] # 0}
<1>1. N \in Nat /\ \A k \in 1..N : from[k] \in 0..(k - 1)
  BY DEF WellFormed, From
<1>2. PICK f \in [0..N -> SUBSET Id] : Chain(f, N, from, Id, input, whole, own)
  <2> HIDE DEF from, whole, own
  <2> QED
    BY <1>1, ChainExists
<1>3. ASSUME NEW k \in 1..N
      PROVE  f[k] = {id \in IF steps[k].kind = "each" THEN f[steps[k].from] ELSE Id : rec[k][id] # 0}
  <2>1. f[From(k)] \in SUBSET Id /\ from[k] = From(k)
    BY <1>1
  <2>2. \A id \in Id : <<k, id>> \in own <=> rec[k][id] # 0
    OBVIOUS
  <2>3. k \in whole <=> ~Each(k)
    OBVIOUS
  <2>4. \A id : id \in f[k] <=> id \in (IF k \in whole THEN Id ELSE f[from[k]]) /\ <<k, id>> \in own
    BY <1>2 DEF Chain
  <2> HIDE DEF own, whole, from
  <2> QED
    BY <2>1, <2>2, <2>3, <2>4 DEF Each, From
<1> DEFINE Q(g, k) == {id \in IF steps[k].kind = "each" THEN g[steps[k].from] ELSE Id : rec[k][id] # 0}
<1>4. f = [k \in 0..N |-> IF k = 0 THEN input ELSE Q(f, k)]
  <2>1. f[0] = input /\ \A k \in 1..N : f[k] = Q(f, k)
    BY <1>2, <1>3 DEF Chain
  <2> HIDE DEF Q
  <2> QED
    BY <1>1, <2>1
<1>5. Output = [k \in 0..N |-> IF k = 0 THEN input ELSE Q(Output, k)]
  <2> HIDE DEF from, whole, own
  <2> QED
    BY <1>4 DEF Output
<1>6. /\ Output = [k \in 0..N |-> Output[k]] /\ Output[0] = input
      /\ \A k \in 1..N : Output[k] = Q(Output, k)
  <2> HIDE DEF Q
  <2> QED
    BY <1>1, <1>5
<1>7. \A k \in 1..N : Output[k] = HandsOn(k)
  BY <1>6 DEF HandsOn, Each, From
<1> HIDE DEF from, whole, own, Q
<1>8. \A k \in 0..N : Output[k] \in SUBSET Id
  <2> DEFINE M == {j \in 0..N : Output[j] \in SUBSET Id}
  <2>1. 0 \in M
    BY <1>1, <1>6
  <2>2. ASSUME NEW k \in 1..N, \A j \in 0..(k - 1) : j \in M PROVE k \in M
    <3>1. From(k) \in 0..(k - 1)
      BY DEF WellFormed, From
    <3>2. Output[From(k)] \in SUBSET Id
      BY <2>2, <3>1
    <3> QED
      BY <1>7, <3>2 DEF HandsOn
  <2>3. \A k \in 0..N : k \in M
    <3> HIDE DEF M
    <3> QED
      BY <1>1, <2>1, <2>2, UpTo
  <2> QED
    BY <2>3
<1> QED
  BY <1>6, <1>7, <1>8

\* The records a chain of steps has on disk, each newer than the one it was made from:
\* what Output would give if all that is stale were deleted, for any input.
Froms      == [k \in 1..N |-> From(k)]
Wholes     == {k \in 1..N : ~Each(k)}
Fresh(k, id) == rec[k][id] # 0 /\ (Each(k) => rec[k][id] >= Stamp(From(k), id))
FreshPairs == {p \in (1..N) \X Id : Fresh(p[1], p[2])}
Alive      == CHOOSE f \in [0..N -> SUBSET Id] : Chain(f, N, Froms, Id, Id, Wholes, FreshPairs)

LEMMA AliveUnfolds ==
    WellFormed =>
        /\ Alive \in [0..N -> SUBSET Id]
        /\ Alive[0] = Id
        /\ \A k \in 1..N, id \in Id :
             id \in Alive[k] <=> Fresh(k, id) /\ (Each(k) => id \in Alive[From(k)])
<1> SUFFICES ASSUME WellFormed
             PROVE  /\ Alive \in [0..N -> SUBSET Id]
                    /\ Alive[0] = Id
                    /\ \A k \in 1..N, id \in Id :
                         id \in Alive[k] <=> Fresh(k, id) /\ (Each(k) => id \in Alive[From(k)])
  OBVIOUS
<1>1. N \in Nat /\ \A k \in 1..N : Froms[k] \in 0..(k - 1)
  BY DEF WellFormed, From, Froms
<1>2. \E f \in [0..N -> SUBSET Id] : Chain(f, N, Froms, Id, Id, Wholes, FreshPairs)
  BY <1>1, ChainExists
<1>3. Alive \in [0..N -> SUBSET Id] /\ Chain(Alive, N, Froms, Id, Id, Wholes, FreshPairs)
  BY <1>2 DEF Alive
<1>4. ASSUME NEW k \in 1..N, NEW id \in Id
      PROVE  id \in Alive[k] <=> Fresh(k, id) /\ (Each(k) => id \in Alive[From(k)])
  <2>1. Froms[k] = From(k)
    BY DEF Froms
  <2>2. <<k, id>> \in FreshPairs <=> Fresh(k, id)
    BY DEF FreshPairs
  <2>3. k \in Wholes <=> ~Each(k)
    BY DEF Wholes
  <2>4. id \in Alive[k] <=> id \in (IF k \in Wholes THEN Id ELSE Alive[Froms[k]]) /\ <<k, id>> \in FreshPairs
    BY <1>3 DEF Chain
  <2> QED
    BY <2>1, <2>2, <2>3, <2>4
<1>5. Alive[0] = Id
  BY <1>3 DEF Chain
<1> QED
  BY <1>3, <1>4, <1>5

-----------------------------------------------------------------------------
(* The invariant.                                                          *)

Pcs == {"off", "plan", "map", "drain", "make", "write", "mark", "output"}

\* The types, but for what is printed.
Types ==
    /\ WellFormed
    /\ rec \in [1..N -> [Id -> 0..clock]] /\ madeFrom \in [1..N -> [Id -> 0..clock]]
    /\ mark \in [1..N -> 0..clock] /\ errors \in [1..N -> SUBSET Id]
    /\ readAll \in [1..N -> SUBSET (Id \X (0..clock))]
    /\ clock \in Nat /\ tokens \in Nat /\ calls \in Nat
    /\ pc \in Pcs /\ step \in 1..N
    /\ input \in SUBSET Id /\ todo \in SUBSET Id /\ now \in SUBSET Id
    /\ failures \in SUBSET Id /\ flying \in SUBSET Id /\ leaving \in SUBSET flying
    /\ limit \in Limits \cup {0}
    /\ live \in BOOLEAN /\ partial \in BOOLEAN /\ grew \in BOOLEAN /\ settled \in BOOLEAN
    /\ verdict \in {"none", "ok", "failed", "interrupted", "budget"}

\* Each kind of step goes its own way, and only mapRecords has goroutines.
Ways ==
    /\ pc \in {"map", "drain"} => Each(step)
    /\ pc \in {"make", "write"} => ~Each(step)
    /\ pc \notin {"map", "drain"} => flying = {}

-----------------------------------------------------------------------------
(* Types and ways.                                                         *)

TypesInv == Types /\ Ways

LEMMA FlowsAreWellFormed ==
    ASSUME NEW f, f \in {g \in Flows : Validate(g)} \cup {Batch(2)}
    PROVE  /\ Len(f.steps) \in Nat \ {0} /\ DOMAIN f.steps = 1..Len(f.steps) /\ f.tokens \in Nat
           /\ \A k \in 1..Len(f.steps) :
                /\ f.steps[k].kind \in {"each", "all", "command"}
                /\ f.steps[k].from \in 0..(k - 1) /\ f.steps[k].jobs \in Nat
<1>1. CASE f \in Flows /\ Validate(f)
  <2>1. f.steps \in Seq(Step) /\ f.tokens \in Nat /\ f.steps # <<>>
    BY <1>1, FlowAssumption DEF Validate
  <2>2. Len(f.steps) \in Nat \ {0} /\ DOMAIN f.steps = 1..Len(f.steps)
    BY <2>1, EmptySeq, LenProperties
  <2>3. ASSUME NEW k \in 1..Len(f.steps)
        PROVE  /\ f.steps[k].kind \in {"each", "all", "command"}
               /\ f.steps[k].from \in 0..(k - 1) /\ f.steps[k].jobs \in Nat
    <3>1. f.steps[k] \in Step
      BY <2>1, ElementOfSeq
    <3>2. f.steps[k].from < k
      BY <1>1, <2>2 DEF Validate
    <3> QED
      BY <3>1, <3>2 DEF Step
  <2> QED
    BY <2>1, <2>2, <2>3
<1>2. CASE f = Batch(2)
  <2>1. f.steps = <<[kind |-> "each", from |-> 0, jobs |-> 2]>> /\ f.tokens = 0
    BY <1>2 DEF Batch
  <2> QED
    BY <2>1
<1> QED
  BY <1>1, <1>2

LEMMA TypesInit == Init => TypesInv
<1> SUFFICES ASSUME Init PROVE TypesInv
  OBVIOUS
<1>1. WellFormed
  BY FlowsAreWellFormed DEF Init, WellFormed, N, Cap, steps, Field
<1>2. Field = 1..N /\ 1 \in 1..N /\ 0 \in 0..0
  BY <1>1 DEF WellFormed
<1>3. Types
  BY <1>1, <1>2 DEF Init, Types, Pcs
<1>4. Ways
  BY DEF Init, Ways
<1> QED
  BY <1>3, <1>4 DEF TypesInv

\* Nothing on disk or in its history changes.
StillDisk == UNCHANGED <<rec, mark, clock, madeFrom, readAll>>

LEMMA TypesGone ==
    ASSUME TypesInv, NEW v \in {"failed", "interrupted", "budget"}, Gone(v), StillDisk,
           UNCHANGED <<flow, grew, calls>>, errors' \in [1..N -> SUBSET Id]
    PROVE  TypesInv'
<1>1. WellFormed' /\ N' = N
  BY DEF TypesInv, Types, WellFormed, N, Cap, steps, Field
<1>2. 1 \in 1..N
  BY DEF TypesInv, Types, WellFormed
<1>3. Types'
  BY <1>1, <1>2 DEF TypesInv, Types, Gone, StillDisk, Pcs
<1>4. Ways'
  BY DEF Gone, Ways
<1> QED
  BY <1>3, <1>4 DEF TypesInv

LEMMA SameFlow ==
    ASSUME flow' = flow
    PROVE  /\ N' = N /\ Cap' = Cap /\ steps' = steps /\ WellFormed' = WellFormed
           /\ \A k : Each(k)' = Each(k) /\ From(k)' = From(k) /\ Jobs(k)' = Jobs(k)
BY DEF N, Cap, steps, WellFormed, Field, Each, From, Jobs

\* Steps that write nothing and stay at the step.
LEMMA TypesStill ==
    ASSUME TypesInv, StillDisk, UNCHANGED <<flow, step, errors, limit, grew, input>>,
           tokens' \in Nat, calls' \in Nat, pc' \in Pcs,
           todo' \in SUBSET Id, now' \in SUBSET Id, failures' \in SUBSET Id,
           flying' \in SUBSET Id, leaving' \in SUBSET flying',
           live' \in BOOLEAN, partial' \in BOOLEAN, settled' \in BOOLEAN, verdict' = verdict
    PROVE  Types'
<1>1. N' = N /\ WellFormed'
  BY SameFlow DEF TypesInv, Types
<1> QED
  BY <1>1 DEF TypesInv, Types, StillDisk

LEMMA TypesStart ==
    ASSUME TypesInv, Start
    PROVE  TypesInv'
<1>1. N' = N /\ WellFormed' /\ 1 \in 1..N
  BY SameFlow DEF TypesInv, Types, Start, WellFormed
<1>2. input' \in SUBSET Id
  BY DEF Start, ParseRecords
<1>3. Types'
  BY <1>1, <1>2 DEF TypesInv, Types, Start, Pcs, disk
<1>4. Ways'
  BY DEF Start, Ways
<1> QED
  BY <1>3, <1>4 DEF TypesInv

LEMMA TypesPlan ==
    ASSUME TypesInv, PlanEach \/ PlanWhole
    PROVE  TypesInv'
<1>1. StillDisk /\ UNCHANGED <<flow, step, errors, limit, grew, input, flying, leaving, live, settled, verdict, tokens, calls>>
  BY DEF PlanEach, PlanWhole, StillDisk, disk, history, bounds
<1>2. \A k : Each(k)' = Each(k)
  BY <1>1, SameFlow
<1>3. Upstream \in SUBSET Id
  <2>1. st.from \in 0..N
    BY DEF TypesInv, Types, WellFormed, st
  <2> QED
    BY <2>1, OutputUnfolds DEF TypesInv, Types, Upstream
<1>4. todo' \in SUBSET Id /\ now' \in SUBSET Id /\ failures' \in SUBSET Id /\ partial' \in BOOLEAN /\ pc' \in Pcs
  BY <1>3 DEF PlanEach, PlanWhole, TypesInv, Types, Pcs
<1>5. Types'
  BY <1>1, <1>4, TypesStill DEF TypesInv, Types
<1>6. Ways'
  BY <1>1, <1>2 DEF PlanEach, PlanWhole, TypesInv, Ways, Each, st
<1> QED
  BY <1>5, <1>6 DEF TypesInv

\* Goroutines start and leave, the loop ends, an interrupt comes.
LEMMA TypesMap ==
    ASSUME TypesInv, NEW id \in Id,
           StartOne(id) \/ Leave(id) \/ StopStarting \/ MapEnds \/ Interrupt
    PROVE  TypesInv'
<1>1. /\ StillDisk
      /\ UNCHANGED <<flow, step, errors, limit, grew, input, settled, verdict, now, failures, partial, tokens>>
  BY DEF StartOne, Leave, StopStarting, MapEnds, Interrupt, StillDisk, disk, process, history, bounds
<1>2. \A k : Each(k)' = Each(k)
  BY <1>1, SameFlow
<1>3. /\ todo' \in SUBSET Id /\ pc' \in Pcs /\ live' \in BOOLEAN /\ calls' \in Nat
      /\ flying' \in SUBSET Id /\ leaving' \in SUBSET flying'
  <2>1. /\ todo \in SUBSET Id /\ pc \in Pcs /\ live \in BOOLEAN /\ calls \in Nat
        /\ flying \in SUBSET Id /\ leaving \in SUBSET flying
    BY DEF TypesInv, Types
  <2>2. CASE StartOne(id)
    BY <2>1, <2>2 DEF StartOne
  <2>3. CASE Leave(id)
    BY <2>1, <2>3 DEF Leave, history
  <2>4. CASE StopStarting \/ MapEnds \/ Interrupt
    BY <2>1, <2>4 DEF StopStarting, MapEnds, Interrupt, process, history, Pcs
  <2> QED
    BY <2>2, <2>3, <2>4
<1>4. Types'
  BY <1>1, <1>3, TypesStill DEF TypesInv, Types
<1>5. Ways'
  BY <1>1, <1>2 DEF StartOne, Leave, StopStarting, MapEnds, Drained, Interrupt, TypesInv, Types, Ways, process
<1> QED
  BY <1>4, <1>5 DEF TypesInv

LEMMA TypesMake ==
    ASSUME TypesInv, Make
    PROVE  TypesInv'
<1>1. StillDisk /\ UNCHANGED <<flow, step, errors, limit, grew, input, flying, leaving, live, settled, verdict, failures, partial>>
  BY DEF Make, StillDisk, disk, bounds
<1>2. \A k : Each(k)' = Each(k)
  BY <1>1, SameFlow
<1>3. /\ todo' \in SUBSET Id /\ now' \in SUBSET Id /\ pc' \in Pcs
      /\ tokens' \in Nat /\ calls' \in Nat
  BY FlowAssumption DEF Make, TypesInv, Types, Pcs
<1>4. Types'
  BY <1>1, <1>3, TypesStill DEF TypesInv, Types
<1>5. Ways'
  BY <1>1, <1>2 DEF Make, TypesInv, Ways
<1> QED
  BY <1>4, <1>5 DEF TypesInv

\* A record is written: the result of a run, or one of a whole step.
LEMMA TypesWrite ==
    ASSUME TypesInv, NEW id \in Id, RunSucceeds(id) \/ WriteOne(id)
    PROVE  TypesInv'
<1>1. UNCHANGED <<flow, mark, errors, pc, verdict, step, input, limit, live, flying, failures, partial, readAll, grew, calls, settled>>
  BY DEF RunSucceeds, WriteOne, bounds, history
<1>2. N' = N /\ WellFormed' /\ \A k : Each(k)' = Each(k)
  BY <1>1, SameFlow DEF TypesInv, Types
<1>3. clock' = clock + 1 /\ clock \in Nat /\ 0..clock \subseteq 0..clock' /\ clock + 1 \in 0..clock'
  BY DEF RunSucceeds, WriteOne, TypesInv, Types
<1>4. rec' \in [1..N -> [Id -> 0..clock']]
  <2>1. rec' = [rec EXCEPT ![step][id] = clock + 1]
    BY DEF RunSucceeds, WriteOne
  <2> QED
    BY <1>3, <2>1 DEF TypesInv, Types
<1>5. madeFrom' \in [1..N -> [Id -> 0..clock']]
  <2>1. Stamp(st.from, id) \in 0..clock
    <3>1. st.from \in 0..N
      BY DEF TypesInv, Types, WellFormed, st
    <3> QED
      BY <3>1 DEF TypesInv, Types, Stamp
  <2>2. madeFrom' = madeFrom \/ madeFrom' = [madeFrom EXCEPT ![step][id] = Stamp(st.from, id)]
    BY DEF RunSucceeds, WriteOne, history
  <2> QED
    BY <1>3, <2>1, <2>2 DEF TypesInv, Types
<1>6. mark' \in [1..N -> 0..clock'] /\ readAll' \in [1..N -> SUBSET (Id \X (0..clock'))]
  <2>1. Id \X (0..clock) \subseteq Id \X (0..clock')
    BY <1>3
  <2> QED
    BY <1>1, <1>3, <2>1 DEF TypesInv, Types
<1>7. tokens' \in Nat /\ todo' \in SUBSET Id /\ now' \in SUBSET Id /\ leaving' \in SUBSET flying
  BY DEF RunSucceeds, WriteOne, TypesInv, Types
<1>8. Types'
  BY <1>1, <1>2, <1>3, <1>4, <1>5, <1>6, <1>7 DEF TypesInv, Types
<1>9. Ways'
  BY <1>1, <1>2 DEF TypesInv, Ways
<1> QED
  BY <1>8, <1>9 DEF TypesInv

LEMMA TypesRunFails ==
    ASSUME TypesInv, NEW id \in Id, RunFails(id)
    PROVE  TypesInv'
<1>1. UNCHANGED <<flow, rec, madeFrom, mark, clock, readAll, pc, step, flying, verdict, input, limit, live, todo, now, partial, grew, calls, settled>>
  BY DEF RunFails, bounds
<1>2. N' = N /\ WellFormed' /\ \A k : Each(k)' = Each(k)
  BY <1>1, SameFlow DEF TypesInv, Types
<1>3. errors' \in [1..N -> SUBSET Id]
  BY DEF RunFails, TypesInv, Types
<1>4. tokens' \in Nat /\ failures' \in SUBSET Id /\ leaving' \in SUBSET flying
  BY DEF RunFails, TypesInv, Types
<1>5. Types'
  BY <1>1, <1>2, <1>3, <1>4 DEF TypesInv, Types
<1>6. Ways'
  BY <1>1, <1>2 DEF TypesInv, Ways
<1> QED
  BY <1>5, <1>6 DEF TypesInv

\* A directory is trimmed, or a file deleted by the user.
LEMMA TypesDelete ==
    ASSUME TypesInv,
           \/ \E id \in Id : RemoveOne(id)
           \/ Edit
    PROVE  TypesInv'
<1>1. UNCHANGED <<flow, errors, clock, pc, verdict, step, input, limit, live, tokens, todo, flying, leaving, failures,
                  now, partial, madeFrom, readAll, grew, calls>>
  BY DEF RemoveOne, Edit, bounds, process, history
<1>2. N' = N /\ WellFormed' /\ \A k : Each(k)' = Each(k)
  BY <1>1, SameFlow DEF TypesInv, Types
<1>3. 0 \in 0..clock
  BY DEF TypesInv, Types
<1>4. rec' \in [1..N -> [Id -> 0..clock]]
  <2>1. rec' = rec \/ \E k \in Field, id \in Id : rec' = [rec EXCEPT ![k][id] = 0]
    BY DEF RemoveOne, Edit, TypesInv, Types, WellFormed
  <2>2. Field = 1..N /\ rec \in [1..N -> [Id -> 0..clock]]
    BY DEF TypesInv, Types, WellFormed
  <2>3. ASSUME NEW k \in 1..N, NEW id \in Id PROVE [rec EXCEPT ![k][id] = 0] \in [1..N -> [Id -> 0..clock]]
    BY <1>3, <2>2
  <2> QED
    BY <2>1, <2>2, <2>3
<1>5. mark' \in [1..N -> 0..clock]
  <2>1. mark' = mark \/ \E k \in Field : mark' = [mark EXCEPT ![k] = 0]
    BY DEF RemoveOne, Edit
  <2>2. Field = 1..N /\ mark \in [1..N -> 0..clock]
    BY DEF TypesInv, Types, WellFormed
  <2>3. ASSUME NEW k \in 1..N PROVE [mark EXCEPT ![k] = 0] \in [1..N -> 0..clock]
    BY <1>3, <2>2
  <2> QED
    BY <2>1, <2>2, <2>3
<1>6. settled' \in BOOLEAN
  BY DEF RemoveOne, Edit, TypesInv, Types, history
<1>7. Types'
  BY <1>1, <1>2, <1>4, <1>5, <1>6 DEF TypesInv, Types
<1>8. Ways'
  BY <1>1, <1>2 DEF TypesInv, Ways
<1> QED
  BY <1>7, <1>8 DEF TypesInv

LEMMA ReadsAreTyped ==
    ASSUME Types
    PROVE  Upstream \in SUBSET Id /\ Reads \in SUBSET (Id \X (0..clock))
<1>1. st.from \in 0..N /\ st.from = From(step)
  BY DEF Types, WellFormed, st, From
<1>2. Upstream \in SUBSET Id
  BY <1>1, OutputUnfolds DEF Types, Upstream
<1>3. \A id \in Id : Stamp(st.from, id) \in 0..clock
  BY <1>1 DEF Types, Stamp
<1> QED
  BY <1>2, <1>3 DEF Reads

LEMMA TypesMark ==
    ASSUME TypesInv, Mark
    PROVE  TypesInv'
<1>1. UNCHANGED <<flow, rec, errors, verdict, step, input, limit, live, tokens, todo, flying, leaving, failures,
                  partial, madeFrom, grew, calls, settled>>
  BY DEF Mark, bounds
<1>2. N' = N /\ WellFormed' /\ \A k : Each(k)' = Each(k)
  BY <1>1, SameFlow DEF TypesInv, Types
<1>3. clock' = clock + 1 /\ clock \in Nat /\ 0..clock \subseteq 0..clock' /\ clock + 1 \in 0..clock'
  BY DEF Mark, TypesInv, Types
<1>4. rec' \in [1..N -> [Id -> 0..clock']] /\ madeFrom' \in [1..N -> [Id -> 0..clock']]
  BY <1>1, <1>3 DEF TypesInv, Types
<1>5. mark' \in [1..N -> 0..clock']
  <2>1. mark' = [mark EXCEPT ![step] = clock + 1]
    BY DEF Mark
  <2> QED
    BY <1>3, <2>1 DEF TypesInv, Types
<1>6. readAll' \in [1..N -> SUBSET (Id \X (0..clock'))]
  <2>1. readAll' = [readAll EXCEPT ![step] = Reads]
    BY DEF Mark
  <2>2. Id \X (0..clock) \subseteq Id \X (0..clock')
    BY <1>3
  <2>3. Reads \in SUBSET (Id \X (0..clock'))
    BY <2>2, ReadsAreTyped DEF TypesInv
  <2> HIDE <1>3
  <2>4. readAll \in [1..N -> SUBSET (Id \X (0..clock'))]
    BY <2>2 DEF TypesInv, Types
  <2> QED
    BY <2>1, <2>3, <2>4
<1>7. pc' \in Pcs /\ now' \in SUBSET Id
  BY DEF Mark, Pcs
<1>8. Types'
  BY <1>1, <1>2, <1>3, <1>4, <1>5, <1>6, <1>7 DEF TypesInv, Types
<1>9. Ways'
  BY <1>1, <1>2 DEF Mark, TypesInv, Ways
<1> QED
  BY <1>8, <1>9 DEF TypesInv

LEMMA TypesHandOn ==
    ASSUME TypesInv, HandOn
    PROVE  TypesInv'
<1>1. UNCHANGED <<flow, disk, input, limit, live, tokens, todo, flying, leaving, failures, now, partial, madeFrom,
                  readAll, grew, calls>>
  BY DEF HandOn, bounds
<1>2. N' = N /\ WellFormed' /\ \A k : Each(k)' = Each(k)
  BY <1>1, SameFlow DEF TypesInv, Types
<1>3. step' \in 1..N /\ pc' \in Pcs /\ settled' \in BOOLEAN /\ verdict' \in {"none", "ok", "failed", "interrupted", "budget"}
  <2>1. step \in 1..N /\ N \in Nat /\ settled \in BOOLEAN /\ partial \in BOOLEAN
    BY DEF TypesInv, Types, WellFormed
  <2>2. step' \in 1..N /\ pc' \in Pcs
    BY <2>1 DEF HandOn, Pcs
  <2>3. settled' \in BOOLEAN /\ verdict' \in {"none", "ok", "failed", "interrupted", "budget"}
    BY <2>1 DEF HandOn, TypesInv, Types
  <2> QED
    BY <2>2, <2>3
<1>4. Types'
  BY <1>1, <1>2, <1>3 DEF TypesInv, Types, disk
<1>5. Ways'
  BY <1>1, <1>2 DEF HandOn, TypesInv, Ways
<1> QED
  BY <1>4, <1>5 DEF TypesInv

\* The ways in which a process ends before its last step.
Ends(v) == Gone(v) /\ StillDisk /\ UNCHANGED <<flow, input, limit, partial, grew, calls>>
Stops == Interrupted \/ CannotStart \/ MapStops \/ MakeFails \/ WriteFails \/ Kill

LEMMA StopsEnd ==
    ASSUME Stops
    PROVE  \E v \in {"failed", "interrupted", "budget"} : Ends(v)
BY DEF Stops, Interrupted, CannotStart, MapStops, MakeFails, WriteFails, Kill, End, Ends, Gone, StillDisk, disk, bounds

LEMMA TypesStops ==
    ASSUME TypesInv, Stops
    PROVE  TypesInv'
<1>1. PICK v \in {"failed", "interrupted", "budget"} : Ends(v)
  BY StopsEnd
<1>2. errors' \in [1..N -> SUBSET Id]
  <2>1. errors' = errors \/ errors' = [errors EXCEPT ![step] = @ \cup {AllId}]
    BY DEF Stops, Interrupted, CannotStart, MapStops, MakeFails, WriteFails, Kill, End, disk
  <2> QED
    BY <2>1, FlowAssumption DEF TypesInv, Types
<1> QED
  BY <1>1, <1>2, TypesGone DEF Ends

LEMMA TypesNext == TypesInv /\ [Next]_vars => TypesInv'
<1> SUFFICES ASSUME TypesInv, [Next]_vars PROVE TypesInv'
  OBVIOUS
<1>1. CASE Start
  BY <1>1, TypesStart
<1>2. CASE PlanEach \/ PlanWhole
  BY <1>2, TypesPlan
<1>3. CASE StopStarting \/ MapEnds \/ Interrupt
  BY <1>3, TypesMap, FlowAssumption
<1>4. CASE Make
  BY <1>4, TypesMake
<1>5. CASE Mark
  BY <1>5, TypesMark
<1>6. CASE HandOn
  BY <1>6, TypesHandOn
<1>7. CASE Stops
  BY <1>7, TypesStops
<1>8. CASE Edit
  BY <1>8, TypesDelete
<1>9. ASSUME NEW id \in Id, WriteOne(id) \/ RemoveOne(id) PROVE TypesInv'
  BY <1>9, TypesWrite, TypesDelete
<1>10. ASSUME NEW id \in Id, Goroutine(id) PROVE TypesInv'
  BY <1>10, TypesMap, TypesWrite, TypesRunFails DEF Goroutine
<1>11. CASE UNCHANGED vars
  <2>1. UNCHANGED <<flow, rec, mark, errors, clock, pc, verdict, step, input, limit, live, tokens, todo, flying, leaving,
                    failures, now, partial, madeFrom, readAll, grew, calls, settled>>
    BY <1>11 DEF vars, disk, process, history, bounds
  <2>2. N' = N /\ WellFormed' /\ \A k : Each(k)' = Each(k)
    BY <2>1, SameFlow DEF TypesInv, Types
  <2>3. Types'
    BY <2>1, <2>2 DEF TypesInv, Types
  <2>4. Ways'
    BY <2>1, <2>2 DEF TypesInv, Ways
  <2> QED
    BY <2>3, <2>4 DEF TypesInv
<1> QED
  BY <1>1, <1>2, <1>3, <1>4, <1>5, <1>6, <1>7, <1>8, <1>9, <1>10, <1>11 DEF Next, Main, Stops

-----------------------------------------------------------------------------
(* The budget.                                                             *)

BudgetInv == Cardinality(flying) <= Jobs(step) /\ BudgetHolds

LEMMA InFlight ==
    ASSUME Types
    PROVE  /\ IsFiniteSet(flying) /\ IsFiniteSet(flying \ leaving)
           /\ Cardinality(flying) \in Nat /\ Cardinality(flying \ leaving) \in Nat
           /\ Cardinality(flying \ leaving) <= Cardinality(flying)
<1>1. IsFiniteSet(Id) /\ flying \in SUBSET Id
  BY FlowAssumption DEF Types
<1>2. IsFiniteSet(flying)
  BY <1>1, FS_Subset
<1>3. flying \ leaving \in SUBSET flying
  OBVIOUS
<1>4. IsFiniteSet(flying \ leaving) /\ Cardinality(flying \ leaving) <= Cardinality(flying)
  BY <1>2, <1>3, FS_Subset
<1> QED
  BY <1>2, <1>4, FS_CardinalityType

LEMMA JobsArePositive ==
    ASSUME WellFormed, NEW k \in 1..N
    PROVE  Jobs(k) \in Nat /\ Jobs(k) >= 1
BY DEF WellFormed, Jobs

\* Nothing runs and nothing is spent, or nothing changes.
LEMMA BudgetRests ==
    ASSUME TypesInv, flow' = flow, step' = 1, tokens' = 0, flying' = {}
    PROVE  BudgetInv'
<1>1. Cap' = Cap /\ \A k : Jobs(k)' = Jobs(k)
  BY SameFlow
<1>2. Cap \in Nat /\ 1 \in 1..N /\ Jobs(1) \in Nat /\ Jobs(1) >= 1
  BY JobsArePositive DEF TypesInv, Types, WellFormed
<1>3. Cardinality(flying') = 0 /\ Cardinality((flying \ leaving)') = 0
  BY FS_EmptySet
<1>4. Jobs(step)' = Jobs(1)
  BY <1>1 DEF Jobs, steps
<1>5. BudgetHolds'
  <2>1. Cap > 0 => tokens' + Cardinality((flying \ leaving)') <= Cap - 1 + Jobs(1)
    BY <1>2, <1>3
  <2>2. 1 \in 1..step'
    OBVIOUS
  <2> QED
    BY <1>1, <2>1, <2>2 DEF BudgetHolds
<1> QED
  BY <1>2, <1>3, <1>4, <1>5 DEF BudgetInv

LEMMA BudgetStill ==
    ASSUME BudgetInv, UNCHANGED <<flow, step, tokens, flying, leaving>>
    PROVE  BudgetInv'
BY SameFlow DEF BudgetInv, BudgetHolds, Jobs

LEMMA BudgetStartOne ==
    ASSUME TypesInv, BudgetInv, NEW id \in Id, StartOne(id)
    PROVE  BudgetInv'
<1>1. UNCHANGED <<flow, step, tokens, leaving>> /\ flying' = flying \cup {id}
  BY DEF StartOne, bounds
<1>2. Cap' = Cap /\ Jobs(step)' = Jobs(step) /\ \A k : Jobs(k)' = Jobs(k)
  BY <1>1, SameFlow DEF Jobs
<1>3. IsFiniteSet(flying) /\ Cardinality(flying) \in Nat /\ tokens \in Nat /\ Cap \in Nat /\ step \in 1..N
  BY InFlight DEF TypesInv, Types, WellFormed
<1>4. Jobs(step) \in Nat /\ Cardinality(flying) < Jobs(step)
  BY <1>3, JobsArePositive DEF StartOne, Slot, TypesInv, Types
<1>5. IsFiniteSet(flying') /\ Cardinality(flying') \in Nat /\ Cardinality(flying') <= Cardinality(flying) + 1
  <2>1. /\ IsFiniteSet(flying \cup {id})
        /\ Cardinality(flying \cup {id}) = IF id \in flying THEN Cardinality(flying) ELSE Cardinality(flying) + 1
    BY <1>3, FS_AddElement
  <2> QED
    BY <1>1, <1>3, <2>1
<1>6. Cardinality((flying \ leaving)') \in Nat /\ Cardinality((flying \ leaving)') <= Cardinality(flying')
  <2>1. (flying \ leaving)' \in SUBSET flying'
    OBVIOUS
  <2> QED
    BY <1>5, <2>1, FS_Subset, FS_CardinalityType
<1>7. BudgetHolds'
  <2>1. Cap > 0 => tokens <= Cap - 1
    BY <1>3 DEF StartOne, Spent
  <2>2. Cap > 0 => tokens + Cardinality((flying \ leaving)') <= Cap - 1 + Jobs(step)
    BY <1>3, <1>4, <1>5, <1>6, <2>1
  <2>3. step \in 1..step'
    BY <1>1, <1>3
  <2> QED
    BY <1>1, <1>2, <2>2, <2>3 DEF BudgetHolds
<1> QED
  BY <1>2, <1>3, <1>4, <1>5, <1>7 DEF BudgetInv

\* A run that is over has cost its token, and is in flight no more.
LEMMA BudgetRun ==
    ASSUME TypesInv, BudgetInv, NEW id \in Id, RunSucceeds(id) \/ RunFails(id)
    PROVE  BudgetInv'
<1>1. UNCHANGED <<flow, step, flying>> /\ tokens' = tokens + 1 /\ id \in flying \ leaving /\ leaving' = leaving \cup {id}
  BY DEF RunSucceeds, RunFails, bounds
<1>2. Cap' = Cap /\ Jobs(step)' = Jobs(step) /\ \A k : Jobs(k)' = Jobs(k)
  BY <1>1, SameFlow DEF Jobs
<1>3. /\ IsFiniteSet(flying \ leaving) /\ Cardinality(flying \ leaving) \in Nat
      /\ tokens \in Nat /\ Cap \in Nat /\ step \in 1..N
  BY InFlight DEF TypesInv, Types, WellFormed
<1>4. (flying \ leaving)' = (flying \ leaving) \ {id}
  BY <1>1
<1>5. Cardinality((flying \ leaving)') = Cardinality(flying \ leaving) - 1
  BY <1>1, <1>3, <1>4, FS_RemoveElement
<1>6. tokens' + Cardinality((flying \ leaving)') = tokens + Cardinality(flying \ leaving)
  BY <1>1, <1>3, <1>5
<1>7. BudgetHolds'
  BY <1>1, <1>2, <1>6 DEF BudgetInv, BudgetHolds
<1> QED
  BY <1>1, <1>2, <1>7 DEF BudgetInv

LEMMA BudgetLeave ==
    ASSUME TypesInv, BudgetInv, NEW id \in Id, Leave(id)
    PROVE  BudgetInv'
<1>1. UNCHANGED <<flow, step, tokens>> /\ id \in leaving /\ flying' = flying \ {id} /\ leaving' = leaving \ {id}
  BY DEF Leave, bounds
<1>2. Cap' = Cap /\ Jobs(step)' = Jobs(step) /\ \A k : Jobs(k)' = Jobs(k)
  BY <1>1, SameFlow DEF Jobs
<1>3. (flying \ leaving)' = flying \ leaving
  BY <1>1
<1>4. IsFiniteSet(flying) /\ Cardinality(flying) \in Nat /\ Jobs(step) \in Nat
  BY InFlight, JobsArePositive DEF TypesInv, Types
<1>5. Cardinality(flying') \in Nat /\ Cardinality(flying') <= Cardinality(flying)
  <2>1. /\ IsFiniteSet(flying \ {id})
        /\ Cardinality(flying \ {id}) = IF id \in flying THEN Cardinality(flying) - 1 ELSE Cardinality(flying)
    BY <1>4, FS_RemoveElement
  <2>2. Cardinality(flying \ {id}) \in Nat
    BY <2>1, FS_CardinalityType
  <2> QED
    BY <1>1, <1>4, <2>1, <2>2
<1>6. BudgetHolds'
  BY <1>1, <1>2, <1>3 DEF BudgetInv, BudgetHolds
<1> QED
  BY <1>2, <1>4, <1>5, <1>6 DEF BudgetInv

LEMMA BudgetMake ==
    ASSUME TypesInv, BudgetInv, Make
    PROVE  BudgetInv'
<1>1. UNCHANGED <<flow, step, flying, leaving>>
  BY DEF Make, bounds
<1>2. Cap' = Cap /\ Jobs(step)' = Jobs(step) /\ \A k : Jobs(k)' = Jobs(k)
  BY <1>1, SameFlow DEF Jobs
<1>3. CASE tokens' = tokens
  BY <1>1, <1>3, BudgetStill
<1>4. CASE tokens' = tokens + 1 /\ ~Spent
  <2>1. tokens \in Nat /\ Cap \in Nat /\ step \in 1..N /\ Jobs(step) \in Nat /\ Jobs(step) >= 1
    BY JobsArePositive DEF TypesInv, Types, WellFormed
  <2>2. flying = {}
    BY DEF Make, TypesInv, Ways
  <2>3. Cardinality((flying \ leaving)') = 0
    BY <1>1, <2>2, FS_EmptySet
  <2>4. Cap > 0 => tokens' + Cardinality((flying \ leaving)') <= Cap - 1 + Jobs(step)
    BY <1>4, <2>1, <2>3 DEF Spent
  <2>5. BudgetHolds'
    BY <1>1, <1>2, <2>1, <2>4 DEF BudgetHolds
  <2> QED
    BY <1>1, <1>2, <2>5 DEF BudgetInv
<1> QED
  BY <1>3, <1>4 DEF Make

LEMMA BudgetHandOn ==
    ASSUME TypesInv, BudgetInv, HandOn
    PROVE  BudgetInv'
<1>1. UNCHANGED <<flow, tokens, flying, leaving>>
  BY DEF HandOn, bounds
<1>2. Cap' = Cap /\ \A k : Jobs(k)' = Jobs(k)
  BY <1>1, SameFlow
<1>3. step \in 1..N /\ step' \in 1..N /\ 1..step \subseteq 1..step'
  BY DEF HandOn, TypesInv, Types, WellFormed
<1>4. BudgetHolds'
  BY <1>1, <1>2, <1>3 DEF BudgetInv, BudgetHolds
<1>5. Cardinality(flying') = 0
  BY <1>1, FS_EmptySet DEF HandOn, TypesInv, Ways
<1>6. Jobs(step)' \in Nat
  <2>1. WellFormed' /\ N' = N
    BY <1>1, SameFlow DEF TypesInv, Types
  <2> QED
    BY <1>3, <2>1 DEF WellFormed, Jobs
<1> QED
  BY <1>4, <1>5, <1>6 DEF BudgetInv

LEMMA BudgetNext == TypesInv /\ BudgetInv /\ [Next]_vars => BudgetInv'
<1> SUFFICES ASSUME TypesInv, BudgetInv, [Next]_vars PROVE BudgetInv'
  OBVIOUS
<1>1. CASE Start
  BY <1>1, BudgetRests DEF Start
<1>2. CASE PlanEach \/ PlanWhole \/ StopStarting \/ MapEnds \/ Mark \/ Interrupt \/ Edit \/ UNCHANGED vars
  <2>1. UNCHANGED <<flow, step, tokens, flying, leaving>>
    BY <1>2 DEF PlanEach, PlanWhole, StopStarting, MapEnds, Mark, Interrupt, Edit, vars, process, bounds
  <2> QED
    BY <2>1, BudgetStill
<1>3. ASSUME NEW id \in Id, WriteOne(id) \/ RemoveOne(id) PROVE BudgetInv'
  <2>1. UNCHANGED <<flow, step, tokens, flying, leaving>>
    BY <1>3 DEF WriteOne, RemoveOne, process, bounds
  <2> QED
    BY <2>1, BudgetStill
<1>4. CASE Make
  BY <1>4, BudgetMake
<1>5. CASE HandOn
  BY <1>5, BudgetHandOn
<1>6. CASE Stops
  BY <1>6, StopsEnd, BudgetRests DEF Ends, Gone
<1>7. ASSUME NEW id \in Id, Goroutine(id) PROVE BudgetInv'
  BY <1>7, BudgetStartOne, BudgetRun, BudgetLeave DEF Goroutine
<1> QED
  BY <1>1, <1>2, <1>3, <1>4, <1>5, <1>6, <1>7 DEF Next, Main, Stops

LEMMA BudgetInit == Init => BudgetInv
<1> SUFFICES ASSUME Init PROVE BudgetInv
  OBVIOUS
<1>1. TypesInv
  BY TypesInit
<1>2. step = 1 /\ tokens = 0 /\ flying = {}
  BY DEF Init
<1>3. Cap \in Nat /\ 1 \in 1..N /\ Jobs(1) \in Nat /\ Jobs(1) >= 1
  BY <1>1, JobsArePositive DEF TypesInv, Types, WellFormed
<1>4. Cardinality(flying) = 0 /\ Cardinality(flying \ leaving) = 0
  BY <1>2, FS_EmptySet
<1>5. Cap > 0 => tokens + Cardinality(flying \ leaving) <= Cap - 1 + Jobs(1)
  BY <1>2, <1>3, <1>4
<1>6. BudgetHolds
  BY <1>2, <1>5 DEF BudgetHolds
<1> QED
  BY <1>2, <1>3, <1>4, <1>6 DEF BudgetInv

\* The runs of a flow pass its token budget by less than one step has jobs, however
\* many steps, records and jobs there are, and whatever fails or is interrupted.
THEOREM BudgetIsKept == Spec => []BudgetHolds
<1>1. Init => TypesInv /\ BudgetInv
  BY TypesInit, BudgetInit
<1>2. TypesInv /\ BudgetInv /\ [Next]_vars => TypesInv' /\ BudgetInv'
  BY TypesNext, BudgetNext
<1>3. BudgetInv => BudgetHolds
  BY DEF BudgetInv
<1> QED
  BY <1>1, <1>2, <1>3, PTL DEF Spec

-----------------------------------------------------------------------------
(* make's rule.                                                            *)

\* Step k has made all it should of what it is given now.
Current(k) == IF Each(k) THEN \A id \in Output[From(k)] : FreshSince(k, id) ELSE Done(k)

\* A record comes from the version its source has now, or it is older than that, or the
\* source is gone.
MadeInv ==
    \A k \in 1..N, id \in Id : Each(k) /\ rec[k][id] # 0 =>
        \/ madeFrom[k][id] = Stamp(From(k), id)
        \/ From(k) # 0 /\ Stamp(From(k), id) = 0
        \/ Stamp(From(k), id) > rec[k][id]

\* Processes that were never given less input have no record of anything else.
InputInv ==
    grew => \A k \in 1..N, id \in Id : Each(k) /\ From(k) = 0 /\ rec[k][id] # 0 => id \in input

\* A whole step has read what is alive above it, or that is newer than its marker.
ReadInv ==
    grew => \A k \in 1..N : ~Each(k) /\ From(k) # 0 /\ mark[k] # 0 =>
        \A id \in Alive[From(k)] :
            Stamp(From(k), id) <= mark[k] => <<id, Stamp(From(k), id)>> \in readAll[k]

\* In mapRecords: what is fresh, what is in somebody's hands, and what failed.
MapInv ==
    pc \in {"map", "drain"} =>
        /\ todo \cup flying \cup now \subseteq Upstream
        /\ todo \cap flying = {} /\ now \cap (todo \cup (flying \ leaving)) = {}
        /\ \A id \in now : FreshSince(step, id)
        /\ ~partial => \A id \in Upstream :
              FreshSince(step, id) \/ id \in todo \cup (flying \ leaving) \cup failures

\* What was made in this step is handed on by it.
OutputInv ==
    pc = "output" => IF Each(step) THEN now \subseteq Output[step] ELSE now = {}

\* The steps that are over are up to date, the one that is about to be handed on too.
ProgressInv ==
    ~partial => /\ pc # "off" => \A k \in 1..(step - 1) : Current(k)
                /\ pc = "output" => Current(step)

\* A process that starts after one that ended well, on the same input and files, has
\* nothing to do.
QuietInv ==
    settled => /\ pc \in {"off", "plan", "output"} /\ ~partial
               /\ \A k \in 1..N : Current(k)
               /\ pc # "off" => calls = 0

\* What is printed is the result, each record of it once.
PrintInv ==
    /\ printed \in [Id -> 0..1]
    /\ pc # "off" => \A id \in Id :
          printed[id] = IF step = N /\ Each(step) /\ pc \in {"map", "drain", "output"} /\ id \in now THEN 1 ELSE 0
    /\ pc = "off" /\ settled => \A id \in Id : printed[id] = IF id \in Output[N] THEN 1 ELSE 0

\* A file is as it was, or deleted, or newer than everything before.
DiskMoves ==
    \A k \in 1..N, id \in Id : \/ rec'[k][id] = rec[k][id]
                               \/ rec'[k][id] = 0
                               \/ rec'[k][id] > clock

LEMMA FromBelow ==
    ASSUME WellFormed, NEW k \in 1..N
    PROVE  From(k) \in 0..(k - 1) /\ From(k) \in 0..N /\ (From(k) # 0 => From(k) \in 1..N)
BY DEF WellFormed, From

\* What a step hands on depends on the files of the steps up to it.
LEMMA OutputFrame ==
    ASSUME Types, UNCHANGED <<flow, input>>, NEW n \in 0..N,
           \A k \in 1..n, id \in Id : rec'[k][id] = rec[k][id]
    PROVE  \A k \in 0..n : Output'[k] = Output[k]
<1>1. /\ Output \in [0..N -> SUBSET Id] /\ Output[0] = input
      /\ \A k \in 1..N : Output[k] = HandsOn(k)
  BY OutputUnfolds DEF Types
<1>2. /\ WellFormed' /\ N' = N /\ N \in Nat /\ n \in Nat
      /\ \A k : Each(k)' = Each(k) /\ From(k)' = From(k)
  BY SameFlow DEF Types, WellFormed
<1>3. (WellFormed /\ input \in SUBSET Id =>
         /\ Output \in [0..N -> SUBSET Id] /\ Output[0] = input
         /\ \A k \in 1..N : Output[k] = HandsOn(k))'
  BY OutputUnfolds, PTL
<1>4. /\ Output' \in [0..N -> SUBSET Id] /\ Output'[0] = input
      /\ \A k \in 1..N : Output'[k] = HandsOn(k)'
  BY <1>2, <1>3 DEF Types
<1> DEFINE M == {k \in 0..n : Output'[k] = Output[k]}
<1>5. 0 \in M
  BY <1>1, <1>2, <1>4
<1>6. ASSUME NEW k \in 1..n, \A j \in 0..(k - 1) : j \in M PROVE k \in M
  <2>1. k \in 1..N /\ From(k) \in 0..(k - 1) /\ From(k) \in 0..N
    BY <1>2, FromBelow DEF Types
  <2>2. Output'[From(k)] = Output[From(k)]
    BY <1>6, <2>1
  <2>3. \A id \in Id : rec'[k][id] = rec[k][id]
    OBVIOUS
  <2>4. Output[From(k)] \in SUBSET Id
    BY <1>1, <2>1
  <2>5. HandsOn(k)' = {id \in IF Each(k) THEN Output'[From(k)] ELSE Id : rec'[k][id] # 0}
    BY <1>2 DEF HandsOn
  <2>6. HandsOn(k)' = HandsOn(k)
    BY <2>2, <2>3, <2>4, <2>5 DEF HandsOn
  <2>7. Output'[k] = Output[k]
    BY <1>1, <1>4, <2>1, <2>6
  <2> QED
    BY <2>7
<1>7. \A k \in 0..n : k \in M
  <2> HIDE DEF M
  <2> QED
    BY <1>2, <1>5, <1>6, UpTo
<1> QED
  BY <1>7

\* When files move, nothing comes alive but by being newer than everything before.
LEMMA AliveMoves ==
    ASSUME Types, Types', flow' = flow, DiskMoves
    PROVE  \A k \in 0..N, id \in Id :
             id \in Alive'[k] => id \in Alive[k] \/ (k # 0 /\ rec'[k][id] > clock)
<1>1. /\ Alive \in [0..N -> SUBSET Id] /\ Alive[0] = Id
      /\ \A k \in 1..N, id \in Id :
           id \in Alive[k] <=> Fresh(k, id) /\ (Each(k) => id \in Alive[From(k)])
  BY AliveUnfolds DEF Types
<1>2. /\ WellFormed' /\ N' = N /\ N \in Nat /\ WellFormed
      /\ \A k : Each(k)' = Each(k) /\ From(k)' = From(k)
  BY SameFlow DEF Types, WellFormed
<1>3. (WellFormed =>
         /\ Alive \in [0..N -> SUBSET Id] /\ Alive[0] = Id
         /\ \A k \in 1..N, id \in Id :
              id \in Alive[k] <=> Fresh(k, id) /\ (Each(k) => id \in Alive[From(k)]))'
  BY AliveUnfolds, PTL
<1>4. \A k \in 1..N, id \in Id :
        id \in Alive'[k] <=> Fresh(k, id)' /\ (Each(k) => id \in Alive'[From(k)])
  BY <1>2, <1>3
<1> DEFINE Kept(k) == \A id \in Id : id \in Alive'[k] => id \in Alive[k] \/ (k # 0 /\ rec'[k][id] > clock)
           M == {k \in 0..N : Kept(k)}
<1>5. 0 \in M
  BY <1>1, <1>2
<1>6. ASSUME NEW k \in 1..N, \A j \in 0..(k - 1) : j \in M PROVE k \in M
  <2>1. From(k) \in 0..(k - 1) /\ (From(k) # 0 => From(k) \in 1..N) /\ k \in 0..N
    BY <1>2, FromBelow
  <2>2. Kept(From(k))
    BY <1>6, <2>1
  <2>3. ASSUME NEW id \in Id, id \in Alive'[k], ~(rec'[k][id] > clock) PROVE id \in Alive[k]
    <3>1. Fresh(k, id)' /\ (Each(k) => id \in Alive'[From(k)])
      BY <1>4, <2>3
    <3>2. rec'[k][id] # 0 /\ rec'[k][id] = rec[k][id]
      BY <2>3, <3>1 DEF Fresh, DiskMoves
    <3>3. rec[k][id] \in 0..clock /\ clock \in Nat
      BY DEF Types
    <3>4. CASE ~Each(k)
      BY <1>1, <3>2, <3>4 DEF Fresh
    <3>5. CASE Each(k)
      <4>1. rec'[k][id] >= Stamp(From(k), id)'
        BY <1>2, <3>1, <3>5 DEF Fresh
      <4>2. id \in Alive[From(k)] \/ (From(k) # 0 /\ rec'[From(k)][id] > clock)
        BY <2>2, <3>1, <3>5
      <4>3. From(k) # 0 => Stamp(From(k), id)' = rec'[From(k)][id]
        BY <1>2 DEF Stamp
      <4>4. ~(From(k) # 0 /\ rec'[From(k)][id] > clock)
        <5> SUFFICES ASSUME From(k) # 0, rec'[From(k)][id] > clock PROVE FALSE
          OBVIOUS
        <5>1. rec[k][id] >= rec'[From(k)][id]
          BY <3>2, <4>1, <4>3
        <5>2. rec'[From(k)][id] \in Nat
          BY <1>2, <2>1 DEF Types
        <5> QED
          BY <3>3, <5>1, <5>2
      <4>5. rec[k][id] >= Stamp(From(k), id)
        <5>1. CASE From(k) = 0
          BY <3>3, <5>1 DEF Stamp
        <5>2. CASE From(k) # 0
          <6>1. rec'[From(k)][id] # 0
            BY <1>4, <2>1, <3>1, <3>5, <5>2 DEF Fresh
          <6>2. rec'[From(k)][id] = rec[From(k)][id]
            BY <2>1, <4>4, <5>2, <6>1 DEF DiskMoves
          <6> QED
            BY <3>2, <4>1, <4>3, <5>2, <6>2 DEF Stamp
        <5> QED
          BY <5>1, <5>2
      <4>6. id \in Alive[From(k)]
        BY <4>2, <4>4
      <4> QED
        BY <1>1, <3>2, <3>5, <4>5, <4>6 DEF Fresh
    <3> QED
      BY <3>4, <3>5
  <2>4. Kept(k)
    BY <2>3
  <2> QED
    BY <2>1, <2>4
<1>7. \A k \in 0..N : k \in M
  <2> HIDE DEF M
  <2> QED
    BY <1>2, <1>5, <1>6, UpTo
<1> QED
  BY <1>7

-----------------------------------------------------------------------------
(* The files.                                                              *)

Deletes == (\E id \in Id : RemoveOne(id)) \/ Edit

\* Most steps write nothing.
LEMMA NextWrites ==
    ASSUME [Next]_vars
    PROVE  /\ flow' = flow
           /\ \/ StillDisk
              \/ \E id \in Id : RunSucceeds(id) \/ WriteOne(id)
              \/ Deletes
              \/ Mark
<1>1. CASE Stops
  BY <1>1, StopsEnd DEF Ends
<1>2. CASE Start \/ PlanEach \/ PlanWhole \/ StopStarting \/ MapEnds \/ Interrupt \/ Make \/ HandOn
  BY <1>2 DEF Start, PlanEach, PlanWhole, StopStarting, MapEnds, Interrupt, Make, HandOn, StillDisk, disk, history, bounds
<1>3. ASSUME NEW id \in Id, StartOne(id) \/ RunFails(id) \/ Leave(id)
      PROVE  flow' = flow /\ StillDisk
  BY <1>3 DEF StartOne, RunFails, Leave, StillDisk, disk, history, bounds
<1>4. CASE UNCHANGED vars
  BY <1>4 DEF vars, StillDisk, disk, history, bounds
<1>5. ASSUME NEW id \in Id, RunSucceeds(id) \/ WriteOne(id) \/ RemoveOne(id) \/ Mark \/ Edit
      PROVE  flow' = flow
  BY <1>5 DEF RunSucceeds, WriteOne, RemoveOne, Mark, Edit, bounds
<1>6. CASE Mark \/ Edit
  BY <1>5, <1>6, FlowAssumption DEF Deletes
<1> QED
  BY <1>1, <1>2, <1>3, <1>4, <1>5, <1>6 DEF Next, Main, Stops, Goroutine, Deletes

LEMMA DeletesDelete ==
    ASSUME TypesInv, Deletes
    PROVE  /\ \A k \in 1..N, id \in Id : rec'[k][id] \in {0, rec[k][id]}
           /\ \A k \in 1..N : mark'[k] \in {0, mark[k]}
           /\ UNCHANGED <<madeFrom, readAll, grew, input, clock>>
<1>1. rec' = rec \/ \E k \in 1..N, id \in Id : rec' = [rec EXCEPT ![k][id] = 0]
  BY DEF Deletes, RemoveOne, Edit, TypesInv, Types, WellFormed
<1>2. mark' = mark \/ \E k \in 1..N : mark' = [mark EXCEPT ![k] = 0]
  BY DEF Deletes, RemoveOne, Edit, TypesInv, Types, WellFormed
<1>3. rec \in [1..N -> [Id -> 0..clock]] /\ mark \in [1..N -> 0..clock]
  BY DEF TypesInv, Types
<1>4. UNCHANGED <<madeFrom, readAll, grew, input, clock>>
  BY DEF Deletes, RemoveOne, Edit, process, history
<1>5. \A k \in 1..N, id \in Id : rec'[k][id] \in {0, rec[k][id]}
  BY <1>1, <1>3
<1>6. \A k \in 1..N : mark'[k] \in {0, mark[k]}
  BY <1>2, <1>3
<1> QED
  BY <1>4, <1>5, <1>6

\* The one record a run or a whole step writes.
LEMMA OneIsWritten ==
    ASSUME TypesInv, NEW id \in Id, RunSucceeds(id) \/ WriteOne(id)
    PROVE  /\ rec'[step][id] = clock + 1
           /\ \A k \in 1..N, i \in Id : k # step \/ i # id => rec'[k][i] = rec[k][i]
           /\ UNCHANGED <<mark, readAll, grew, input, step, pc, partial, settled>>
<1>1. rec' = [rec EXCEPT ![step][id] = clock + 1]
  BY DEF RunSucceeds, WriteOne
<1>2. rec \in [1..N -> [Id -> 0..clock]] /\ step \in 1..N
  BY DEF TypesInv, Types
<1>3. UNCHANGED <<mark, readAll, grew, input, step, pc, partial, settled>>
  BY DEF RunSucceeds, WriteOne, history
<1> QED
  BY <1>1, <1>2, <1>3

LEMMA FilesMove ==
    ASSUME TypesInv, [Next]_vars
    PROVE  flow' = flow /\ DiskMoves
<1>1. clock \in Nat /\ flow' = flow
  BY NextWrites DEF TypesInv, Types
<1>2. CASE StillDisk \/ Mark
  BY <1>1, <1>2 DEF StillDisk, Mark, DiskMoves
<1>3. CASE Deletes
  BY <1>1, <1>3, DeletesDelete DEF DiskMoves
<1>4. ASSUME NEW id \in Id, RunSucceeds(id) \/ WriteOne(id) PROVE DiskMoves
  BY <1>1, <1>4, OneIsWritten DEF DiskMoves
<1> QED
  BY <1>1, <1>2, <1>3, <1>4, NextWrites

-----------------------------------------------------------------------------
(* What a record was made from.                                            *)

\* A record that is not there as before was made from what there is now.
Remade ==
    \A k \in 1..N, id \in Id : Each(k) /\ rec'[k][id] # 0 =>
        \/ rec'[k][id] = rec[k][id] /\ madeFrom'[k][id] = madeFrom[k][id]
        \/ madeFrom'[k][id] = Stamp(From(k), id)'

LEMMA RunRemakes ==
    ASSUME TypesInv, NEW id \in Id, RunSucceeds(id)
    PROVE  Remade
<1>1. /\ \A k \in 1..N, i \in Id : k # step \/ i # id => rec'[k][i] = rec[k][i]
      /\ madeFrom' = [madeFrom EXCEPT ![step][id] = Stamp(st.from, id)]
      /\ flow' = flow
  BY OneIsWritten DEF RunSucceeds, bounds
<1>2. madeFrom \in [1..N -> [Id -> 0..clock]] /\ step \in 1..N
  BY DEF TypesInv, Types
<1>3. \A k \in 1..N, i \in Id : k # step \/ i # id => madeFrom'[k][i] = madeFrom[k][i]
  BY <1>1, <1>2
<1>4. madeFrom'[step][id] = Stamp(From(step), id)
  BY <1>1, <1>2 DEF st, From
<1>5. From(step) # 0 => rec'[From(step)][id] = rec[From(step)][id]
  <2>1. From(step) \in 0..(step - 1) /\ (From(step) # 0 => From(step) \in 1..N)
    BY <1>2, FromBelow DEF TypesInv, Types
  <2> QED
    BY <1>1, <1>2, <2>1
<1>6. \A k : From(k)' = From(k)
  BY <1>1, SameFlow
<1>7. ASSUME NEW k \in 1..N, NEW i \in Id, rec'[k][i] # 0
      PROVE  \/ rec'[k][i] = rec[k][i] /\ madeFrom'[k][i] = madeFrom[k][i]
             \/ madeFrom'[k][i] = Stamp(From(k), i)'
  <2>1. CASE k # step \/ i # id
    BY <1>1, <1>3, <2>1
  <2>2. CASE k = step /\ i = id
    <3>1. Stamp(From(k), i)' = Stamp(From(step), id)
      BY <1>5, <1>6, <2>2 DEF Stamp
    <3> QED
      BY <1>4, <2>2, <3>1
  <2> QED
    BY <2>1, <2>2
<1> QED
  BY <1>7 DEF Remade

LEMMA AllRemake ==
    ASSUME TypesInv, [Next]_vars
    PROVE  Remade
<1>1. CASE StillDisk \/ Mark
  BY <1>1 DEF StillDisk, Mark, Remade
<1>2. CASE Deletes
  BY <1>2, DeletesDelete DEF Remade
<1>3. ASSUME NEW id \in Id, WriteOne(id) PROVE Remade
  <2>1. ~Each(step) /\ madeFrom' = madeFrom
    BY <1>3 DEF WriteOne, history, TypesInv, Ways
  <2> QED
    BY <1>3, <2>1, OneIsWritten DEF Remade
<1> QED
  BY <1>1, <1>2, <1>3, RunRemakes, NextWrites

LEMMA MadeNext ==
    ASSUME TypesInv, MadeInv, [Next]_vars
    PROVE  MadeInv'
<1>1. DiskMoves /\ Remade /\ TypesInv' /\ N' = N /\ \A k : Each(k)' = Each(k) /\ From(k)' = From(k)
  BY FilesMove, AllRemake, TypesNext, SameFlow
<1>2. ASSUME NEW k \in 1..N, NEW id \in Id, Each(k), rec'[k][id] # 0
      PROVE  \/ madeFrom'[k][id] = Stamp(From(k), id)'
             \/ From(k) # 0 /\ Stamp(From(k), id)' = 0
             \/ Stamp(From(k), id)' > rec'[k][id]
  <2>1. CASE rec'[k][id] = rec[k][id] /\ madeFrom'[k][id] = madeFrom[k][id]
    <3>1. \/ madeFrom[k][id] = Stamp(From(k), id)
          \/ From(k) # 0 /\ Stamp(From(k), id) = 0
          \/ Stamp(From(k), id) > rec[k][id]
      BY <1>2, <2>1 DEF MadeInv
    <3>2. CASE From(k) = 0
      <4>1. Stamp(From(k), id)' = 0 /\ Stamp(From(k), id) = 0
        BY <1>1, <3>2 DEF Stamp
      <4> QED
        BY <2>1, <3>1, <3>2, <4>1
    <3>3. CASE From(k) # 0
      <4>1. From(k) \in 1..N
        BY <3>3, FromBelow DEF TypesInv, Types
      <4>2. Stamp(From(k), id)' = rec'[From(k)][id] /\ Stamp(From(k), id) = rec[From(k)][id]
        BY <1>1, <3>3 DEF Stamp
      <4>3. rec[k][id] \in 0..clock /\ clock \in Nat
        BY DEF TypesInv, Types
      <4>4. rec'[From(k)][id] \in Nat
        BY <1>1, <4>1 DEF TypesInv, Types
      <4>5. \/ rec'[From(k)][id] = rec[From(k)][id]
            \/ rec'[From(k)][id] = 0
            \/ rec'[From(k)][id] > clock
        BY <1>1, <4>1 DEF DiskMoves
      <4>6. CASE rec'[From(k)][id] = rec[From(k)][id]
        BY <2>1, <3>1, <4>2, <4>6
      <4>7. CASE rec'[From(k)][id] = 0
        BY <3>3, <4>2, <4>7
      <4>8. CASE rec'[From(k)][id] > clock
        BY <2>1, <4>2, <4>3, <4>4, <4>8
      <4> QED
        BY <4>5, <4>6, <4>7, <4>8
    <3> QED
      BY <3>2, <3>3
  <2> QED
    BY <1>1, <1>2, <2>1 DEF Remade
<1> QED
  BY <1>1, <1>2 DEF MadeInv

-----------------------------------------------------------------------------
(* What was read.                                                          *)

LEMMA NextInput ==
    ASSUME [Next]_vars
    PROVE  Start \/ UNCHANGED <<input, grew>>
<1>1. CASE Stops
  BY <1>1, StopsEnd DEF Ends
<1>2. CASE PlanEach \/ PlanWhole \/ StopStarting \/ MapEnds \/ Interrupt \/ Make \/ HandOn \/ Mark \/ Edit \/ UNCHANGED vars
  BY <1>2 DEF PlanEach, PlanWhole, StopStarting, MapEnds, Interrupt, Make, HandOn, Mark, Edit, vars, process, history
<1>3. ASSUME NEW id \in Id,
             StartOne(id) \/ RunSucceeds(id) \/ RunFails(id) \/ Leave(id) \/ WriteOne(id) \/ RemoveOne(id)
      PROVE  UNCHANGED <<input, grew>>
  BY <1>3 DEF StartOne, RunSucceeds, RunFails, Leave, WriteOne, RemoveOne, process, history
<1> QED
  BY <1>1, <1>2, <1>3 DEF Next, Main, Stops, Goroutine

\* A record that appears belongs to a step with for_each, and is in mapRecords, or to
\* one that is written as a whole.
LEMMA RunsAreInMap ==
    ASSUME TypesInv, NEW id \in Id, id \in flying
    PROVE  pc \in {"map", "drain"} /\ Each(step)
BY DEF TypesInv, Ways

LEMMA InputNext ==
    ASSUME TypesInv, InputInv, MapInv, [Next]_vars
    PROVE  InputInv'
<1>1. flow' = flow /\ N' = N /\ \A k : Each(k)' = Each(k) /\ From(k)' = From(k)
  BY FilesMove, SameFlow
<1>2. CASE Start
  <2>1. rec' = rec /\ grew' = (grew /\ input \subseteq input')
    BY <1>2 DEF Start, disk
  <2> QED
    BY <1>1, <2>1 DEF InputInv
<1>3. CASE UNCHANGED <<input, grew>> /\ \A k \in 1..N, id \in Id : Each(k) /\ rec'[k][id] # 0 => rec[k][id] # 0
  BY <1>1, <1>3 DEF InputInv
<1>4. CASE StillDisk
  BY <1>2, <1>3, <1>4, NextInput DEF StillDisk
<1>5. CASE Deletes
  BY <1>3, <1>5, DeletesDelete
<1>6. CASE Mark
  BY <1>3, <1>6 DEF Mark
<1>7. ASSUME NEW id \in Id, WriteOne(id) PROVE InputInv'
  <2>1. ~Each(step)
    BY <1>7 DEF WriteOne, TypesInv, Ways
  <2> QED
    BY <1>3, <1>7, <2>1, OneIsWritten
<1>8. ASSUME NEW id \in Id, RunSucceeds(id) PROVE InputInv'
  <2>1. /\ \A k \in 1..N, i \in Id : k # step \/ i # id => rec'[k][i] = rec[k][i]
        /\ UNCHANGED <<input, grew>>
    BY <1>8, OneIsWritten
  <2>2. id \in Upstream
    BY <1>8, RunsAreInMap DEF RunSucceeds, MapInv
  <2>3. From(step) = 0 => id \in input
    <3>1. Upstream = Output[From(step)] /\ Output[0] = input
      BY OutputUnfolds DEF TypesInv, Types, Upstream, From, st
    <3> QED
      BY <2>2, <3>1
  <2> QED
    BY <1>1, <2>1, <2>3 DEF InputInv
<1> QED
  BY <1>4, <1>5, <1>6, <1>7, <1>8, NextWrites

\* What is alive is handed on, when no process was given less input.
LEMMA AliveIsHandedOn ==
    ASSUME TypesInv, InputInv, grew, NEW k \in 1..N, NEW id \in Id, id \in Alive[k]
    PROVE  id \in Output[k]
<1>1. /\ WellFormed /\ N \in Nat
      /\ Output[0] = input /\ \A j \in 1..N : Output[j] = HandsOn(j)
  BY OutputUnfolds DEF TypesInv, Types, WellFormed
<1>2. \A j \in 1..N, i \in Id : i \in Alive[j] <=> Fresh(j, i) /\ (Each(j) => i \in Alive[From(j)])
  BY <1>1, AliveUnfolds
<1> DEFINE M == {j \in 0..N : j # 0 => \A i \in Id : i \in Alive[j] => i \in Output[j]}
<1>3. 0 \in M
  BY <1>1
<1>4. ASSUME NEW j \in 1..N, \A n \in 0..(j - 1) : n \in M PROVE j \in M
  <2>1. From(j) \in 0..(j - 1) /\ From(j) \in 0..N
    BY <1>1, FromBelow
  <2>2. ASSUME NEW i \in Id, i \in Alive[j] PROVE i \in Output[j]
    <3>1. rec[j][i] # 0 /\ (Each(j) => i \in Alive[From(j)])
      BY <1>2, <2>2 DEF Fresh
    <3>2. CASE ~Each(j)
      BY <1>1, <3>1, <3>2 DEF HandsOn
    <3>3. CASE Each(j) /\ From(j) = 0
      <4>1. i \in input
        BY <3>1, <3>3 DEF InputInv
      <4> QED
        BY <1>1, <3>1, <3>3, <4>1 DEF HandsOn
    <3>4. CASE Each(j) /\ From(j) # 0
      <4>1. i \in Output[From(j)]
        BY <1>4, <2>1, <3>1, <3>4
      <4>2. Output[From(j)] \in SUBSET Id
        BY <2>1, OutputUnfolds DEF TypesInv, Types, WellFormed
      <4> QED
        BY <1>1, <3>1, <3>4, <4>1 DEF HandsOn
    <3> QED
      BY <3>2, <3>3, <3>4
  <2> QED
    BY <2>2
<1>5. \A j \in 0..N : j \in M
  <2> HIDE DEF M
  <2> QED
    BY <1>1, <1>3, <1>4, UpTo
<1> QED
  BY <1>5

\* As long as no marker is written, what was read stays as true as it was.
LEMMA ReadMoves ==
    ASSUME TypesInv, ReadInv, [Next]_vars, readAll' = readAll, grew' => grew,
           \A k \in 1..N : mark'[k] \in {0, mark[k]}
    PROVE  ReadInv'
<1>1. DiskMoves /\ TypesInv' /\ flow' = flow /\ N' = N /\ \A k : Each(k)' = Each(k) /\ From(k)' = From(k)
  BY FilesMove, TypesNext, SameFlow
<1>2. \A k \in 0..N, id \in Id : id \in Alive'[k] => id \in Alive[k] \/ (k # 0 /\ rec'[k][id] > clock)
  BY <1>1, AliveMoves DEF TypesInv
<1>3. /\ \A k \in 0..N : Alive'[k] \in SUBSET Id
      /\ \A k \in 1..N, id \in Id : id \in Alive'[k] => rec'[k][id] # 0
  <2>1. (WellFormed =>
           /\ Alive \in [0..N -> SUBSET Id]
           /\ Alive[0] = Id
           /\ \A k \in 1..N, id \in Id :
                id \in Alive[k] <=> Fresh(k, id) /\ (Each(k) => id \in Alive[From(k)]))'
    BY AliveUnfolds, PTL
  <2> QED
    BY <1>1, <2>1 DEF TypesInv, Types, Fresh
<1>4. ASSUME grew', NEW k \in 1..N, ~Each(k), From(k) # 0, mark'[k] # 0,
             NEW id \in Id, id \in Alive'[From(k)], Stamp(From(k), id)' <= mark'[k]
      PROVE  <<id, Stamp(From(k), id)'>> \in readAll'[k]
  <2>1. mark'[k] = mark[k] /\ mark[k] \in 0..clock /\ clock \in Nat /\ From(k) \in 1..N /\ From(k) \in 0..N
    BY <1>4, FromBelow DEF TypesInv, Types
  <2>2. Stamp(From(k), id)' = rec'[From(k)][id] /\ Stamp(From(k), id) = rec[From(k)][id]
    BY <1>1, <1>4 DEF Stamp
  <2>3. rec'[From(k)][id] \in Nat
    BY <1>1, <2>1 DEF TypesInv, Types
  <2>4. ~(rec'[From(k)][id] > clock)
    BY <1>4, <2>1, <2>2, <2>3
  <2>5. id \in Alive[From(k)]
    BY <1>2, <1>4, <2>1, <2>4
  <2>6. rec'[From(k)][id] # 0
    <3>1. (rec[From(k)][id])' # 0
      BY <1>1, <1>4, <2>1, <1>3
    <3> QED
      BY <1>1, <3>1
  <2>7. rec'[From(k)][id] = rec[From(k)][id]
    BY <1>1, <2>1, <2>4, <2>6 DEF DiskMoves
  <2>8. <<id, Stamp(From(k), id)>> \in readAll[k]
    BY <1>4, <2>1, <2>2, <2>5, <2>7 DEF ReadInv
  <2> QED
    BY <2>2, <2>7, <2>8
<1>5. \A k \in 1..N : From(k) \in 0..N
  BY FromBelow DEF TypesInv, Types
<1> QED
  BY <1>1, <1>3, <1>4, <1>5 DEF ReadInv

\* The marker is written after everything has been read.
LEMMA ReadMark ==
    ASSUME TypesInv, ReadInv, InputInv, Mark
    PROVE  ReadInv'
<1>1. /\ rec' = rec /\ flow' = flow /\ grew' = grew
      /\ mark' = [mark EXCEPT ![step] = clock + 1] /\ readAll' = [readAll EXCEPT ![step] = Reads]
  BY DEF Mark, bounds
<1>2. TypesInv' /\ N' = N /\ \A k : Each(k)' = Each(k) /\ From(k)' = From(k)
  BY <1>1, TypesMark, SameFlow
<1>3. DiskMoves /\ rec \in [1..N -> [Id -> 0..clock]] /\ clock \in Nat
  BY <1>1 DEF DiskMoves, TypesInv, Types
<1>4. \A k \in 0..N, id \in Id : id \in Alive'[k] => id \in Alive[k] \/ (k # 0 /\ rec'[k][id] > clock)
  BY <1>1, <1>2, <1>3, AliveMoves DEF TypesInv
<1>5. \A k \in 0..N : Alive'[k] \in SUBSET Id
  <2>1. (WellFormed =>
           /\ Alive \in [0..N -> SUBSET Id]
           /\ Alive[0] = Id
           /\ \A k \in 1..N, id \in Id :
                id \in Alive[k] <=> Fresh(k, id) /\ (Each(k) => id \in Alive[From(k)]))'
    BY AliveUnfolds, PTL
  <2> QED
    BY <1>2, <2>1 DEF TypesInv, Types
<1>6. ASSUME grew, NEW k \in 1..N, ~Each(k), From(k) # 0, mark'[k] # 0,
             NEW id \in Id, id \in Alive'[From(k)], Stamp(From(k), id)' <= mark'[k]
      PROVE  <<id, Stamp(From(k), id)'>> \in readAll'[k]
  <2>1. From(k) \in 1..N /\ From(k) \in 0..N
    BY <1>6, FromBelow DEF TypesInv, Types
  <2>2. Stamp(From(k), id)' = Stamp(From(k), id)
    BY <1>1, <1>2 DEF Stamp
  <2>3. id \in Alive[From(k)]
    BY <1>1, <1>3, <1>4, <1>6, <2>1
  <2>4. CASE k = step
    <3>1. id \in Output[From(k)]
      BY <1>6, <2>1, <2>3, AliveIsHandedOn
    <3>2. <<id, Stamp(From(k), id)>> \in Reads
      BY <2>4, <3>1 DEF Reads, Upstream, st, From
    <3>3. readAll'[step] = Reads
      BY <1>1 DEF TypesInv, Types
    <3> QED
      BY <2>2, <2>4, <3>2, <3>3
  <2>5. CASE k # step
    <3>1. mark'[k] = mark[k] /\ readAll'[k] = readAll[k]
      BY <1>1, <2>5 DEF TypesInv, Types
    <3> QED
      BY <1>6, <2>2, <2>3, <3>1 DEF ReadInv
  <2> QED
    BY <2>4, <2>5
<1>7. \A k \in 1..N : From(k) \in 0..N
  BY FromBelow DEF TypesInv, Types
<1> QED
  BY <1>1, <1>2, <1>5, <1>6, <1>7 DEF ReadInv

LEMMA ReadNext ==
    ASSUME TypesInv, ReadInv, InputInv, [Next]_vars
    PROVE  ReadInv'
<1>1. grew' => grew
  BY NextInput DEF Start
<1>2. CASE StillDisk
  BY <1>1, <1>2, ReadMoves DEF StillDisk
<1>3. CASE Deletes
  BY <1>1, <1>3, DeletesDelete, ReadMoves
<1>4. ASSUME NEW id \in Id, RunSucceeds(id) \/ WriteOne(id) PROVE ReadInv'
  BY <1>1, <1>4, OneIsWritten, ReadMoves
<1>5. CASE Mark
  BY <1>5, ReadMark
<1> QED
  BY <1>2, <1>3, <1>4, <1>5, NextWrites

-----------------------------------------------------------------------------
(* mapRecords.                                                             *)

\* The steps above do not move while a step is at work.
LEMMA UpstreamFrame ==
    ASSUME TypesInv, UNCHANGED <<flow, input, step>>,
           \A k \in 1..N, id \in Id : k < step => rec'[k][id] = rec[k][id]
    PROVE  Upstream' = Upstream /\ \A id \in Id : Stamp(st.from, id)' = Stamp(st.from, id)
<1>1. /\ step \in 1..N /\ N \in Nat /\ st.from = From(step)
      /\ From(step) \in 0..(step - 1) /\ (From(step) # 0 => From(step) \in 1..N)
  BY FromBelow DEF TypesInv, Types, WellFormed, st, From
<1>2. \A k \in 0..(step - 1) : Output'[k] = Output[k]
  <2>1. step - 1 \in 0..N /\ \A k \in 1..(step - 1) : k \in 1..N /\ k < step
    BY <1>1
  <2> QED
    BY <2>1, OutputFrame DEF TypesInv
<1>3. st' = st
  BY DEF st, steps
<1>4. Upstream' = Upstream
  BY <1>1, <1>2, <1>3 DEF Upstream
<1>5. From(step) # 0 => \A id \in Id : rec'[From(step)][id] = rec[From(step)][id]
  BY <1>1
<1> QED
  BY <1>1, <1>3, <1>4, <1>5 DEF Stamp

LEMMA MapStill ==
    ASSUME TypesInv, MapInv, UNCHANGED <<flow, input, step, rec>>,
           pc' \in {"map", "drain"} => pc \in {"map", "drain"},
           now' = now, partial' = partial, flying' \ leaving' = flying \ leaving,
           todo' = todo, flying' \subseteq flying, failures' = failures
    PROVE  MapInv'
<1>1. Upstream' = Upstream
  BY UpstreamFrame
<1>2. \A id : FreshSince(step, id)' = FreshSince(step, id)
  BY DEF FreshSince, Stamp, steps
<1> QED
  BY <1>1, <1>2 DEF MapInv

LEMMA MapPlans ==
    ASSUME TypesInv, PlanEach
    PROVE  MapInv'
<1>1. UNCHANGED <<flow, input, step, rec, flying>> /\ now' = {} /\ failures' = {} /\ flying = {}
  BY DEF PlanEach, bounds, disk, TypesInv, Ways
<1>2. Upstream' = Upstream
  BY <1>1, UpstreamFrame
<1>3. \A id : FreshSince(step, id)' = FreshSince(step, id)
  BY <1>1 DEF FreshSince, Stamp, steps
<1>4. /\ todo' \subseteq {id \in Upstream : ~FreshSince(step, id)}
      /\ ~partial' => todo' = {id \in Upstream : ~FreshSince(step, id)}
  BY DEF PlanEach
<1> QED
  BY <1>1, <1>2, <1>3, <1>4 DEF MapInv

LEMMA MapStartOne ==
    ASSUME TypesInv, MapInv, NEW id \in Id, StartOne(id)
    PROVE  MapInv'
<1>1. /\ UNCHANGED <<flow, input, step, rec, pc, leaving, failures, now, partial>>
      /\ id \in todo /\ todo' = todo \ {id} /\ flying' = flying \cup {id} /\ pc = "map"
  BY DEF StartOne, bounds, disk
<1>2. Upstream' = Upstream
  BY <1>1, UpstreamFrame
<1>3. \A i : FreshSince(step, i)' = FreshSince(step, i)
  BY <1>1 DEF FreshSince, Stamp, steps
<1>4. leaving \in SUBSET flying
  BY DEF TypesInv, Types
<1> QED
  BY <1>1, <1>2, <1>3, <1>4 DEF MapInv

LEMMA MapRunSucceeds ==
    ASSUME TypesInv, MapInv, NEW id \in Id, RunSucceeds(id)
    PROVE  MapInv'
<1>1. /\ UNCHANGED <<flow, input, step, pc, todo, flying, failures, partial>>
      /\ id \in flying \ leaving /\ leaving' = leaving \cup {id} /\ now' = now \cup {id}
      /\ rec'[step][id] = clock + 1
      /\ \A k \in 1..N, i \in Id : k # step \/ i # id => rec'[k][i] = rec[k][i]
  BY OneIsWritten DEF RunSucceeds, bounds
<1>2. step \in 1..N /\ clock \in Nat /\ st.from \in 0..N /\ rec \in [1..N -> [Id -> 0..clock]]
  BY DEF TypesInv, Types, WellFormed, st
<1>3. Upstream' = Upstream /\ \A i \in Id : Stamp(st.from, i)' = Stamp(st.from, i)
  <2>1. \A k \in 1..N, i \in Id : k < step => rec'[k][i] = rec[k][i]
    BY <1>1, <1>2
  <2> QED
    BY <1>1, <2>1, UpstreamFrame
<1>4. \A i : FreshSince(step, i)' <=> rec'[step][i] # 0 /\ rec'[step][i] >= Stamp(st.from, i)'
  BY <1>1 DEF FreshSince, st
<1>5. \A i : FreshSince(step, i) <=> rec[step][i] # 0 /\ rec[step][i] >= Stamp(st.from, i)
  BY DEF FreshSince, st
<1>6. FreshSince(step, id)'
  <2>1. Stamp(st.from, id) \in 0..clock
    BY <1>2 DEF Stamp
  <2> QED
    BY <1>1, <1>2, <1>3, <1>4, <2>1
<1>7. \A i \in Id : i # id => (FreshSince(step, i)' <=> FreshSince(step, i))
  BY <1>1, <1>2, <1>3, <1>4, <1>5
<1>8. Upstream \in SUBSET Id /\ now \in SUBSET Id /\ pc \in {"map", "drain"}
  BY <1>1, ReadsAreTyped, RunsAreInMap DEF TypesInv, Types
<1>9. \A i \in now' : FreshSince(step, i)'
  BY <1>1, <1>6, <1>7, <1>8 DEF MapInv
<1>10. ~partial' => \A i \in Upstream' : FreshSince(step, i)' \/ i \in (todo \cup (flying \ leaving) \cup failures)'
  BY <1>1, <1>3, <1>6, <1>7, <1>8 DEF MapInv
<1> QED
  BY <1>1, <1>3, <1>8, <1>9, <1>10 DEF MapInv

LEMMA MapRunFails ==
    ASSUME TypesInv, MapInv, NEW id \in Id, RunFails(id)
    PROVE  MapInv'
<1>1. /\ UNCHANGED <<flow, input, step, rec, pc, todo, flying, now, partial>>
      /\ id \in flying \ leaving /\ leaving' = leaving \cup {id} /\ failures' = failures \cup {id}
  BY DEF RunFails, bounds
<1>2. Upstream' = Upstream
  BY <1>1, UpstreamFrame
<1>3. \A i : FreshSince(step, i)' = FreshSince(step, i)
  BY <1>1 DEF FreshSince, Stamp, steps
<1> QED
  BY <1>1, <1>2, <1>3 DEF MapInv

LEMMA MapNext ==
    ASSUME TypesInv, MapInv, [Next]_vars
    PROVE  MapInv'
<1>1. CASE pc' \notin {"map", "drain"}
  BY <1>1 DEF MapInv
<1>2. CASE Start \/ PlanWhole \/ MapEnds \/ Make \/ Mark \/ HandOn \/ Stops
  <2>1. CASE Stops
    BY <1>1, <2>1, StopsEnd DEF Ends, Gone
  <2> QED
    BY <1>1, <1>2, <2>1 DEF Start, PlanWhole, MapEnds, Make, Mark, HandOn
<1>3. CASE PlanEach
  BY <1>3, MapPlans
<1>4. CASE StopStarting \/ Interrupt \/ UNCHANGED vars
  <2>1. /\ UNCHANGED <<flow, input, step, rec, now, partial, flying, leaving, todo, failures>>
        /\ pc' \in {"map", "drain"} => pc \in {"map", "drain"}
    BY <1>4 DEF StopStarting, Interrupt, vars, process, disk, bounds
  <2> QED
    BY <2>1, MapStill
<1>5. CASE Deletes
  <2>1. pc' = pc /\ pc \notin {"map", "drain"}
    BY <1>5 DEF Deletes, RemoveOne, Edit
  <2> QED
    BY <1>1, <2>1
<1>6. ASSUME NEW id \in Id, Goroutine(id) PROVE MapInv'
  <2>1. CASE Leave(id)
    <3>1. /\ UNCHANGED <<flow, input, step, rec, pc, now, partial, todo, failures>>
          /\ flying' \ leaving' = flying \ leaving /\ flying' \subseteq flying
      BY <2>1 DEF Leave, disk, bounds
    <3> QED
      BY <3>1, MapStill
  <2> QED
    BY <1>6, <2>1, MapStartOne, MapRunSucceeds, MapRunFails DEF Goroutine
<1>7. ASSUME NEW id \in Id, WriteOne(id) PROVE MapInv'
  BY <1>1, <1>7 DEF WriteOne
<1> QED
  BY <1>2, <1>3, <1>4, <1>5, <1>6, <1>7 DEF Next, Main, Stops, Deletes

-----------------------------------------------------------------------------
(* What is handed on, and how far the process is.                          *)

LEMMA MadeIsHandedOn ==
    ASSUME TypesInv, MapInv, pc \in {"map", "drain"}
    PROVE  Each(step) /\ now \subseteq Output[step]
<1>1. Each(step) /\ step \in 1..N
  BY DEF TypesInv, Types, Ways
<1>2. Output[step] = HandsOn(step)
  BY <1>1, OutputUnfolds DEF TypesInv, Types
<1>3. HandsOn(step) = {id \in Upstream : rec[step][id] # 0}
  BY <1>1 DEF HandsOn, Upstream, From, st
<1> QED
  BY <1>1, <1>2, <1>3 DEF MapInv, FreshSince

LEMMA OutputStill ==
    ASSUME TypesInv, UNCHANGED <<flow, input, rec>>
    PROVE  \A k \in 0..N : Output'[k] = Output[k]
<1>1. N \in 0..N
  BY DEF TypesInv, Types, WellFormed
<1> QED
  BY <1>1, OutputFrame DEF TypesInv

LEMMA OutputNext ==
    ASSUME TypesInv, MapInv, OutputInv, [Next]_vars
    PROVE  OutputInv'
<1>1. CASE pc' # "output"
  BY <1>1 DEF OutputInv
<1>2. CASE now' = {}
  BY <1>2 DEF OutputInv
<1>3. CASE UNCHANGED <<flow, input, rec, step, now>> /\ (pc = "output" \/ MapEnds)
  <2>1. step \in 0..N /\ UNCHANGED <<flow, input, rec>>
    BY <1>3 DEF TypesInv, Types, WellFormed
  <2>2. \A k \in 0..N : Output'[k] = Output[k]
    BY <2>1, OutputStill
  <2>3. Each(step)' = Each(step) /\ Output'[step'] = Output[step]
    BY <1>3, <2>1, <2>2 DEF Each, steps
  <2>4. CASE pc = "output"
    BY <1>3, <2>3, <2>4 DEF OutputInv
  <2>5. CASE MapEnds
    <3>1. pc \in {"map", "drain"}
      BY <2>5 DEF MapEnds, Drained
    <3> QED
      BY <1>3, <2>3, <3>1, MadeIsHandedOn DEF OutputInv
  <2> QED
    BY <1>3, <2>4, <2>5
<1>4. CASE PlanEach \/ PlanWhole \/ Mark
  BY <1>2, <1>4 DEF PlanEach, PlanWhole, Mark
<1>5. CASE Start \/ StopStarting \/ Make \/ HandOn \/ Edit
  BY <1>1, <1>5 DEF Start, StopStarting, Make, HandOn, Edit
<1>6. CASE Stops
  BY <1>1, <1>6, StopsEnd DEF Ends, Gone
<1>7. CASE MapEnds \/ Interrupt \/ UNCHANGED vars
  <2>1. UNCHANGED <<flow, input, rec, step, now>> /\ (pc' = "output" => pc = "output" \/ MapEnds)
    BY <1>7 DEF MapEnds, Interrupt, vars, process, disk, bounds
  <2> QED
    BY <1>1, <1>3, <2>1
<1>8. ASSUME NEW id \in Id, WriteOne(id) \/ RemoveOne(id) \/ Goroutine(id) PROVE OutputInv'
  <2>1. CASE StartOne(id) \/ WriteOne(id) \/ RemoveOne(id)
    BY <1>1, <2>1 DEF StartOne, WriteOne, RemoveOne
  <2>2. CASE RunSucceeds(id) \/ RunFails(id) \/ Leave(id)
    <3>1. pc' = pc /\ id \in flying
      BY <2>2 DEF RunSucceeds, RunFails, Leave, TypesInv, Types
    <3> QED
      BY <1>1, <3>1, RunsAreInMap
  <2> QED
    BY <1>8, <2>1, <2>2 DEF Goroutine
<1> QED
  BY <1>4, <1>5, <1>6, <1>7, <1>8 DEF Next, Main, Stops

\* A step is as up to date as it was when no file of it, or of one above it, moves.
LEMMA CurrentFrame ==
    ASSUME TypesInv, UNCHANGED <<flow, input>>, NEW k \in 1..N, mark'[k] = mark[k],
           \A j \in 1..k, id \in Id : rec'[j][id] = rec[j][id]
    PROVE  Current(k)' <=> Current(k)
<1>1. /\ k \in 0..N /\ From(k) \in 0..k /\ From(k) \in 0..N /\ (From(k) # 0 => From(k) \in 1..k)
      /\ From(k)' = From(k) /\ Each(k)' = Each(k)
  BY SameFlow, FromBelow DEF TypesInv, Types, WellFormed
<1>2. Output'[From(k)] = Output[From(k)] /\ Output[From(k)] \in SUBSET Id
  <2>1. \A j \in 0..k : Output'[j] = Output[j]
    BY <1>1, OutputFrame DEF TypesInv
  <2> QED
    BY <1>1, <2>1, OutputUnfolds DEF TypesInv, Types
<1>3. \A id \in Id : Stamp(From(k), id)' = Stamp(From(k), id)
  BY <1>1 DEF Stamp
<1>4. \A id \in Id : rec'[k][id] = rec[k][id]
  BY <1>1
<1>5. \A id \in Id : FreshSince(k, id)' <=> FreshSince(k, id)
  <2>1. \A id : FreshSince(k, id)' <=> rec'[k][id] # 0 /\ rec'[k][id] >= Stamp(From(k), id)'
    BY DEF FreshSince, From
  <2>2. \A id : FreshSince(k, id) <=> rec[k][id] # 0 /\ rec[k][id] >= Stamp(From(k), id)
    BY DEF FreshSince, From
  <2> QED
    BY <1>3, <1>4, <2>1, <2>2
<1>6. Done(k)' <=> Done(k)
  <2>1. Done(k)' <=> mark'[k] # 0 /\ \A id \in Output'[From(k)] : mark'[k] >= Stamp(From(k), id)'
    BY <1>1 DEF Done, Newer, From
  <2>2. Done(k) <=> mark[k] # 0 /\ \A id \in Output[From(k)] : mark[k] >= Stamp(From(k), id)
    BY DEF Done, Newer, From
  <2> QED
    BY <1>2, <1>3, <2>1, <2>2
<1>7. CASE Each(k)
  BY <1>1, <1>2, <1>5, <1>7 DEF Current
<1>8. CASE ~Each(k)
  BY <1>1, <1>6, <1>8 DEF Current
<1> QED
  BY <1>7, <1>8

\* No file moves.
LEMMA CurrentStill ==
    ASSUME TypesInv, UNCHANGED <<flow, input, rec, mark>>
    PROVE  \A k \in 1..N : Current(k)' <=> Current(k)
BY CurrentFrame

\* The steps that are over.
Past == \A k \in 1..(step - 1) : Current(k)

LEMMA PastFrame ==
    ASSUME TypesInv, Past, UNCHANGED <<flow, input, step>>,
           \A k \in 1..N : k < step => mark'[k] = mark[k] /\ \A id \in Id : rec'[k][id] = rec[k][id]
    PROVE  Past'
<1>1. step \in 1..N /\ N \in Nat
  BY DEF TypesInv, Types, WellFormed
<1>2. ASSUME NEW k \in 1..(step - 1) PROVE Current(k)'
  <2>1. k \in 1..N /\ mark'[k] = mark[k] /\ \A j \in 1..k : j \in 1..N /\ j < step
    BY <1>1
  <2>2. Current(k)' <=> Current(k)
    BY <2>1, CurrentFrame
  <2> QED
    BY <2>2 DEF Past
<1> QED
  BY <1>2 DEF Past

LEMMA CurrentAtStep ==
    ASSUME NEW k, step' = k
    PROVE  Current(step)' <=> Current(k)'
BY DEF Current, Each, From, FreshSince, Done, Newer, Stamp

\* Most steps do not hand a step on, and move no file of the steps that are over.
LEMMA ProgressStill ==
    ASSUME TypesInv, ProgressInv, UNCHANGED <<flow, input, step, partial>>,
           \A k \in 1..N : k < step => mark'[k] = mark[k] /\ \A id \in Id : rec'[k][id] = rec[k][id],
           pc' # "off" => pc # "off",
           pc' = "output" => pc = "output" /\ UNCHANGED <<rec, mark>>
    PROVE  ProgressInv'
<1>1. CASE partial
  BY <1>1 DEF ProgressInv
<1>2. CASE ~partial
  <2>1. pc' # "off" => Past'
    BY <1>2, PastFrame DEF ProgressInv, Past
  <2>2. pc' = "output" => Current(step)'
    <3> SUFFICES ASSUME pc' = "output" PROVE Current(step)'
      OBVIOUS
    <3>1. Current(step) /\ step \in 1..N /\ UNCHANGED <<flow, input, rec, mark>>
      BY <1>2 DEF ProgressInv, TypesInv, Types
    <3>2. PICK k \in 1..N : k = step
      BY <3>1
    <3>3. Current(k)'
      BY <3>1, <3>2, CurrentStill
    <3> QED
      BY <3>2, <3>3, CurrentAtStep
  <2> QED
    BY <2>1, <2>2 DEF ProgressInv, Past
<1> QED
  BY <1>1, <1>2

\* A step is about to be handed on.
LEMMA ProgressOutput ==
    ASSUME TypesInv, ProgressInv, UNCHANGED <<flow, input, step, rec>>, pc # "off",
           ~partial' => ~partial,
           \A k \in 1..N : k < step => mark'[k] = mark[k],
           NEW k \in 1..N, k = step, pc' = "output" /\ ~partial' => Current(k)'
    PROVE  ProgressInv'
<1>1. ~partial' => Past'
  <2>1. ~partial' => Past
    BY DEF ProgressInv, Past
  <2> QED
    BY <2>1, PastFrame
<1>2. pc' = "output" /\ ~partial' => Current(step)'
  BY CurrentAtStep
<1> QED
  BY <1>1, <1>2 DEF ProgressInv, Past

\* Nothing was stale.
LEMMA ProgressPlans ==
    ASSUME TypesInv, ProgressInv, PlanEach \/ PlanWhole
    PROVE  ProgressInv'
<1>1. UNCHANGED <<flow, input, step, rec, mark>> /\ pc = "plan" /\ (~partial' => ~partial)
  BY DEF PlanEach, PlanWhole, bounds, disk
<1>2. step \in 1..N /\ Upstream = Output[From(step)]
  BY DEF TypesInv, Types, Upstream, From, st
<1>3. pc' = "output" /\ ~partial' => Current(step)
  <2> SUFFICES ASSUME pc' = "output", ~partial' PROVE Current(step)
    OBVIOUS
  <2>1. CASE PlanWhole
    BY <2>1 DEF PlanWhole, Current, Each, st
  <2>2. CASE PlanEach
    <3>1. todo' = {} /\ Each(step)
      BY <2>2 DEF PlanEach, Each, st
    <3>2. todo' = {id \in Upstream : ~FreshSince(step, id)}
      BY <2>2 DEF PlanEach
    <3> QED
      BY <1>2, <3>1, <3>2 DEF Current
  <2> QED
    BY <2>1, <2>2
<1>4. PICK k \in 1..N : k = step
  BY <1>2
<1>5. pc' = "output" /\ ~partial' => Current(k)'
  BY <1>1, <1>3, <1>4, CurrentStill
<1> QED
  BY <1>1, <1>4, <1>5, ProgressOutput

\* Every record has been made, or was there.
LEMMA ProgressMapEnds ==
    ASSUME TypesInv, MapInv, ProgressInv, MapEnds
    PROVE  ProgressInv'
<1>1. /\ UNCHANGED <<flow, input, step, rec, mark, partial>>
      /\ pc = "drain" /\ failures = {} /\ todo = {} /\ flying = {}
  BY DEF MapEnds, Drained, bounds, disk, process
<1>2. step \in 1..N /\ Each(step) /\ Upstream = Output[From(step)]
  BY <1>1 DEF TypesInv, Types, Ways, Upstream, From, st
<1>3. ~partial => Current(step)
  BY <1>1, <1>2 DEF MapInv, Current
<1>4. PICK k \in 1..N : k = step
  BY <1>2
<1>5. pc' = "output" /\ ~partial' => Current(k)'
  BY <1>1, <1>3, <1>4, CurrentStill
<1> QED
  BY <1>1, <1>4, <1>5, ProgressOutput

\* The marker is newer than all there is.
LEMMA ProgressMark ==
    ASSUME TypesInv, ProgressInv, Mark
    PROVE  ProgressInv'
<1>1. /\ UNCHANGED <<flow, input, step, rec, partial>> /\ pc = "write"
      /\ mark' = [mark EXCEPT ![step] = clock + 1]
  BY DEF Mark, bounds
<1>2. PICK k \in 1..N : k = step
  BY DEF TypesInv, Types
<1>3. /\ mark'[k] = clock + 1 /\ clock \in Nat /\ ~Each(k)
      /\ \A j \in 1..N : j < step => mark'[j] = mark[j]
  BY <1>1, <1>2 DEF TypesInv, Types, Ways
<1>4. From(k) \in 0..N /\ (From(k) # 0 => From(k) \in 1..N) /\ From(k)' = From(k) /\ Each(k)' = Each(k)
  BY <1>1, SameFlow, FromBelow DEF TypesInv, Types
<1>5. \A id \in Id : Stamp(From(k), id)' \in 0..clock
  BY <1>1, <1>4 DEF Stamp, TypesInv, Types
<1>6. Output'[From(k)] \in SUBSET Id
  <2>1. Output'[From(k)] = Output[From(k)]
    BY <1>1, <1>4, OutputStill
  <2> QED
    BY <1>4, <2>1, OutputUnfolds DEF TypesInv, Types
<1>7. Done(k)'
  <2>1. \A id \in Output'[From(k)] : mark'[k] >= Stamp(From(k), id)'
    BY <1>3, <1>5, <1>6
  <2>2. mark'[k] # 0
    BY <1>3
  <2> QED
    BY <1>4, <2>1, <2>2 DEF Done, Newer, From
<1>8. Current(k)'
  BY <1>3, <1>4, <1>7 DEF Current
<1> QED
  BY <1>1, <1>2, <1>3, <1>8, ProgressOutput

LEMMA ProgressHandOn ==
    ASSUME TypesInv, ProgressInv, HandOn
    PROVE  ProgressInv'
<1>1. UNCHANGED <<flow, input, rec, mark, partial>> /\ pc = "output" /\ pc' \in {"plan", "off"}
  BY DEF HandOn, bounds, disk
<1>2. CASE pc' = "off" \/ partial
  BY <1>1, <1>2 DEF ProgressInv
<1>3. CASE pc' = "plan" /\ ~partial
  <2>1. step' = step + 1 /\ step \in 1..N /\ N \in Nat
    BY <1>3 DEF HandOn, TypesInv, Types, WellFormed
  <2>2. Current(step) /\ \A k \in 1..(step - 1) : Current(k)
    BY <1>1, <1>3 DEF ProgressInv
  <2>3. \A k \in 1..(step' - 1) : k \in 1..N /\ Current(k)
    BY <2>1, <2>2
  <2>4. \A k \in 1..(step' - 1) : Current(k)'
    BY <1>1, <2>3, CurrentStill
  <2> QED
    BY <1>3, <2>4 DEF ProgressInv
<1> QED
  BY <1>1, <1>2, <1>3

LEMMA ProgressNext ==
    ASSUME TypesInv, MapInv, ProgressInv, [Next]_vars
    PROVE  ProgressInv'
<1>1. CASE pc' = "off"
  BY <1>1 DEF ProgressInv
<1>2. CASE Start
  BY <1>2 DEF Start, ProgressInv
<1>3. CASE PlanEach \/ PlanWhole
  BY <1>3, ProgressPlans
<1>4. CASE MapEnds
  BY <1>4, ProgressMapEnds
<1>5. CASE Mark
  BY <1>5, ProgressMark
<1>6. CASE HandOn
  BY <1>6, ProgressHandOn
<1>7. CASE Stops \/ Edit
  BY <1>1, <1>7, StopsEnd DEF Ends, Gone, Edit
<1>8. CASE StopStarting \/ Make \/ Interrupt \/ UNCHANGED vars
  <2>1. UNCHANGED <<flow, input, step, partial, rec, mark>> /\ (pc' # "off" => pc # "off") /\ (pc' = "output" => pc = "output")
    BY <1>8 DEF StopStarting, Make, Interrupt, vars, disk, process, bounds
  <2> QED
    BY <2>1, ProgressStill
<1>9. ASSUME NEW id \in Id, StartOne(id) \/ RunFails(id) \/ Leave(id) PROVE ProgressInv'
  <2>1. UNCHANGED <<flow, input, step, partial, rec, mark, pc>>
    BY <1>9 DEF StartOne, RunFails, Leave, disk, bounds
  <2> QED
    BY <2>1, ProgressStill
<1>10. ASSUME NEW id \in Id, RunSucceeds(id) \/ WriteOne(id) PROVE ProgressInv'
  <2>1. pc # "output" /\ pc' = pc /\ flow' = flow
    BY <1>10, RunsAreInMap DEF RunSucceeds, WriteOne, bounds
  <2>2. UNCHANGED <<input, step, partial>> /\ mark' = mark
    BY <1>10, OneIsWritten
  <2>3. \A k \in 1..N : k < step => \A i \in Id : rec'[k][i] = rec[k][i]
    BY <1>10, OneIsWritten DEF TypesInv, Types
  <2> QED
    BY <2>1, <2>2, <2>3, ProgressStill
<1>11. ASSUME NEW id \in Id, RemoveOne(id) PROVE ProgressInv'
  <2>1. /\ UNCHANGED <<flow, input, step, partial, mark, pc>> /\ pc = "write"
        /\ rec' = [rec EXCEPT ![step][id] = 0]
    BY <1>11 DEF RemoveOne, process, bounds
  <2>2. \A k \in 1..N : k < step => \A i \in Id : rec'[k][i] = rec[k][i]
    BY <2>1 DEF TypesInv, Types
  <2> QED
    BY <2>1, <2>2, ProgressStill
<1> QED
  BY <1>2, <1>3, <1>4, <1>5, <1>6, <1>7, <1>8, <1>9, <1>10, <1>11 DEF Next, Main, Stops, Goroutine

-----------------------------------------------------------------------------
(* What is left to do, and what is printed.                                *)

AllCurrent == \A k \in 1..N : Current(k)

\* No file moves and no run starts.
LEMMA QuietStill ==
    ASSUME TypesInv, QuietInv, UNCHANGED <<flow, input, rec, mark>>,
           settled' => /\ settled /\ pc' \in {"off", "plan", "output"} /\ ~partial'
                       /\ (pc' # "off" => calls' = 0)
    PROVE  QuietInv'
<1>1. CASE ~settled'
  BY <1>1 DEF QuietInv
<1>2. CASE settled'
  <2>1. N' = N /\ \A k \in 1..N : Current(k)
    BY <1>2, SameFlow DEF QuietInv
  <2>2. \A k \in 1..N : Current(k)'
    BY <2>1, CurrentStill
  <2> QED
    BY <1>2, <2>1, <2>2 DEF QuietInv
<1> QED
  BY <1>1, <1>2

\* Nothing is stale, so there is nothing to sample.
LEMMA QuietPlans ==
    ASSUME TypesInv, QuietInv, PlanEach \/ PlanWhole
    PROVE  QuietInv'
<1>1. UNCHANGED <<flow, input, step, rec, mark, settled, calls>> /\ pc = "plan"
  BY DEF PlanEach, PlanWhole, bounds, disk, history
<1>2. step \in 1..N /\ Upstream = Output[From(step)] /\ limit \in Nat
  BY FlowAssumption DEF TypesInv, Types, Upstream, From, st
<1>3. ASSUME settled PROVE pc' = "output" /\ ~partial'
  <2>1. Current(step) /\ ~partial /\ partial \in BOOLEAN
    BY <1>2, <1>3 DEF QuietInv, TypesInv, Types
  <2>2. CASE PlanWhole
    BY <2>1, <2>2 DEF PlanWhole, Current, Each, st
  <2>3. CASE PlanEach
    <3>1. {id \in Upstream : ~FreshSince(step, id)} = {}
      BY <1>2, <2>1, <2>3 DEF PlanEach, Current, Each, st
    <3>2. Cardinality({id \in Upstream : ~FreshSince(step, id)}) <= limit
      BY <1>2, <3>1, FS_EmptySet
    <3>3. todo' = {id \in Upstream : ~FreshSince(step, id)} /\ partial' = partial
      BY <2>3, <3>2 DEF PlanEach
    <3> QED
      BY <2>1, <2>3, <3>1, <3>3 DEF PlanEach
  <2> QED
    BY <2>2, <2>3
<1>4. settled' => settled /\ pc' \in {"off", "plan", "output"} /\ ~partial' /\ (pc' # "off" => calls' = 0)
  BY <1>1, <1>3 DEF QuietInv
<1> QED
  BY <1>1, <1>4, QuietStill

LEMMA QuietHandOn ==
    ASSUME TypesInv, ProgressInv, QuietInv, HandOn
    PROVE  QuietInv'
<1>1. UNCHANGED <<flow, input, rec, mark, partial, calls>> /\ pc = "output"
  BY DEF HandOn, bounds, disk
<1>2. step \in 1..N /\ N \in Nat
  BY DEF TypesInv, Types, WellFormed
<1>3. CASE step < N
  <2>1. pc' = "plan" /\ settled' = settled
    BY <1>3 DEF HandOn
  <2>2. settled' => settled /\ pc' \in {"off", "plan", "output"} /\ ~partial' /\ (pc' # "off" => calls' = 0)
    BY <1>1, <2>1 DEF QuietInv
  <2> QED
    BY <1>1, <2>2, QuietStill
<1>4. CASE ~(step < N)
  <2>1. pc' = "off" /\ settled' = ~partial /\ step = N
    BY <1>2, <1>4 DEF HandOn
  <2>2. ASSUME settled' PROVE QuietInv'
    <3>1. ~partial
      BY <2>1, <2>2
    <3>2. \A k \in 1..N : Current(k)
      BY <1>1, <1>2, <2>1, <3>1 DEF ProgressInv
    <3>3. N' = N /\ \A k \in 1..N : Current(k)'
      BY <1>1, <3>2, CurrentStill, SameFlow
    <3> QED
      BY <1>1, <2>1, <3>1, <3>3 DEF QuietInv
  <2> QED
    BY <2>2 DEF QuietInv
<1> QED
  BY <1>3, <1>4

LEMMA QuietNext ==
    ASSUME TypesInv, ProgressInv, QuietInv, [Next]_vars
    PROVE  QuietInv'
<1>1. CASE ~settled'
  BY <1>1 DEF QuietInv
<1>2. CASE Stops \/ Edit
  BY <1>1, <1>2, StopsEnd DEF Ends, Gone, Edit
<1>3. CASE Start
  <2>1. UNCHANGED <<flow, rec, mark>> /\ settled' = (settled /\ input = input')
        /\ pc' = "plan" /\ calls' = 0 /\ ~partial'
    BY <1>3 DEF Start, disk
  <2> QED
    BY <1>1, <2>1, QuietStill
<1>4. CASE PlanEach \/ PlanWhole
  BY <1>4, QuietPlans
<1>5. CASE HandOn
  BY <1>5, QuietHandOn
<1>6. CASE Interrupt \/ UNCHANGED vars
  <2>1. UNCHANGED <<flow, input, rec, mark, settled, pc, partial, calls>>
    BY <1>6 DEF Interrupt, vars, disk, process, history, bounds
  <2> QED
    BY <2>1, QuietStill DEF QuietInv
<1>7. CASE settled' = settled /\ pc \in {"map", "drain", "make", "write"}
  BY <1>1, <1>7 DEF QuietInv
<1>8. CASE StopStarting \/ MapEnds \/ Make \/ Mark
  BY <1>7, <1>8 DEF StopStarting, MapEnds, Drained, Make, Mark, history
<1>9. ASSUME NEW id \in Id, WriteOne(id) \/ RemoveOne(id) \/ StartOne(id) PROVE QuietInv'
  BY <1>7, <1>9 DEF WriteOne, RemoveOne, StartOne, history
<1>10. ASSUME NEW id \in Id, RunSucceeds(id) \/ RunFails(id) \/ Leave(id) PROVE QuietInv'
  <2>1. settled' = settled /\ id \in flying
    BY <1>10 DEF RunSucceeds, RunFails, Leave, history, TypesInv, Types
  <2> QED
    BY <1>7, <2>1, RunsAreInMap
<1> QED
  BY <1>2, <1>3, <1>4, <1>5, <1>6, <1>8, <1>9, <1>10 DEF Next, Main, Stops, Goroutine

-----------------------------------------------------------------------------
\* A record is printed when it is made, and counts for as long as the step lasts.
Shown(id) == step = N /\ Each(step) /\ pc \in {"map", "drain", "output"} /\ id \in now

LEMMA PrintStill ==
    ASSUME TypesInv, PrintInv, printed' = printed, N' = N, pc # "off", pc' # "off",
           \A id \in Id : Shown(id)' <=> Shown(id)
    PROVE  PrintInv'
BY DEF PrintInv, Shown

LEMMA PrintZero ==
    ASSUME Types', printed' = [id \in Id |-> 0], pc' = "off" => ~settled',
           pc' # "off" => \A id \in Id : ~Shown(id)'
    PROVE  PrintInv'
BY DEF PrintInv, Shown

LEMMA PrintRunSucceeds ==
    ASSUME TypesInv, MapInv, PrintInv, NEW id \in Id, RunSucceeds(id)
    PROVE  PrintInv'
<1>1. /\ UNCHANGED <<flow, step, pc>> /\ now' = now \cup {id} /\ id \in flying \ leaving
      /\ printed' = IF step = N THEN [printed EXCEPT ![id] = @ + 1] ELSE printed
  BY DEF RunSucceeds, bounds
<1>2. N' = N /\ Each(step)' = Each(step) /\ pc \in {"map", "drain"} /\ Each(step)
  BY <1>1, RunsAreInMap DEF N, Each, steps
<1>3. id \notin now
  BY <1>1, <1>2 DEF MapInv
<1>4. /\ printed \in [Id -> 0..1]
      /\ \A i \in Id : printed[i] = IF step = N /\ i \in now THEN 1 ELSE 0
  BY <1>2 DEF PrintInv
<1>5. \A i \in Id : printed'[i] = IF step = N /\ i \in now' THEN 1 ELSE 0
  BY <1>1, <1>3, <1>4
<1>6. printed' \in [Id -> 0..1]
  <2>1. printed[id] + 1 = 1 \/ step # N
    BY <1>3, <1>4
  <2> QED
    BY <1>1, <1>4, <2>1
<1> QED
  BY <1>1, <1>2, <1>5, <1>6 DEF PrintInv

LEMMA PrintHandOn ==
    ASSUME TypesInv, OutputInv, PrintInv, HandOn
    PROVE  PrintInv'
<1>1. /\ UNCHANGED <<flow, input, rec, now>> /\ pc = "output"
      /\ printed' = [id \in Id |-> IF step = N /\ id \in Output[N] \ now THEN printed[id] + 1 ELSE printed[id]]
  BY DEF HandOn, bounds, disk
<1>2. step \in 1..N /\ N \in Nat /\ N \in 0..N /\ N' = N
  BY <1>1, SameFlow DEF TypesInv, Types, WellFormed
<1>3. Output'[N] = Output[N]
  BY <1>1, <1>2, OutputStill
<1>4. /\ printed \in [Id -> 0..1]
      /\ \A id \in Id : printed[id] = IF step = N /\ Each(step) /\ id \in now THEN 1 ELSE 0
      /\ IF Each(step) THEN now \subseteq Output[step] ELSE now = {}
  BY <1>1 DEF PrintInv, OutputInv
<1>5. CASE step < N
  <2>1. pc' = "plan" /\ printed' = printed /\ \A id \in Id : printed[id] = 0
    BY <1>1, <1>2, <1>4, <1>5 DEF HandOn
  <2> QED
    BY <1>4, <2>1 DEF PrintInv
<1>6. CASE step = N
  <2>1. pc' = "off"
    BY <1>2, <1>6 DEF HandOn
  <2>2. \A id \in Id : printed'[id] = IF id \in Output[N] THEN 1 ELSE 0
    BY <1>1, <1>4, <1>6
  <2>3. printed' \in [Id -> 0..1]
    BY <1>1, <2>2
  <2> QED
    BY <1>2, <1>3, <2>1, <2>2, <2>3 DEF PrintInv
<1> QED
  BY <1>2, <1>5, <1>6

LEMMA PrintNext ==
    ASSUME TypesInv, MapInv, OutputInv, PrintInv, [Next]_vars
    PROVE  PrintInv'
<1>1. TypesInv' /\ flow' = flow /\ N' = N
  BY TypesNext, FilesMove, SameFlow
<1>2. CASE Start
  BY <1>1, <1>2, PrintZero DEF Start, Shown, TypesInv
<1>3. CASE Stops
  BY <1>1, <1>3, StopsEnd, PrintZero DEF Ends, Gone, TypesInv
<1>4. CASE Edit
  BY <1>4 DEF Edit, PrintInv, process
<1>5. CASE HandOn
  BY <1>5, PrintHandOn
<1>6. CASE PlanEach \/ PlanWhole \/ Make \/ Mark
  <2>1. /\ UNCHANGED <<step, printed>> /\ pc \in {"plan", "make", "write"} /\ pc' # "off"
        /\ now' = {} \/ pc' = "write"
    BY <1>6 DEF PlanEach, PlanWhole, Make, Mark
  <2>2. \A id \in Id : ~Shown(id) /\ ~Shown(id)'
    BY <2>1 DEF Shown
  <2> QED
    BY <1>1, <2>1, <2>2, PrintStill
<1>7. CASE UNCHANGED <<step, printed, now>> /\ pc # "off" /\ pc' # "off"
           /\ (pc \in {"map", "drain", "output"} <=> pc' \in {"map", "drain", "output"})
  <2>1. \A id \in Id : Shown(id)' <=> Shown(id)
    BY <1>1, <1>7 DEF Shown, Each, steps
  <2> QED
    BY <1>1, <1>7, <2>1, PrintStill
<1>8. CASE StopStarting \/ MapEnds \/ Interrupt
  <2>1. UNCHANGED <<step, printed, now>> /\ pc # "off" /\ pc' # "off"
        /\ (pc \in {"map", "drain", "output"} <=> pc' \in {"map", "drain", "output"})
    BY <1>8 DEF StopStarting, MapEnds, Drained, Interrupt, process
  <2> QED
    BY <1>7, <2>1
<1>9. ASSUME NEW id \in Id, WriteOne(id) \/ RemoveOne(id) \/ StartOne(id) PROVE PrintInv'
  <2>1. UNCHANGED <<step, printed, now, pc>> /\ pc # "off"
    BY <1>9 DEF WriteOne, RemoveOne, StartOne, process
  <2> QED
    BY <1>7, <2>1
<1>10. ASSUME NEW id \in Id, RunFails(id) \/ Leave(id) PROVE PrintInv'
  <2>1. UNCHANGED <<step, printed, now, pc>> /\ id \in flying
    BY <1>10 DEF RunFails, Leave, TypesInv, Types
  <2>2. pc # "off"
    BY <2>1, RunsAreInMap
  <2> QED
    BY <1>7, <2>1, <2>2
<1>11. CASE UNCHANGED vars
  <2>1. UNCHANGED <<flow, input, rec, step, printed, now, pc, settled>>
    BY <1>11 DEF vars, disk, process, history, bounds
  <2>2. Output'[N] = Output[N]
    <3>1. N \in 0..N
      BY DEF TypesInv, Types, WellFormed
    <3> QED
      BY <2>1, <3>1, OutputStill
  <2>3. Each(step)' = Each(step)
    BY <2>1 DEF Each, steps
  <2> QED
    BY <1>1, <2>1, <2>2, <2>3 DEF PrintInv
<1> QED
  BY <1>2, <1>3, <1>4, <1>5, <1>6, <1>8, <1>9, <1>10, <1>11, PrintRunSucceeds DEF Next, Main, Stops, Goroutine

-----------------------------------------------------------------------------
(* The theorems.                                                           *)

RuleInv == MadeInv /\ InputInv /\ ReadInv /\ MapInv /\ ProgressInv /\ QuietInv
FlowInv == TypesInv /\ RuleInv /\ OutputInv /\ PrintInv

LEMMA FlowInit == Init => FlowInv
<1> SUFFICES ASSUME Init PROVE FlowInv
  OBVIOUS
<1>1. TypesInv
  BY TypesInit
<1>2. Field = 1..N
  BY <1>1 DEF TypesInv, Types, WellFormed
<1>3. MadeInv /\ InputInv /\ ReadInv
  BY <1>2 DEF Init, MadeInv, InputInv, ReadInv
<1>4. MapInv /\ ProgressInv /\ QuietInv /\ OutputInv
  BY DEF Init, MapInv, ProgressInv, QuietInv, OutputInv
<1>5. PrintInv
  BY DEF Init, PrintInv
<1> QED
  BY <1>1, <1>3, <1>4, <1>5 DEF FlowInv, RuleInv

LEMMA FlowNext == FlowInv /\ [Next]_vars => FlowInv'
<1> SUFFICES ASSUME FlowInv, [Next]_vars PROVE FlowInv'
  OBVIOUS
<1>1. /\ TypesInv /\ MadeInv /\ InputInv /\ ReadInv /\ MapInv /\ ProgressInv /\ QuietInv
      /\ OutputInv /\ PrintInv
  BY DEF FlowInv, RuleInv
<1>2. TypesInv' /\ MadeInv' /\ InputInv' /\ ReadInv'
  BY <1>1, TypesNext, MadeNext, InputNext, ReadNext
<1>3. MapInv' /\ ProgressInv' /\ QuietInv'
  BY <1>1, MapNext, ProgressNext, QuietNext
<1>4. OutputInv' /\ PrintInv'
  BY <1>1, OutputNext, PrintNext
<1> QED
  BY <1>2, <1>3, <1>4 DEF FlowInv, RuleInv

\* What steps that are up to date hand on is alive.
LEMMA HandedOnIsAlive ==
    ASSUME TypesInv, NEW n \in 0..N, \A j \in 1..n : Current(j)
    PROVE  \A k \in 0..n, id \in Id : id \in Output[k] => id \in Alive[k]
<1>1. /\ WellFormed /\ N \in Nat /\ n \in Nat /\ \A j \in 1..n : j \in 1..N
      /\ Output[0] = input /\ \A j \in 1..N : Output[j] = HandsOn(j)
  BY OutputUnfolds DEF TypesInv, Types, WellFormed
<1>2. /\ Alive[0] = Id
      /\ \A j \in 1..N, i \in Id : i \in Alive[j] <=> Fresh(j, i) /\ (Each(j) => i \in Alive[From(j)])
  BY <1>1, AliveUnfolds
<1> DEFINE M == {j \in 0..n : \A i \in Id : i \in Output[j] => i \in Alive[j]}
<1>3. 0 \in M
  BY <1>1, <1>2
<1>4. ASSUME NEW j \in 1..n, \A m \in 0..(j - 1) : m \in M PROVE j \in M
  <2>1. j \in 1..N /\ From(j) \in 0..(j - 1)
    BY <1>1, FromBelow
  <2>2. ASSUME NEW i \in Id, i \in Output[j] PROVE i \in Alive[j]
    <3>1. rec[j][i] # 0 /\ (Each(j) => i \in Output[From(j)])
      BY <1>1, <2>1, <2>2 DEF HandsOn
    <3>2. CASE ~Each(j)
      BY <1>2, <2>1, <3>1, <3>2 DEF Fresh
    <3>3. CASE Each(j)
      <4>1. i \in Alive[From(j)]
        BY <1>4, <2>1, <3>1, <3>3
      <4>2. FreshSince(j, i)
        BY <3>1, <3>3 DEF Current
      <4>3. Fresh(j, i)
        BY <4>2 DEF Fresh, FreshSince, From
      <4> QED
        BY <1>2, <2>1, <4>1, <4>3
    <3> QED
      BY <3>2, <3>3
  <2> QED
    BY <2>2
<1>5. \A j \in 0..n : j \in M
  <2> HIDE DEF M
  <2> QED
    BY <1>1, <1>3, <1>4, UpTo
<1> QED
  BY <1>5

LEMMA CurrentIsMade ==
    ASSUME TypesInv, MadeInv, ReadInv, grew, NEW n \in 0..N, \A j \in 1..n : Current(j),
           NEW k \in 1..n, Each(k) \/ From(k) # 0
    PROVE  MadeFromAll(k)
<1>1. /\ k \in 1..N /\ Current(k) /\ From(k) \in 0..N /\ From(k) \in 0..n
      /\ (From(k) # 0 => From(k) \in 1..N) /\ Output[From(k)] \in SUBSET Id
  <2>1. n \in Nat /\ N \in Nat /\ k \in 1..N /\ WellFormed
    BY DEF TypesInv, Types, WellFormed
  <2>2. From(k) \in 0..(k - 1) /\ From(k) \in 0..N /\ (From(k) # 0 => From(k) \in 1..N)
    BY <2>1, FromBelow
  <2>3. Output[From(k)] \in SUBSET Id
    BY <2>2, OutputUnfolds DEF TypesInv, Types
  <2> QED
    BY <2>1, <2>2, <2>3
<1>2. \A id \in Id : id \in Output[From(k)] => id \in Alive[From(k)]
  BY <1>1, HandedOnIsAlive
<1>3. \A id \in Id : rec[k][id] \in Nat /\ mark[k] \in Nat /\ Stamp(From(k), id) \in Nat
  <2>1. /\ rec \in [1..N -> [Id -> 0..clock]] /\ mark \in [1..N -> 0..clock]
        /\ clock \in Nat /\ 0..clock \subseteq Nat
    BY DEF TypesInv, Types
  <2>2. \A j \in 1..N, id \in Id : rec[j][id] \in Nat
    BY <2>1
  <2> QED
    BY <1>1, <2>1, <2>2 DEF Stamp
<1>4. ASSUME NEW id \in Output[From(k)]
      PROVE  IF Each(k) THEN rec[k][id] # 0 /\ madeFrom[k][id] = Stamp(From(k), id)
                        ELSE <<id, Stamp(From(k), id)>> \in readAll[k]
  <2>1. id \in Id /\ id \in Alive[From(k)]
    BY <1>1, <1>2
  <2>2. CASE Each(k)
    <3>1. rec[k][id] # 0 /\ rec[k][id] >= Stamp(From(k), id)
      BY <1>1, <2>2 DEF Current, FreshSince, From
    <3>2. From(k) # 0 => Stamp(From(k), id) # 0
      <4> SUFFICES ASSUME From(k) # 0 PROVE rec[From(k)][id] # 0
        BY DEF Stamp
      <4>1. Output[From(k)] = HandsOn(From(k))
        BY <1>1, OutputUnfolds DEF TypesInv, Types
      <4> QED
        BY <4>1 DEF HandsOn
    <3>3. ~(Stamp(From(k), id) > rec[k][id])
      BY <1>3, <2>1, <3>1
    <3>4. madeFrom[k][id] = Stamp(From(k), id)
      BY <1>1, <2>1, <2>2, <3>1, <3>2, <3>3 DEF MadeInv
    <3> QED
      BY <2>2, <3>1, <3>4
  <2>3. CASE ~Each(k)
    <3>1. mark[k] # 0 /\ mark[k] >= Stamp(From(k), id)
      BY <1>1, <2>3 DEF Current, Done, Newer, From
    <3>2. Stamp(From(k), id) <= mark[k]
      BY <1>3, <2>1, <3>1
    <3> QED
      BY <1>1, <2>1, <2>3, <3>1, <3>2 DEF ReadInv
  <2> QED
    BY <2>2, <2>3
<1> QED
  BY <1>4 DEF MadeFromAll, Each, From

LEMMA FlowIsUpToDate == FlowInv => UpToDate
<1> SUFFICES ASSUME FlowInv, grew, ~partial, NEW k \in Finished, Each(k) \/ From(k) # 0
             PROVE  MadeFromAll(k)
  BY DEF UpToDate, Each, From
<1>1. /\ TypesInv /\ MadeInv /\ ReadInv /\ ProgressInv /\ QuietInv
      /\ step \in 1..N /\ N \in Nat /\ Field = 1..N
  BY DEF FlowInv, RuleInv, TypesInv, Types, WellFormed
<1>2. CASE settled /\ pc = "off"
  <2>1. k \in 1..N /\ N \in 0..N /\ \A j \in 1..N : Current(j)
    BY <1>1, <1>2 DEF Finished, QuietInv
  <2> QED
    BY <1>1, <2>1, CurrentIsMade
<1>3. CASE pc # "off"
  <2>1. k \in 1..(step - 1) /\ step - 1 \in 0..N /\ \A j \in 1..(step - 1) : Current(j)
    BY <1>1, <1>3 DEF Finished, ProgressInv
  <2> QED
    BY <1>1, <2>1, CurrentIsMade
<1> QED
  BY <1>2, <1>3 DEF Finished

\* When a step is over, all it was given is in what it made, in the version it has now,
\* whatever was interrupted, killed, failed or deleted before (freshSince, done and
\* replace of records.go), with the three provisos of UpToDate.
THEOREM FinishedStepsAreUpToDate == Spec => []UpToDate
<1> QED
  BY FlowInit, FlowNext, FlowIsUpToDate, PTL DEF Spec

\* A flow that ended well has printed its result, each record once; started again on the
\* same input it makes no call.
THEOREM FinishedFlowsAreQuiet == Spec => []FinishedIsQuiet
<1>1. FlowInv => FinishedIsQuiet
  BY DEF FlowInv, RuleInv, QuietInv, PrintInv, FinishedIsQuiet
<1> QED
  BY <1>1, FlowInit, FlowNext, PTL DEF Spec

\* The variables of Flow keep their types, whatever the flows, ids and bounds are.
THEOREM TypesHold == Spec => []TypeOK
<1>1. FlowInv => TypeOK
  <2> SUFFICES ASSUME FlowInv PROVE TypeOK
    OBVIOUS
  <2>1. Types /\ Field = 1..N
    BY DEF FlowInv, TypesInv, Types, WellFormed
  <2>2. printed \in [Id -> 0..2]
    BY DEF FlowInv, PrintInv
  <2> QED
    BY <2>1, <2>2 DEF Types, TypeOK, Pcs
<1> QED
  BY <1>1, FlowInit, FlowNext, PTL DEF Spec
=============================================================================
