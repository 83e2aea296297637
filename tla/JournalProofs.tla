---------------------------- MODULE JournalProofs ----------------------------
(***************************************************************************)
(* Theorems about Journal, for any runs, goroutines, events, retention and *)
(* bounds: what is on disk of a run, and what each list says of it.        *)
(***************************************************************************)
EXTENDS Journal, SequenceTheorems, FiniteSetTheorems, WellFoundedInduction, TLAPS

Lines  == [ev : Events, seq : Nat]

-----------------------------------------------------------------------------
(* Replay and Refill, unfolded.                                            *)

\* A number below a member of a set that is closed downwards by one step at a time.
LEMMA UpTo ==
    ASSUME NEW n \in Nat, NEW M, 0 \in M, \A k \in 1..n : k - 1 \in M => k \in M
    PROVE  \A k \in 0..n : k \in M
<1> DEFINE Bad == {k \in 0..n : k \notin M}
<1> SUFFICES ASSUME Bad # {} PROVE FALSE
  OBVIOUS
<1>1. IsWellFoundedOn(OpToRel(<, Nat), Nat)
  BY NatLessThanWellFounded, Zenon
<1>2. Bad \in SUBSET Nat /\ Bad # {}
  OBVIOUS
<1>3. PICK x \in Bad : \A y \in Bad : <<y, x>> \notin OpToRel(<, Nat)
  <2> HIDE DEF Bad
  <2> QED
    BY <1>1, <1>2, WFMin, Zenon
<1>4. x \in 1..n
  OBVIOUS
<1>5. x - 1 \notin Bad
  <2> HIDE DEF Bad
  <2>1. x - 1 \in Nat /\ x \in Nat /\ x - 1 < x
    BY <1>4
  <2> QED
    BY <1>3, <2>1 DEF OpToRel
<1> QED
  BY <1>4, <1>5

\* Headers given by the first and by the step from each to the next exist.
LEMMA FoldExists ==
    ASSUME NEW n \in Nat, NEW base \in Header, NEW F \in [Header \X (1..n) -> Header]
    PROVE  \E f \in [0..n -> Header] : f[0] = base /\ \A k \in 1..n : f[k] = F[<<f[k - 1], k>>]
<1> DEFINE Folds(f, m) == f[0] = base /\ \A k \in 1..m : f[k] = F[<<f[k - 1], k>>]
           Has(m) == \E f \in [0..m -> Header] : Folds(f, m)
           M      == {m \in 0..n : Has(m)}
<1>1. 0 \in M
  <2> DEFINE f == [k \in 0..0 |-> base]
  <2>1. f \in [0..0 -> Header] /\ Folds(f, 0)
    OBVIOUS
  <2>2. Has(0)
    <3> HIDE DEF f, Folds
    <3> QED
      BY <2>1
  <2> HIDE DEF Has
  <2> QED
    BY <2>2
<1>2. ASSUME NEW k \in 1..n, k - 1 \in M PROVE k \in M
  <2>1. PICK f \in [0..(k - 1) -> Header] : Folds(f, k - 1)
    BY <1>2
  <2> DEFINE g == [j \in 0..k |-> IF j = k THEN F[<<f[k - 1], k>>] ELSE f[j]]
  <2>2. k - 1 \in 0..(k - 1) /\ f[k - 1] \in Header
    OBVIOUS
  <2>3. F[<<f[k - 1], k>>] \in Header
    BY <2>2
  <2>4. g \in [0..k -> Header]
    BY <2>3
  <2>5. Folds(g, k)
    <3>1. g[0] = base
      BY <2>1
    <3>2. ASSUME NEW j \in 1..k PROVE g[j] = F[<<g[j - 1], j>>]
      <4>1. CASE j = k
        <5>1. g[k] = F[<<f[k - 1], k>>] /\ g[k - 1] = f[k - 1]
          OBVIOUS
        <5> QED
          BY <4>1, <5>1
      <4>2. CASE j # k
        BY <4>2, <2>1
      <4> QED
        BY <4>1, <4>2
    <3> QED
      BY <3>1, <3>2
  <2>6. Has(k)
    <3> HIDE DEF g, Folds
    <3> QED
      BY <2>4, <2>5
  <2> QED
    BY <2>6
<1>3. \A k \in 0..n : k \in M
  <2> HIDE DEF M
  <2> QED
    BY <1>1, <1>2, UpTo
<1>4. Has(n)
  <2> HIDE DEF Has
  <2> QED
    BY <1>3
<1> QED
  BY <1>4

LEMMA ApplyProperties ==
    ASSUME NEW h \in Header, NEW r \in Run, NEW ev \in Events
    PROVE  /\ Apply(h, r, ev) \in Header
           /\ UpdateMeta(h, r, ev) = Apply(h, r, ev)
<1> DEFINE st == h.started
           ss == h.status
           c  == h.count
           c2 == [k \in Counted |-> c[k] + IF k = ev.kind THEN 1 ELSE 0]
<1>1. h = [started |-> st, status |-> ss, count |-> c]
  BY DEF Header
<1>2. /\ st \in 0..Runs /\ ss \in Status \cup {NoStatus, "running"} /\ c \in [Counted -> Nat]
      /\ r \in 0..Runs
  <2>1. st \in 0..Runs /\ ss \in Status \cup {NoStatus, "running"} /\ c \in [Counted -> Nat]
    BY DEF Header
  <2>2. r \in 0..Runs
    BY JournalAssumption DEF Run
  <2> QED
    BY <2>1, <2>2
<1>3. c2 \in [Counted -> Nat]
  BY <1>2
<1>4. ev.kind \notin Counted => c2 = c
  <2> SUFFICES ASSUME ev.kind \notin Counted PROVE c2 = c
    OBVIOUS
  <2>1. \A k \in Counted : c2[k] = c[k]
    BY <1>2
  <2> HIDE DEF c2, c
  <2> QED
    BY <1>2, <1>3, <2>1
<1>5. ev.kind \in Counted => [c EXCEPT ![ev.kind] = @ + 1] = c2
  <2> SUFFICES ASSUME ev.kind \in Counted PROVE [c EXCEPT ![ev.kind] = @ + 1] = c2
    OBVIOUS
  <2>1. \A k \in Counted : c2[k] = [c EXCEPT ![ev.kind] = @ + 1][k]
    BY <1>2
  <2>2. [c EXCEPT ![ev.kind] = @ + 1] \in [Counted -> Nat]
    BY <1>2
  <2> HIDE DEF c2, c
  <2> QED
    BY <1>3, <2>1, <2>2
<1>6. UpdateMeta(h, r, ev) = [started |-> IF ev.kind = "run_start" /\ st = 0 THEN r ELSE st,
                              status  |-> CASE ev.kind = "run_start" -> IF ss = NoStatus THEN "running" ELSE ss
                                            [] ev.kind \in Status -> ev.kind
                                            [] OTHER -> ss,
                              count   |-> c2]
  BY DEF UpdateMeta
<1> HIDE DEF st, ss, c, c2
<1>7. CASE ev.kind = "run_start"
  <2>1. ev.kind \notin Counted /\ ev.kind \notin Status /\ ev.kind # "torn"
    BY <1>7 DEF Counted, Status
  <2>2. Apply(h, r, ev) = [h EXCEPT !.started = IF @ = 0 THEN r ELSE @,
                                    !.status = IF @ = NoStatus THEN "running" ELSE @]
    BY <1>7, <2>1 DEF Apply
  <2>3. Apply(h, r, ev) = [started |-> IF st = 0 THEN r ELSE st,
                           status |-> IF ss = NoStatus THEN "running" ELSE ss, count |-> c]
    BY <1>1, <2>2
  <2>4. UpdateMeta(h, r, ev) = Apply(h, r, ev)
    BY <1>4, <1>6, <1>7, <2>1, <2>3
  <2>5. Apply(h, r, ev) \in Header
    <3> DEFINE st2 == IF st = 0 THEN r ELSE st
               ss2 == IF ss = NoStatus THEN "running" ELSE ss
    <3>1. st2 \in 0..Runs /\ ss2 \in Status \cup {NoStatus, "running"}
      BY <1>2
    <3> HIDE DEF st2, ss2
    <3> QED
      BY <1>2, <2>3, <3>1 DEF st2, ss2, Header
  <2> QED
    BY <2>4, <2>5
<1>8. CASE ev.kind \in Counted
  <2>1. ev.kind # "run_start" /\ ev.kind \notin Status /\ ev.kind # "torn"
    BY <1>8 DEF Counted, Status
  <2>2. Apply(h, r, ev) = [h EXCEPT !.count[ev.kind] = @ + 1]
    BY <1>8, <2>1 DEF Apply
  <2>3. Apply(h, r, ev) = [started |-> st, status |-> ss, count |-> c2]
    BY <1>1, <1>5, <1>8, <2>2
  <2> QED
    BY <1>2, <1>3, <1>6, <2>1, <2>3 DEF Header
<1>9. CASE ev.kind \in Status
  <2>1. ev.kind # "run_start" /\ ev.kind \notin Counted /\ ev.kind # "torn"
    BY <1>9 DEF Counted, Status
  <2>2. Apply(h, r, ev) = [started |-> st, status |-> ev.kind, count |-> c]
    BY <1>1, <1>9, <2>1 DEF Apply
  <2> QED
    BY <1>2, <1>4, <1>6, <1>9, <2>1, <2>2 DEF Header
<1>10. CASE ev.kind = "torn"
  <2>1. ev.kind # "run_start" /\ ev.kind \notin Counted /\ ev.kind \notin Status
    BY <1>10 DEF Counted, Status
  <2>2. Apply(h, r, ev) = h
    BY <1>10, <2>1 DEF Apply
  <2> QED
    BY <1>1, <1>2, <1>4, <1>6, <2>1, <2>2 DEF Header
<1> QED
  BY <1>7, <1>8, <1>9, <1>10 DEF Events

LEMMA BlankIsAHeader == Blank \in Header
  BY JournalAssumption DEF Blank, Header

\* The values that the replay passes through, one for each line.
Passes(g, from, r, l) ==
    /\ g \in [0..Len(l) -> Header] /\ g[0] = from
    /\ \A k \in 1..Len(l) : g[k] = Apply(g[k - 1], r, l[k].ev)

LEMMA LineTypes ==
    ASSUME NEW l \in Seq(Lines)
    PROVE  Len(l) \in Nat /\ \A k \in 1..Len(l) : l[k] \in Lines /\ l[k].ev \in Events /\ l[k].seq \in Nat
<1>1. Len(l) \in Nat /\ \A k \in 1..Len(l) : l[k] \in Lines
  BY LenProperties, ElementOfSeq
<1> QED
  BY <1>1 DEF Lines

LEMMA PassesExists ==
    ASSUME NEW r \in Run, NEW l \in Seq(Lines), NEW from \in Header
    PROVE  \E g : Passes(g, from, r, l)
<1> DEFINE F == [p \in Header \X (1..Len(l)) |-> Apply(p[1], r, l[p[2]].ev)]
<1>1. F \in [Header \X (1..Len(l)) -> Header]
  BY LineTypes, ApplyProperties
<1>2. PICK f \in [0..Len(l) -> Header] :
        f[0] = from /\ \A k \in 1..Len(l) : f[k] = F[<<f[k - 1], k>>]
  <2> HIDE DEF F
  <2>1. Len(l) \in Nat
    BY LineTypes
  <2> QED
    BY <1>1, <2>1, FoldExists
<1>3. ASSUME NEW k \in 1..Len(l) PROVE f[k] = Apply(f[k - 1], r, l[k].ev)
  <2>1. k - 1 \in 0..Len(l)
    BY LineTypes
  <2>2. f[k - 1] \in Header
    BY <2>1
  <2>3. <<f[k - 1], k>> \in Header \X (1..Len(l))
    BY <2>2
  <2> QED
    BY <1>2, <2>3
<1> QED
  BY <1>2, <1>3 DEF Passes

LEMMA ReplayPasses ==
    ASSUME NEW r \in Run, NEW l \in Seq(Lines)
    PROVE  \E g : Passes(g, Blank, r, l) /\ Replay(r, l) = g[Len(l)]
<1> DEFINE header[n \in 0..Len(l)] == IF n = 0 THEN Blank ELSE Apply(header[n - 1], r, l[n].ev)
<1>1. Replay(r, l) = header[Len(l)]
  BY DEF Replay
<1>2. PICK f : Passes(f, Blank, r, l)
  BY PassesExists, BlankIsAHeader
<1>3. f = [n \in 0..Len(l) |-> IF n = 0 THEN Blank ELSE Apply(f[n - 1], r, l[n].ev)]
  BY <1>2, LineTypes DEF Passes
<1>4. header = [n \in 0..Len(l) |-> IF n = 0 THEN Blank ELSE Apply(header[n - 1], r, l[n].ev)]
  BY <1>3
<1> HIDE DEF header
<1> DEFINE M == {k \in 0..Len(l) : header[k] = f[k]}
<1>5. 0 \in M
  BY <1>2, <1>4, LineTypes DEF Passes
<1>6. ASSUME NEW k \in 1..Len(l), k - 1 \in M PROVE k \in M
  BY <1>2, <1>4, <1>6, LineTypes DEF Passes
<1>7. Len(l) \in M
  <2>1. Len(l) \in Nat
    BY LineTypes
  <2> HIDE DEF M
  <2>2. \A k \in 0..Len(l) : k \in M
    BY <1>5, <1>6, <2>1, UpTo
  <2> QED
    BY <2>1, <2>2
<1> QED
  BY <1>1, <1>2, <1>7

LEMMA ReplayProperties ==
    ASSUME NEW r \in Run
    PROVE  /\ Replay(r, <<>>) = Blank
           /\ \A l \in Seq(Lines) : Replay(r, l) \in Header
           /\ \A l \in Seq(Lines) : \A x \in Lines : Replay(r, Append(l, x)) = Apply(Replay(r, l), r, x.ev)
<1>1. Replay(r, <<>>) = Blank
  <2>1. <<>> \in Seq(Lines) /\ Len(<<>>) = 0
    BY EmptySeq
  <2> QED
    BY <2>1, ReplayPasses DEF Passes
<1>2. ASSUME NEW l \in Seq(Lines) PROVE Replay(r, l) \in Header
  BY ReplayPasses, LineTypes DEF Passes
<1>3. ASSUME NEW l \in Seq(Lines), NEW x \in Lines
      PROVE  Replay(r, Append(l, x)) = Apply(Replay(r, l), r, x.ev)
  <2> DEFINE m == Append(l, x)
  <2>1. m \in Seq(Lines) /\ Len(m) = Len(l) + 1 /\ m[Len(l) + 1] = x /\ \A k \in 1..Len(l) : m[k] = l[k]
    BY AppendProperties, LineTypes
  <2> HIDE DEF m
  <2>2. PICK f : Passes(f, Blank, r, l) /\ Replay(r, l) = f[Len(l)]
    BY ReplayPasses
  <2>3. PICK g : Passes(g, Blank, r, m) /\ Replay(r, m) = g[Len(m)]
    BY <2>1, ReplayPasses
  <2> DEFINE M == {k \in 0..Len(l) : g[k] = f[k]}
  <2>4. 0 \in M
    BY <2>2, <2>3, LineTypes DEF Passes
  <2>5. ASSUME NEW k \in 1..Len(l), k - 1 \in M PROVE k \in M
    BY <2>1, <2>2, <2>3, <2>5, LineTypes DEF Passes
  <2>6. Len(l) \in M
    <3>1. Len(l) \in Nat
      BY LineTypes
    <3> HIDE DEF M
    <3>2. \A k \in 0..Len(l) : k \in M
      BY <2>4, <2>5, <3>1, UpTo
    <3> QED
      BY <3>1, <3>2
  <2>7. g[Len(m)] = Apply(g[Len(l)], r, x.ev)
    BY <2>1, <2>3, LineTypes DEF Passes
  <2> QED
    BY <2>2, <2>3, <2>6, <2>7 DEF m
<1> QED
  BY <1>1, <1>2, <1>3

\* Filling a header line by line in the database gives what replaying the lines gives.
LEMMA RefillPasses ==
    ASSUME NEW r \in Run, NEW l \in Seq(Lines), NEW from \in Header
    PROVE  \E g : Passes(g, from, r, l) /\ Refill(from, r, l) = g[Len(l)]
<1> DEFINE header[n \in 0..Len(l)] == IF n = 0 THEN from ELSE UpdateMeta(header[n - 1], r, l[n].ev)
<1>1. Refill(from, r, l) = header[Len(l)]
  BY DEF Refill
<1>2. PICK f : Passes(f, from, r, l)
  BY PassesExists
<1>3. \A n \in 1..Len(l) : f[n] = UpdateMeta(f[n - 1], r, l[n].ev)
  BY <1>2, LineTypes, ApplyProperties DEF Passes
<1>4. f = [n \in 0..Len(l) |-> IF n = 0 THEN from ELSE UpdateMeta(f[n - 1], r, l[n].ev)]
  BY <1>2, <1>3, LineTypes DEF Passes
<1>5. header = [n \in 0..Len(l) |-> IF n = 0 THEN from ELSE UpdateMeta(header[n - 1], r, l[n].ev)]
  BY <1>4
<1> HIDE DEF header
<1> DEFINE M == {k \in 0..Len(l) : header[k] = f[k]}
<1>6. 0 \in M
  BY <1>2, <1>5, LineTypes DEF Passes
<1>7. ASSUME NEW k \in 1..Len(l), k - 1 \in M PROVE k \in M
  BY <1>3, <1>5, <1>7, LineTypes
<1>8. Len(l) \in M
  <2>1. Len(l) \in Nat
    BY LineTypes
  <2> HIDE DEF M
  <2>2. \A k \in 0..Len(l) : k \in M
    BY <1>6, <1>7, <2>1, UpTo
  <2> QED
    BY <2>1, <2>2
<1> QED
  BY <1>1, <1>2, <1>8

LEMMA RefillProperties ==
    ASSUME NEW r \in Run, NEW l \in Seq(Lines)
    PROVE  /\ Refill(Blank, r, l) = Replay(r, l)
           /\ \A from \in Header : Refill(from, r, l) \in Header
<1>1. Refill(Blank, r, l) = Replay(r, l)
  <2>1. PICK f : Passes(f, Blank, r, l) /\ Refill(Blank, r, l) = f[Len(l)]
    BY RefillPasses, BlankIsAHeader
  <2>2. PICK g : Passes(g, Blank, r, l) /\ Replay(r, l) = g[Len(l)]
    BY ReplayPasses
  <2> DEFINE M == {k \in 0..Len(l) : f[k] = g[k]}
  <2>3. 0 \in M
    BY <2>1, <2>2, LineTypes DEF Passes
  <2>4. ASSUME NEW k \in 1..Len(l), k - 1 \in M PROVE k \in M
    BY <2>1, <2>2, <2>4, LineTypes DEF Passes
  <2>5. Len(l) \in M
    <3>1. Len(l) \in Nat
      BY LineTypes
    <3> HIDE DEF M
    <3>2. \A k \in 0..Len(l) : k \in M
      BY <2>3, <2>4, <3>1, UpTo
    <3> QED
      BY <3>1, <3>2
  <2> QED
    BY <2>1, <2>2, <2>5
<1>2. ASSUME NEW from \in Header PROVE Refill(from, r, l) \in Header
  BY RefillPasses, LineTypes DEF Passes
<1> QED
  BY <1>1, <1>2

-----------------------------------------------------------------------------
(* Types.                                                                  *)

\* The events that a writer says, and the lines they become.
Said(g) == {e \in Events :
    /\ e.by = g
    /\ \/ g = Main /\ e.kind = "run_start" /\ e.n = 0
       \/ g = Main /\ e.kind \in Status /\ e.n = 1
       \/ g # Main /\ e.kind \in Counted /\ e.n # 0}

SaidLines == {x \in Lines : x.ev = Torn \/ x.ev \in Said(x.ev.by)}

PendingTypes ==
    /\ pending \in [Run -> [Writer -> Slot]]
    /\ \A r \in Run, g \in Writer :
         /\ Free(r, g) \/ pending[r][g].ev \in Said(g)
         /\ pending[r][g].at = "numbered" => backend = "jsonl"

ControlTypes ==
    /\ backend \in Backends
    /\ pc \in [Run -> {"new", "running", "end", "dead"}]
    /\ done \in [Run -> [Goroutine -> Nat]]
    /\ handle \in [Opener -> {"off", "scan", "fill", "prune", "open", "closed"}]
    /\ crashes \in 0..MaxCrashes /\ faults \in 0..MaxFaults
    /\ lost \subseteq Run /\ entered \subseteq Run

MemoryTypes == ring \in Seq(Run) /\ Len(ring) <= Retention /\ head \in [Run -> Header]

DiskTypes ==
    /\ file \in [Run -> Seq(SaidLines)] /\ next \in [Run -> Nat]
    /\ DOMAIN row \subseteq Run /\ row \in [DOMAIN row -> Header]
    /\ seen \in [Opener -> [Run -> Seq(SaidLines)]]

Types == ControlTypes /\ PendingTypes /\ MemoryTypes /\ DiskTypes

LEMMA Names ==
    /\ Main \in Writer /\ App \in Opener /\ Run \subseteq Nat \ {0}
    /\ \A g \in Goroutine : g \in Writer /\ g # Main
    /\ Runs \in Nat \ {0} /\ Retention \in Nat \ {0}
BY JournalAssumption DEF Writer, Opener, Run

LEMMA SaidEvents ==
    /\ Event("run_start", Main, 0) \in Said(Main)
    /\ \A s \in Status : Event(s, Main, 1) \in Said(Main)
    /\ \A g \in Goroutine : \A k \in Counted : \A n \in Nat \ {0} : Event(k, g, n) \in Said(g)
    /\ \A g \in Writer : Said(g) \subseteq Events
    /\ Torn \in Events
<1>1. Event("run_start", Main, 0) \in Said(Main)
  BY Names DEF Said, Event, Events
<1>2. ASSUME NEW s \in Status PROVE Event(s, Main, 1) \in Said(Main)
  BY Names DEF Said, Event, Events
<1>3. ASSUME NEW g \in Goroutine, NEW k \in Counted, NEW n \in Nat \ {0} PROVE Event(k, g, n) \in Said(g)
  BY Names DEF Said, Event, Events
<1>4. Torn \in Events
  BY Names DEF Torn, Event, Events
<1> QED
  BY <1>1, <1>2, <1>3, <1>4 DEF Said

LEMMA SaidLinesAreLines ==
    /\ SaidLines \subseteq Lines
    /\ \A l : l \in Seq(SaidLines) => l \in Seq(Lines)
<1>1. SaidLines \subseteq Lines
  BY DEF SaidLines
<1> QED
  BY <1>1, SeqMonotonic

\* A slot by its parts, and the changes of one.
LEMMA SlotParts ==
    ASSUME PendingTypes, NEW r \in Run, NEW g \in Writer
    PROVE  /\ pending[r][g] = [at |-> pending[r][g].at, ev |-> pending[r][g].ev, seq |-> pending[r][g].seq]
           /\ pending[r][g].at \in {"idle", "handed", "numbered"}
           /\ pending[r][g].ev \in Events /\ pending[r][g].seq \in Nat
<1>1. pending[r][g] \in Slot
  BY DEF PendingTypes
<1> QED
  BY <1>1 DEF Slot

LEMMA SlotChanges ==
    ASSUME PendingTypes, NEW r \in Run, NEW g \in Writer, NEW p \in Slot,
           pending' = [pending EXCEPT ![r][g] = p]
    PROVE  /\ pending'[r][g] = p
           /\ \A q \in Run, h \in Writer : q # r \/ h # g => pending'[q][h] = pending[q][h]
           /\ \A q \in Run : q # r => pending'[q] = pending[q]
           /\ \A h \in Writer : h # g => pending'[r][h] = pending[r][h]
           /\ pending' \in [Run -> [Writer -> Slot]]
BY DEF PendingTypes

LEMMA OneSlot ==
    ASSUME PendingTypes, backend' = backend, NEW r \in Run, NEW g \in Writer, NEW p \in Slot,
           pending' = [pending EXCEPT ![r][g] = p],
           p.at = "idle" \/ p.ev \in Said(g), p.at = "numbered" => backend = "jsonl"
    PROVE  PendingTypes'
<1>1. /\ pending'[r][g] = p /\ pending' \in [Run -> [Writer -> Slot]]
      /\ \A q \in Run, h \in Writer : q # r \/ h # g => pending'[q][h] = pending[q][h]
  BY SlotChanges
<1>2. ASSUME NEW q \in Run, NEW h \in Writer
      PROVE  /\ pending'[q][h].at = "idle" \/ pending'[q][h].ev \in Said(h)
             /\ pending'[q][h].at = "numbered" => backend' = "jsonl"
  <2>1. CASE q = r /\ h = g
    BY <1>1, <2>1
  <2>2. CASE q # r \/ h # g
    BY <1>1, <2>2 DEF PendingTypes, Free
  <2> QED
    BY <2>1, <2>2
<1> QED
  BY <1>1, <1>2 DEF PendingTypes, Free

\* The actions, with the process that opens the database alone.
LEMMA Steps ==
    ASSUME Next
    PROVE  \/ Close \/ Crash
           \/ \E o \in Opener : Open(o) \/ Scan(o) \/ Backfill(o) \/ Prune(o)
           \/ \E r \in Run : \/ Start(r)
                             \/ \E g \in Goroutine : AppendEvent(r, g)
                             \/ \E s \in Outcomes : Finish(r, s)
                             \/ \E g \in Writer : Number(r, g) \/ WriteLine(r, g) \/ Insert(r, g) \/ WriteFails(r, g)
BY DEF Next, RunStep, Write

\* The event that a goroutine hands to the journal.
EventOf(r, g) == Event(Work[r][g][done[r][g] + 1], g, done[r][g] + 1)

LEMMA EventsOfWork ==
    ASSUME ControlTypes, NEW r \in Run, NEW g \in Goroutine, done[r][g] < Len(Work[r][g])
    PROVE  EventOf(r, g) \in Said(g) /\ EventOf(r, g) \in Events /\ EventOf(r, g).kind \in Counted
           /\ EventOf(r, g).n = done[r][g] + 1 /\ EventOf(r, g).by = g
<1>1. done[r][g] \in Nat /\ Work[r][g] \in Seq(Counted)
  BY JournalAssumption DEF ControlTypes
<1>2. Len(Work[r][g]) \in Nat
  BY <1>1, LenProperties
<1>3. done[r][g] + 1 \in 1..Len(Work[r][g])
  BY <1>1, <1>2
<1>4. Work[r][g][done[r][g] + 1] \in Counted
  BY <1>1, <1>3, ElementOfSeq
<1>5. EventOf(r, g) \in Said(g)
  BY <1>1, <1>4, SaidEvents DEF EventOf
<1>6. EventOf(r, g) \in Events
  BY <1>5 DEF Said
<1> QED
  BY <1>4, <1>5, <1>6 DEF EventOf, Event

\* What an action does to the slots.
LEMMA Starts ==
    ASSUME Types, NEW r \in Run, Start(r)
    PROVE  /\ PendingTypes'
           /\ \A q \in Run : q # r => pending'[q] = pending[q]
           /\ \A g \in Goroutine : pending'[r][g] = pending[r][g]
           /\ pending'[r][Main] = [at |-> "handed", ev |-> Event("run_start", Main, 0), seq |-> 0]
<1> DEFINE p == [at |-> "handed", ev |-> Event("run_start", Main, 0), seq |-> 0]
<1>1. p \in Slot /\ p.ev \in Said(Main) /\ p.at = "handed"
  BY SaidEvents, Names DEF Slot
<1>2. pending' = [pending EXCEPT ![r][Main] = p] /\ backend' = backend
  BY DEF Start, Hand
<1> HIDE DEF p
<1>3. p.at # "numbered"
  BY <1>1
<1>4. PendingTypes'
  BY <1>1, <1>2, <1>3, OneSlot, Names DEF Types
<1>5. /\ pending'[r][Main] = p
      /\ \A q \in Run : q # r => pending'[q] = pending[q]
      /\ \A g \in Writer : g # Main => pending'[r][g] = pending[r][g]
  <2>1. Main \in Writer /\ \A h \in Goroutine : h \in Writer
    BY Names
  <2>2. PendingTypes
    BY DEF Types
  <2> QED
    BY <2>1, <2>2, <1>1, <1>2, SlotChanges
<1> QED
  BY <1>4, <1>5, Names DEF p

LEMMA Appends ==
    ASSUME Types, NEW r \in Run, NEW g \in Goroutine, AppendEvent(r, g)
    PROVE  /\ PendingTypes'
           /\ \A q \in Run : q # r => pending'[q] = pending[q]
           /\ \A h \in Writer : h # g => pending'[r][h] = pending[r][h]
           /\ pending'[r][g] = [at |-> "handed", ev |-> EventOf(r, g), seq |-> 0]
           /\ EventOf(r, g) \in Said(g) /\ EventOf(r, g) \in Events /\ EventOf(r, g).kind \in Counted
           /\ EventOf(r, g).n = done[r][g] + 1 /\ EventOf(r, g).by = g
           /\ done' = [done EXCEPT ![r][g] = done[r][g] + 1]
           /\ head' = IF InRing(r) THEN [head EXCEPT ![r] = Apply(@, r, EventOf(r, g))] ELSE head
<1> DEFINE p == [at |-> "handed", ev |-> EventOf(r, g), seq |-> 0]
<1>1. /\ EventOf(r, g) \in Said(g) /\ EventOf(r, g) \in Events /\ EventOf(r, g).kind \in Counted
      /\ EventOf(r, g).n = done[r][g] + 1 /\ EventOf(r, g).by = g
  BY EventsOfWork DEF AppendEvent, Types
<1>2. p \in Slot /\ p.ev \in Said(g) /\ p.at = "handed"
  BY <1>1 DEF Slot
<1>3. /\ pending' = [pending EXCEPT ![r][g] = p] /\ backend' = backend
      /\ done' = [done EXCEPT ![r][g] = done[r][g] + 1]
      /\ head' = IF InRing(r) THEN [head EXCEPT ![r] = Apply(@, r, EventOf(r, g))] ELSE head
  BY DEF AppendEvent, Hand, EventOf
<1> HIDE DEF p
<1>4. p.at # "numbered"
  BY <1>2
<1>5. PendingTypes'
  BY <1>2, <1>3, <1>4, OneSlot, Names DEF Types
<1>6. /\ pending'[r][g] = p
      /\ \A q \in Run : q # r => pending'[q] = pending[q]
      /\ \A h \in Writer : h # g => pending'[r][h] = pending[r][h]
  <2>1. g \in Writer
    BY Names
  <2>2. PendingTypes
    BY DEF Types
  <2> QED
    BY <2>1, <2>2, <1>2, <1>3, SlotChanges
<1> QED
  BY <1>1, <1>3, <1>5, <1>6 DEF p

LEMMA Finishes ==
    ASSUME Types, NEW r \in Run, NEW s \in Outcomes, Finish(r, s)
    PROVE  /\ PendingTypes'
           /\ \A q \in Run : q # r => pending'[q] = pending[q]
           /\ \A g \in Goroutine : pending'[r][g] = pending[r][g]
           /\ pending'[r][Main] = [at |-> "handed", ev |-> Event(s, Main, 1), seq |-> 0]
           /\ s \in Status
<1> DEFINE p == [at |-> "handed", ev |-> Event(s, Main, 1), seq |-> 0]
<1>1. s \in Status
  BY JournalAssumption
<1>2. p \in Slot /\ p.ev \in Said(Main) /\ p.at = "handed"
  BY <1>1, SaidEvents, Names DEF Slot
<1>3. pending' = [pending EXCEPT ![r][Main] = p] /\ backend' = backend
  BY DEF Finish, Hand
<1> HIDE DEF p
<1>4. p.at # "numbered"
  BY <1>2
<1>5. PendingTypes'
  BY <1>2, <1>3, <1>4, OneSlot, Names DEF Types
<1>6. /\ pending'[r][Main] = p
      /\ \A q \in Run : q # r => pending'[q] = pending[q]
      /\ \A g \in Writer : g # Main => pending'[r][g] = pending[r][g]
  <2>1. Main \in Writer /\ \A h \in Goroutine : h \in Writer
    BY Names
  <2>2. PendingTypes
    BY DEF Types
  <2> QED
    BY <2>1, <2>2, <1>2, <1>3, SlotChanges
<1> QED
  BY <1>1, <1>5, <1>6, Names DEF p

LEMMA Numbers ==
    ASSUME Types, NEW r \in Run, NEW g \in Writer, Number(r, g)
    PROVE  /\ PendingTypes'
           /\ \A q \in Run : q # r => pending'[q] = pending[q]
           /\ \A h \in Writer : h # g => pending'[r][h] = pending[r][h]
           /\ pending'[r][g] = [at |-> "numbered", ev |-> pending[r][g].ev, seq |-> next[r]]
           /\ pending[r][g].at = "handed" /\ pending[r][g].ev \in Said(g) /\ backend = "jsonl"
<1> DEFINE p == [at |-> "numbered", ev |-> pending[r][g].ev, seq |-> next[r]]
<1>1. pending[r][g].at = "handed" /\ pending[r][g].ev \in Said(g) /\ backend = "jsonl" /\ backend' = backend
  BY DEF Types, PendingTypes, Free, Number
<1>2. next[r] \in Nat
  BY DEF Types, DiskTypes
<1>3. p \in Slot /\ p.ev \in Said(g)
  BY <1>1, <1>2, SaidEvents, Names DEF Slot
<1>4. pending' = [pending EXCEPT ![r][g] = p]
  BY DEF Number, Types, PendingTypes
<1> HIDE DEF p
<1>5. PendingTypes'
  BY <1>1, <1>3, <1>4, OneSlot DEF Types
<1>6. /\ pending'[r][g] = p
      /\ \A q \in Run : q # r => pending'[q] = pending[q]
      /\ \A h \in Writer : h # g => pending'[r][h] = pending[r][h]
  <2>1. PendingTypes
    BY DEF Types
  <2> QED
    BY <2>1, <1>3, <1>4, SlotChanges
<1> QED
  BY <1>1, <1>5, <1>6 DEF p

LEMMA Releases ==
    ASSUME Types, NEW r \in Run, NEW g \in Writer, Release(r, g), backend' = backend
    PROVE  /\ PendingTypes'
           /\ \A q \in Run : q # r => pending'[q] = pending[q]
           /\ \A h \in Writer : h # g => pending'[r][h] = pending[r][h]
           /\ pending'[r][g] = Idle
<1>1. Idle \in Slot /\ Idle.at = "idle"
  BY SaidEvents, Names DEF Slot, Idle
<1>2. pending' = [pending EXCEPT ![r][g] = Idle]
  BY DEF Release
<1>3. Idle.at # "numbered"
  BY <1>1
<1>4. PendingTypes'
  BY <1>1, <1>2, <1>3, OneSlot DEF Types
<1>5. /\ pending'[r][g] = Idle
      /\ \A q \in Run : q # r => pending'[q] = pending[q]
      /\ \A h \in Writer : h # g => pending'[r][h] = pending[r][h]
  <2>1. PendingTypes
    BY DEF Types
  <2> QED
    BY <2>1, <1>1, <1>2, SlotChanges
<1> QED
  BY <1>4, <1>5

LEMMA Crashes ==
    ASSUME Types, Crash
    PROVE  /\ PendingTypes'
           /\ \A q \in Run, h \in Writer : pending'[q][h] = Idle /\ Free(q, h)'
<1>1. Idle \in Slot /\ Idle.at = "idle"
  BY SaidEvents, Names DEF Slot, Idle
<1>2. pending' = [q \in Run |-> [h \in Writer |-> Idle]]
  BY DEF Crash
<1>3. Idle.at # "numbered"
  BY <1>1
<1>4. \A q \in Run, h \in Writer : pending'[q][h] = Idle
  BY <1>2
<1>5. pending' \in [Run -> [Writer -> Slot]]
  BY <1>1, <1>2
<1> QED
  BY <1>1, <1>3, <1>4, <1>5 DEF PendingTypes, Free

-----------------------------------------------------------------------------
(* What the disk goes through.                                             *)

InRow(q)  == q \in DOMAIN row
Kept(q)   == /\ file'[q] = file[q] /\ next'[q] = next[q]
             /\ (InRow(q)' <=> InRow(q)) /\ (InRow(q) => row'[q] = row[q])
Wiped(q)  == file'[q] = <<>> /\ next'[q] = 0 /\ ~InRow(q)'
Added(r, g) ==
    /\ file'[r] = Append(file[r], Line(next[r], pending[r][g].ev)) /\ next'[r] = next[r] + 1
    /\ InRow(r)' /\ row'[r] = UpdateMeta(RowOf(r), r, pending[r][g].ev)

\* The database after a transaction, before its trim.
RowsAfter(r, g)  == [q \in DOMAIN row \cup {r} |->
                       IF q = r THEN UpdateMeta(RowOf(r), r, pending[r][g].ev) ELSE row[q]]
FilesAfter(r, g) == [file EXCEPT ![r] = Append(@, Line(next[r], pending[r][g].ev))]
NextsAfter(r)    == [next EXCEPT ![r] = @ + 1]

LEMMA TrimDoes ==
    ASSUME NEW files \in [Run -> Seq(SaidLines)], NEW nexts \in [Run -> Nat],
           NEW D \in SUBSET Run, NEW rows \in [D -> Header],
           row'  = [r \in DOMAIN rows \ Stale(rows) |-> rows[r]],
           file' = [r \in Run |-> IF r \in Stale(rows) THEN <<>> ELSE files[r]],
           next' = [r \in Run |-> IF r \in Stale(rows) THEN 0 ELSE nexts[r]]
    PROVE  /\ file' \in [Run -> Seq(SaidLines)] /\ next' \in [Run -> Nat]
           /\ DOMAIN row' = D \ Stale(rows) /\ row' \in [DOMAIN row' -> Header]
           /\ \A q \in DOMAIN row' : row'[q] = rows[q]
           /\ \A q \in Run : IF q \in Stale(rows) THEN file'[q] = <<>> /\ next'[q] = 0
                                                  ELSE file'[q] = files[q] /\ next'[q] = nexts[q]
<1> DEFINE T == Stale(rows)
<1>0. DOMAIN rows = D
  OBVIOUS
<1>1. /\ row'  = [r \in D \ T |-> rows[r]]
      /\ file' = [r \in Run |-> IF r \in T THEN <<>> ELSE files[r]]
      /\ next' = [r \in Run |-> IF r \in T THEN 0 ELSE nexts[r]]
  BY <1>0
<1>2. <<>> \in Seq(SaidLines)
  BY EmptySeq
<1> HIDE DEF T
<1>3. file' \in [Run -> Seq(SaidLines)]
  BY <1>1, <1>2
<1>4. next' \in [Run -> Nat]
  BY <1>1
<1>5. DOMAIN row' = D \ T /\ \A q \in DOMAIN row' : row'[q] = rows[q]
  BY <1>1
<1>6. row' \in [DOMAIN row' -> Header]
  BY <1>1, <1>5
<1>7. \A q \in Run : IF q \in T THEN file'[q] = <<>> /\ next'[q] = 0
                                ELSE file'[q] = files[q] /\ next'[q] = nexts[q]
  BY <1>1
<1> QED
  BY <1>3, <1>4, <1>5, <1>6, <1>7 DEF T

LEMMA SaidLine ==
    ASSUME NEW g \in Writer, NEW ev \in Said(g), NEW n \in Nat
    PROVE  Line(n, ev) \in SaidLines /\ Line(n, ev).ev = ev /\ Line(n, ev).seq = n
<1>1. ev \in Events /\ ev.by = g
  BY DEF Said
<1> QED
  BY <1>1 DEF Line, SaidLines, Lines

LEMMA RowsAreHeaders == ASSUME DiskTypes, NEW r \in Run PROVE RowOf(r) \in Header
BY BlankIsAHeader DEF DiskTypes, RowOf

LEMMA AfterTypes ==
    ASSUME Types, NEW r \in Run, NEW g \in Writer, ~Free(r, g)
    PROVE  /\ FilesAfter(r, g) \in [Run -> Seq(SaidLines)] /\ NextsAfter(r) \in [Run -> Nat]
           /\ DOMAIN RowsAfter(r, g) = DOMAIN row \cup {r} /\ DOMAIN RowsAfter(r, g) \subseteq Run
           /\ RowsAfter(r, g) \in [DOMAIN RowsAfter(r, g) -> Header]
           /\ FilesAfter(r, g)[r] = Append(file[r], Line(next[r], pending[r][g].ev))
           /\ NextsAfter(r)[r] = next[r] + 1
           /\ \A q \in Run : q # r => FilesAfter(r, g)[q] = file[q] /\ NextsAfter(r)[q] = next[q]
           /\ RowsAfter(r, g)[r] = UpdateMeta(RowOf(r), r, pending[r][g].ev)
           /\ \A q \in DOMAIN row : q # r => RowsAfter(r, g)[q] = row[q]
<1>1. pending[r][g].ev \in Said(g) /\ pending[r][g].ev \in Events /\ next[r] \in Nat /\ file[r] \in Seq(SaidLines)
  BY SlotParts DEF Types, PendingTypes, DiskTypes
<1>2. Line(next[r], pending[r][g].ev) \in SaidLines
  BY <1>1, SaidLine
<1>3. Append(file[r], Line(next[r], pending[r][g].ev)) \in Seq(SaidLines)
  BY <1>1, <1>2, AppendProperties
<1>4. /\ FilesAfter(r, g) \in [Run -> Seq(SaidLines)]
      /\ FilesAfter(r, g)[r] = Append(file[r], Line(next[r], pending[r][g].ev))
      /\ \A q \in Run : q # r => FilesAfter(r, g)[q] = file[q]
  BY <1>3 DEF FilesAfter, Types, DiskTypes
<1>5. /\ NextsAfter(r) \in [Run -> Nat] /\ NextsAfter(r)[r] = next[r] + 1
      /\ \A q \in Run : q # r => NextsAfter(r)[q] = next[q]
  BY DEF NextsAfter, Types, DiskTypes
<1>6. UpdateMeta(RowOf(r), r, pending[r][g].ev) \in Header
  BY <1>1, RowsAreHeaders, ApplyProperties DEF Types
<1>7. \A q \in DOMAIN row : row[q] \in Header
  BY DEF Types, DiskTypes
<1>8. DOMAIN RowsAfter(r, g) = DOMAIN row \cup {r} /\ DOMAIN RowsAfter(r, g) \subseteq Run
  BY DEF RowsAfter, Types, DiskTypes
<1>9. /\ RowsAfter(r, g)[r] = UpdateMeta(RowOf(r), r, pending[r][g].ev)
      /\ \A q \in DOMAIN row : q # r => RowsAfter(r, g)[q] = row[q]
  BY DEF RowsAfter
<1>10. RowsAfter(r, g) \in [DOMAIN RowsAfter(r, g) -> Header]
  <2> DEFINE u == UpdateMeta(RowOf(r), r, pending[r][g].ev)
  <2>1. RowsAfter(r, g) = [q \in DOMAIN row \cup {r} |-> IF q = r THEN u ELSE row[q]]
    BY DEF RowsAfter
  <2>2. u \in Header
    BY <1>6
  <2> HIDE DEF u
  <2> QED
    BY <1>7, <1>8, <2>1, <2>2
<1> QED
  BY <1>4, <1>5, <1>8, <1>9, <1>10

LEMMA Inserts ==
    ASSUME Types, NEW r \in Run, NEW g \in Writer, Insert(r, g)
    PROVE  /\ file' \in [Run -> Seq(SaidLines)] /\ next' \in [Run -> Nat]
           /\ DOMAIN row' \subseteq Run /\ row' \in [DOMAIN row' -> Header]
           /\ \A q \in Run : q # r => Kept(q) \/ Wiped(q)
           /\ Added(r, g) \/ Wiped(r)
           /\ pending[r][g].ev.kind # "run_start" => Added(r, g) /\ \A q \in Run : q # r => Kept(q)
           /\ pending[r][g].ev.kind = "run_start" => Trim(FilesAfter(r, g), NextsAfter(r), RowsAfter(r, g))
<1>1. ~Free(r, g)
  BY DEF Insert
<1>2. IF pending[r][g].ev.kind = "run_start"
        THEN Trim(FilesAfter(r, g), NextsAfter(r), RowsAfter(r, g))
        ELSE file' = FilesAfter(r, g) /\ next' = NextsAfter(r) /\ row' = RowsAfter(r, g)
  BY DEF Insert, FilesAfter, NextsAfter, RowsAfter
<1>0. /\ r \in Run /\ DOMAIN RowsAfter(r, g) = DOMAIN row \cup {r}
      /\ FilesAfter(r, g)[r] = Append(file[r], Line(next[r], pending[r][g].ev))
      /\ NextsAfter(r)[r] = next[r] + 1
      /\ \A q \in Run : q # r => FilesAfter(r, g)[q] = file[q] /\ NextsAfter(r)[q] = next[q]
      /\ RowsAfter(r, g)[r] = UpdateMeta(RowOf(r), r, pending[r][g].ev)
      /\ \A q \in DOMAIN row : q # r => RowsAfter(r, g)[q] = row[q]
  BY <1>1, AfterTypes
<1>3. CASE pending[r][g].ev.kind = "run_start"
  <2> DEFINE T == Stale(RowsAfter(r, g))
  <2>1. /\ file' \in [Run -> Seq(SaidLines)] /\ next' \in [Run -> Nat]
        /\ DOMAIN row' = DOMAIN RowsAfter(r, g) \ T /\ row' \in [DOMAIN row' -> Header]
        /\ \A q \in DOMAIN row' : row'[q] = RowsAfter(r, g)[q]
        /\ \A q \in Run : IF q \in T THEN file'[q] = <<>> /\ next'[q] = 0
                                     ELSE file'[q] = FilesAfter(r, g)[q] /\ next'[q] = NextsAfter(r)[q]
    <3>1. /\ FilesAfter(r, g) \in [Run -> Seq(SaidLines)] /\ NextsAfter(r) \in [Run -> Nat]
          /\ DOMAIN RowsAfter(r, g) \subseteq Run /\ RowsAfter(r, g) \in [DOMAIN RowsAfter(r, g) -> Header]
      BY <1>1, AfterTypes
    <3>2. Trim(FilesAfter(r, g), NextsAfter(r), RowsAfter(r, g))
      BY <1>2, <1>3
    <3> QED
      BY <3>1, <3>2, TrimDoes DEF Trim
  <2>2. ASSUME NEW q \in Run, q # r PROVE Kept(q) \/ Wiped(q)
    <3>1. CASE q \in T
      BY <2>1, <3>1 DEF Wiped, InRow
    <3>2. CASE q \notin T
      BY <1>0, <2>1, <2>2, <3>2 DEF Kept, InRow
    <3> QED
      BY <3>1, <3>2
  <2>3. CASE r \in T
    BY <1>1, <1>2, <1>3, <2>1, <2>2, <2>3, AfterTypes DEF Wiped, InRow
  <2>4. CASE r \notin T
    <3>1. Added(r, g)
      BY <1>0, <2>1, <2>4 DEF Added, InRow
    <3> QED
      BY <1>1, <1>2, <1>3, <2>1, <2>2, <3>1, AfterTypes
  <2> QED
    BY <2>3, <2>4
<1>4. CASE pending[r][g].ev.kind # "run_start"
  <2>1. file' = FilesAfter(r, g) /\ next' = NextsAfter(r) /\ row' = RowsAfter(r, g)
    BY <1>2, <1>4
  <2>2. Added(r, g)
    BY <1>1, <2>1, AfterTypes DEF Added, InRow
  <2>3. ASSUME NEW q \in Run, q # r PROVE Kept(q)
    BY <1>0, <2>1, <2>3 DEF Kept, InRow
  <2>4. /\ file' \in [Run -> Seq(SaidLines)] /\ next' \in [Run -> Nat]
        /\ DOMAIN row' \subseteq Run /\ row' \in [DOMAIN row' -> Header]
    BY <1>1, <2>1, AfterTypes
  <2> QED
    BY <1>4, <2>2, <2>3, <2>4
<1> QED
  BY <1>3, <1>4

LEMMA Prunes ==
    ASSUME Types, NEW o \in Opener, Prune(o)
    PROVE  /\ file' \in [Run -> Seq(SaidLines)] /\ next' \in [Run -> Nat]
           /\ DOMAIN row' = DOMAIN row \ Stale(row) /\ row' \in [DOMAIN row' -> Header]
           /\ \A q \in DOMAIN row' : row'[q] = row[q]
           /\ \A q \in Run : Kept(q) \/ Wiped(q)
<1>1. /\ file' \in [Run -> Seq(SaidLines)] /\ next' \in [Run -> Nat]
      /\ DOMAIN row' = DOMAIN row \ Stale(row) /\ row' \in [DOMAIN row' -> Header]
      /\ \A q \in DOMAIN row' : row'[q] = row[q]
      /\ \A q \in Run : IF q \in Stale(row) THEN file'[q] = <<>> /\ next'[q] = 0
                                            ELSE file'[q] = file[q] /\ next'[q] = next[q]
  <2>1. Trim(file, next, row)
    BY DEF Prune
  <2>2. file \in [Run -> Seq(SaidLines)] /\ next \in [Run -> Nat] /\ DOMAIN row \subseteq Run /\ row \in [DOMAIN row -> Header]
    BY DEF Types, DiskTypes
  <2> QED
    BY <2>1, <2>2, TrimDoes DEF Trim
<1>2. ASSUME NEW q \in Run PROVE Kept(q) \/ Wiped(q)
  BY <1>1 DEF Kept, Wiped, InRow
<1> QED
  BY <1>1, <1>2

LEMMA Backfills ==
    ASSUME Types, NEW o \in Opener, Backfill(o)
    PROVE  /\ DOMAIN row' = DOMAIN row \cup {q \in Run : seen[o][q] # <<>>}
           /\ row' \in [DOMAIN row' -> Header]
           /\ DOMAIN row = {} => \A q \in DOMAIN row' : row'[q] = Replay(q, seen[o][q])
<1>1. row' = [r \in DOMAIN row \cup {q \in Run : seen[o][q] # <<>>} |-> Refill(RowOf(r), r, seen[o][r])]
  BY DEF Backfill
<1>2. DOMAIN row' = DOMAIN row \cup {q \in Run : seen[o][q] # <<>>}
  BY <1>1
<1>3. ASSUME DOMAIN row = {}, NEW q \in DOMAIN row' PROVE row'[q] = Replay(q, seen[o][q])
  <2>1. q \in Run /\ RowOf(q) = Blank
    BY <1>2, <1>3 DEF RowOf
  <2>2. seen[o][q] \in Seq(Lines)
    BY <2>1, SaidLinesAreLines DEF Types, DiskTypes
  <2>3. row'[q] = Refill(RowOf(q), q, seen[o][q])
    BY <1>1, <1>2
  <2> QED
    BY <2>1, <2>2, <2>3, RefillProperties
<1>4. \A q \in DOMAIN row' : q \in Run /\ Refill(RowOf(q), q, seen[o][q]) \in Header
  BY <1>2, SaidLinesAreLines, RowsAreHeaders, RefillProperties DEF Types, DiskTypes
<1>5. row' \in [DOMAIN row' -> Header]
  BY <1>1, <1>2, <1>4
<1> QED
  BY <1>2, <1>3, <1>5

\* The run of an older version is a start, an event and an end.
LEMMA OldRunIsSaid ==
    /\ OldRun \in Seq(SaidLines) /\ Len(OldRun) = 3
    /\ \A i \in 1..3 : OldRun[i].seq = i - 1 /\ OldRun[i].ev # Torn
    /\ OldRun[1].ev = Event("run_start", Main, 0) /\ OldRun[3].ev = Event("ok", Main, 1)
    /\ OldRun[2].ev.by \in Goroutine /\ OldRun[2].ev.kind = "llm_response" /\ OldRun[2].ev.n = 1
<1> DEFINE g == CHOOSE h \in Goroutine : TRUE
           a == Line(0, Event("run_start", Main, 0))
           b == Line(1, Event("llm_response", g, 1))
           c == Line(2, Event("ok", Main, 1))
<1>1. g \in Goroutine
  BY JournalAssumption
<1>2. /\ Event("run_start", Main, 0) \in Said(Main)
      /\ Event("llm_response", g, 1) \in Said(g)
      /\ Event("ok", Main, 1) \in Said(Main)
  BY <1>1, SaidEvents DEF Counted, Status
<1>3. a \in SaidLines /\ b \in SaidLines /\ c \in SaidLines
  BY <1>1, <1>2, SaidLine, Names
<1>4. OldRun = <<a, b, c>>
  BY DEF OldRun
<1>5. /\ a.seq = 0 /\ b.seq = 1 /\ c.seq = 2 /\ a.ev = Event("run_start", Main, 0)
      /\ b.ev = Event("llm_response", g, 1) /\ c.ev = Event("ok", Main, 1)
      /\ a.ev # Torn /\ b.ev # Torn /\ c.ev # Torn
      /\ b.ev.by = g /\ b.ev.kind = "llm_response" /\ b.ev.n = 1
  BY DEF Line, Event, Torn
<1> HIDE DEF a, b, c, g
<1>6. <<a, b, c>> \in Seq(SaidLines) /\ Len(<<a, b, c>>) = 3
  BY <1>3
<1> QED
  BY <1>1, <1>4, <1>5, <1>6

LEMMA TypesInit == Init => Types
<1> SUFFICES ASSUME Init PROVE Types
  OBVIOUS
<1>1. Idle \in Slot /\ Idle.at = "idle"
  BY SaidEvents, Names DEF Slot, Idle
<1>2. PendingTypes
  <2>1. pending = [r \in Run |-> [g \in Writer |-> Idle]]
    BY DEF Init
  <2>2. \A r \in Run, g \in Writer : pending[r][g] = Idle
    BY <2>1
  <2>3. pending \in [Run -> [Writer -> Slot]]
    BY <1>1, <2>1
  <2>4. Idle.at # "numbered"
    BY <1>1
  <2> QED
    BY <1>1, <2>2, <2>3, <2>4 DEF PendingTypes, Free
<1>3. PICK old \in {{}, {1}} :
        /\ pc = [r \in Run |-> IF r \in old THEN "end" ELSE "new"]
        /\ file = [r \in Run |-> IF r \in old THEN OldRun ELSE <<>>]
        /\ next = [r \in Run |-> IF r \in old THEN Len(OldRun) ELSE 0]
        /\ entered = old
  BY DEF Init
<1>4. old \subseteq Run
  BY JournalAssumption DEF Run
<1>5. ControlTypes
  BY <1>3, <1>4, JournalAssumption DEF Init, ControlTypes
<1>6. MemoryTypes
  <2>1. <<>> \in Seq(Run) /\ Len(<<>>) = 0 /\ 0 <= Retention
    BY EmptySeq, Names
  <2>2. ring = <<>> /\ head = [r \in Run |-> Blank]
    BY DEF Init
  <2> QED
    BY <2>1, <2>2, BlankIsAHeader DEF MemoryTypes
<1>7. DiskTypes
  <2>1. <<>> \in Seq(SaidLines)
    BY EmptySeq
  <2>2. file \in [Run -> Seq(SaidLines)] /\ next \in [Run -> Nat]
    BY <1>3, <2>1, OldRunIsSaid
  <2>3. seen \in [Opener -> [Run -> Seq(SaidLines)]]
    BY <2>2 DEF Init
  <2>4. row = <<>>
    BY DEF Init
  <2>5. DOMAIN row \subseteq Run /\ row \in [DOMAIN row -> Header]
    BY <2>4
  <2> QED
    BY <2>2, <2>3, <2>5 DEF DiskTypes
<1> QED
  BY <1>2, <1>5, <1>6, <1>7 DEF Types

\* The ring after a push: the new run, and the old ones but for the oldest if there is no room.
LEMMA Pushes ==
    ASSUME MemoryTypes, NEW r \in Run
    PROVE  /\ Push(r) \in Seq(Run) /\ Len(Push(r)) <= Retention
           /\ r \in Range(Push(r)) /\ Range(Push(r)) \subseteq Range(ring) \cup {r}
<1>1. ring \in Seq(Run) /\ Len(ring) \in Nat /\ Len(ring) <= Retention /\ Retention \in Nat \ {0}
  BY Names, LenProperties DEF MemoryTypes
<1>2. CASE Len(ring) < Retention
  <2>1. Push(r) = Append(ring, r)
    BY <1>2 DEF Push
  <2>2. /\ Push(r) \in Seq(Run) /\ Len(Push(r)) = Len(ring) + 1 /\ Push(r)[Len(ring) + 1] = r
        /\ \A i \in 1..Len(ring) : Push(r)[i] = ring[i]
    BY <1>1, <2>1, AppendProperties
  <2> QED
    BY <1>1, <1>2, <2>2, LenProperties DEF Range
<1>3. CASE ~(Len(ring) < Retention)
  <2>1. Push(r) = Append(Tail(ring), r)
    BY <1>3 DEF Push
  <2>2. ring # <<>> /\ Len(ring) = Retention
    BY <1>1, <1>3, EmptySeq
  <2>3. /\ Tail(ring) \in Seq(Run) /\ Len(Tail(ring)) = Len(ring) - 1
        /\ \A i \in 1..Len(Tail(ring)) : Tail(ring)[i] = ring[i + 1]
    BY <1>1, <2>2, HeadTailProperties
  <2>4. /\ Push(r) \in Seq(Run) /\ Len(Push(r)) = Len(ring) /\ Push(r)[Len(ring)] = r
        /\ \A i \in 1..(Len(ring) - 1) : Push(r)[i] = ring[i + 1]
    BY <1>1, <2>1, <2>3, AppendProperties
  <2> QED
    BY <1>1, <2>2, <2>4, LenProperties DEF Range
<1> QED
  BY <1>2, <1>3

LEMMA TypesNext == Types /\ [Next]_vars => Types'
<1> SUFFICES ASSUME Types, [Next]_vars PROVE Types'
  OBVIOUS
<1> USE DEF Types
<1>1. CASE UNCHANGED vars
  BY <1>1 DEF vars, memory, disk, openers, history, ControlTypes, PendingTypes, MemoryTypes, DiskTypes, Free
<1>2. CASE Close
  BY <1>2, Names DEF Close, memory, disk, history, ControlTypes, PendingTypes, MemoryTypes, DiskTypes, Free
<1>3. CASE Crash
  <2>1. ControlTypes'
    <3>1. pc' \in [Run -> {"new", "running", "end", "dead"}]
      BY <1>3 DEF Crash, ControlTypes
    <3>2. done' \in [Run -> [Goroutine -> Nat]]
      BY <1>3 DEF Crash
    <3>3. handle' \in [Opener -> {"off", "scan", "fill", "prune", "open", "closed"}]
      BY <1>3 DEF Crash, ControlTypes
    <3>4. crashes' \in 0..MaxCrashes
      BY <1>3, JournalAssumption DEF Crash, ControlTypes
    <3> QED
      BY <1>3, <3>1, <3>2, <3>3, <3>4 DEF Crash, ControlTypes
  <2>2. PendingTypes'
    BY <1>3, Crashes
  <2>3. MemoryTypes'
    <3>1. <<>> \in Seq(Run) /\ Len(<<>>) = 0 /\ 0 <= Retention
      BY EmptySeq, Names
    <3>2. ring' = <<>> /\ head' = [r \in Run |-> Blank]
      BY <1>3 DEF Crash
    <3> QED
      BY <3>1, <3>2, BlankIsAHeader DEF MemoryTypes
  <2>4. DiskTypes'
    <3>1. PICK torn : file' = [r \in Run |-> IF r \in torn THEN Append(file[r], Line(0, Torn)) ELSE file[r]]
      BY <1>3 DEF Crash
    <3>2. Line(0, Torn) \in SaidLines
      BY SaidEvents DEF Line, SaidLines, Lines
    <3>3. \A r \in Run : file[r] \in Seq(SaidLines) /\ Append(file[r], Line(0, Torn)) \in Seq(SaidLines)
      BY <3>2, AppendProperties DEF DiskTypes
    <3>4. file' \in [Run -> Seq(SaidLines)]
      BY <3>1, <3>3
    <3> QED
      BY <1>3, <3>4 DEF Crash, DiskTypes
  <2> QED
    BY <2>1, <2>2, <2>3, <2>4
<1>4. ASSUME NEW o \in Opener, Open(o) PROVE Types'
  BY <1>4 DEF Open, memory, disk, history, ControlTypes, PendingTypes, MemoryTypes, DiskTypes, Free
<1>5. ASSUME NEW o \in Opener, Scan(o) PROVE Types'
  <2>1. ControlTypes' /\ PendingTypes' /\ MemoryTypes'
    BY <1>5 DEF Scan, memory, history, ControlTypes, PendingTypes, MemoryTypes, Free
  <2>2. DiskTypes'
    BY <1>5 DEF Scan, disk, DiskTypes
  <2> QED
    BY <2>1, <2>2
<1>6. ASSUME NEW o \in Opener, Backfill(o) PROVE Types'
  <2>1. ControlTypes' /\ PendingTypes' /\ MemoryTypes'
    BY <1>6 DEF Backfill, memory, history, ControlTypes, PendingTypes, MemoryTypes, Free
  <2>2. /\ DOMAIN row' = DOMAIN row \cup {q \in Run : seen[o][q] # <<>>}
        /\ row' \in [DOMAIN row' -> Header]
    BY <1>6, Backfills
  <2>3. DiskTypes'
    BY <1>6, <2>2 DEF Backfill, DiskTypes
  <2> QED
    BY <2>1, <2>3
<1>7. ASSUME NEW o \in Opener, Prune(o) PROVE Types'
  <2>1. ControlTypes' /\ PendingTypes' /\ MemoryTypes'
    BY <1>7 DEF Prune, memory, history, ControlTypes, PendingTypes, MemoryTypes, Free
  <2>2. /\ file' \in [Run -> Seq(SaidLines)] /\ next' \in [Run -> Nat]
        /\ DOMAIN row' = DOMAIN row \ Stale(row) /\ row' \in [DOMAIN row' -> Header]
    BY <1>7, Prunes
  <2>3. DiskTypes'
    BY <1>7, <2>2 DEF Prune, DiskTypes
  <2> QED
    BY <2>1, <2>3
<1>8. ASSUME NEW r \in Run, Start(r) PROVE Types'
  <2>1. ControlTypes' /\ DiskTypes'
    BY <1>8 DEF Start, disk, openers, history, ControlTypes, DiskTypes
  <2>2. PendingTypes'
    BY <1>8, Starts
  <2>3. MemoryTypes'
    <3>1. ring' \in Seq(Run) /\ Len(ring') <= Retention
      BY <1>8, Pushes DEF Start
    <3> DEFINE h == [Blank EXCEPT !.started = r, !.status = "running"]
    <3>2. ASSUME NEW x, x = h PROVE x \in Header
      <4> DEFINE none == [k \in Counted |-> 0]
      <4>1. Blank = [started |-> 0, status |-> NoStatus, count |-> none]
        BY DEF Blank
      <4>2. none \in [Counted -> Nat] /\ r \in 0..Runs
        BY Names DEF Run
      <4> HIDE DEF none
      <4>3. x = [started |-> r, status |-> "running", count |-> none]
        BY <3>2, <4>1
      <4> QED
        BY <4>2, <4>3 DEF Header
    <3>3. head' = [q \in Run |-> IF q \notin Range(ring') THEN Blank ELSE IF q = r THEN h ELSE head[q]]
      BY <1>8 DEF Start
    <3> HIDE DEF h
    <3>4. head' \in [Run -> Header]
      BY <3>2, <3>3, BlankIsAHeader DEF MemoryTypes
    <3> QED
      BY <3>1, <3>4 DEF MemoryTypes
  <2> QED
    BY <2>1, <2>2, <2>3
<1>9. ASSUME NEW r \in Run, NEW g \in Goroutine, AppendEvent(r, g) PROVE Types'
  <2>1. /\ PendingTypes' /\ EventOf(r, g) \in Events
        /\ done' = [done EXCEPT ![r][g] = done[r][g] + 1]
        /\ head' = IF InRing(r) THEN [head EXCEPT ![r] = Apply(@, r, EventOf(r, g))] ELSE head
    BY <1>9, Appends
  <2>2. ControlTypes'
    BY <1>9, <2>1 DEF AppendEvent, openers, history, ControlTypes
  <2>3. DiskTypes'
    BY <1>9 DEF AppendEvent, disk, openers, DiskTypes
  <2>4. head[r] \in Header
    BY DEF MemoryTypes
  <2>5. Apply(head[r], r, EventOf(r, g)) \in Header
    BY <2>1, <2>4, ApplyProperties
  <2>6. head' \in [Run -> Header]
    BY <2>1, <2>5 DEF MemoryTypes
  <2>7. MemoryTypes'
    BY <1>9, <2>6 DEF AppendEvent, MemoryTypes
  <2> QED
    BY <2>1, <2>2, <2>3, <2>7
<1>10. ASSUME NEW r \in Run, NEW s \in Outcomes, Finish(r, s) PROVE Types'
  <2>1. PendingTypes' /\ s \in Status
    BY <1>10, Finishes
  <2>2. ControlTypes' /\ DiskTypes'
    BY <1>10 DEF Finish, disk, openers, history, ControlTypes, DiskTypes
  <2>3. head[r] \in Header
    BY DEF MemoryTypes
  <2>4. Finished(head[r], s) \in Header
    BY <2>1, <2>3 DEF Finished, Header
  <2>5. head' = IF InRing(r) THEN [head EXCEPT ![r] = Finished(@, s)] ELSE head
    BY <1>10 DEF Finish
  <2>6. head' \in [Run -> Header]
    BY <2>4, <2>5 DEF MemoryTypes
  <2>7. MemoryTypes'
    BY <1>10, <2>6 DEF Finish, MemoryTypes
  <2> QED
    BY <2>1, <2>2, <2>7
<1>11. ASSUME NEW r \in Run, NEW g \in Writer, Number(r, g) PROVE Types'
  <2>1. PendingTypes'
    BY <1>11, Numbers
  <2>2. ControlTypes' /\ MemoryTypes' /\ DiskTypes'
    BY <1>11 DEF Number, memory, openers, history, ControlTypes, MemoryTypes, DiskTypes
  <2> QED
    BY <2>1, <2>2
<1>12. ASSUME NEW r \in Run, NEW g \in Writer, WriteLine(r, g) PROVE Types'
  <2>1. PendingTypes'
    BY <1>12, Releases DEF WriteLine
  <2>2. MemoryTypes'
    BY <1>12 DEF WriteLine, memory, MemoryTypes
  <2>3. ControlTypes'
    BY <1>12 DEF WriteLine, Enter, openers, ControlTypes
  <2>4. ~Free(r, g)
    BY <1>12 DEF WriteLine, Free
  <2>5. pending[r][g].ev \in Said(g) /\ pending[r][g].seq \in Nat
    BY <2>4, SlotParts DEF PendingTypes
  <2>6. Append(file[r], Line(pending[r][g].seq, pending[r][g].ev)) \in Seq(SaidLines)
    BY <2>5, SaidLine, AppendProperties DEF DiskTypes
  <2>7. DiskTypes'
    BY <1>12, <2>6 DEF WriteLine, openers, DiskTypes
  <2> QED
    BY <2>1, <2>2, <2>3, <2>7
<1>13. ASSUME NEW r \in Run, NEW g \in Writer, Insert(r, g) PROVE Types'
  <2>1. PendingTypes'
    BY <1>13, Releases DEF Insert
  <2>2. MemoryTypes'
    BY <1>13 DEF Insert, memory, MemoryTypes
  <2>3. ControlTypes'
    BY <1>13 DEF Insert, Enter, openers, ControlTypes
  <2>4. /\ file' \in [Run -> Seq(SaidLines)] /\ next' \in [Run -> Nat]
        /\ DOMAIN row' \subseteq Run /\ row' \in [DOMAIN row' -> Header]
    BY <1>13, Inserts
  <2>5. DiskTypes'
    BY <1>13, <2>4 DEF Insert, openers, DiskTypes
  <2> QED
    BY <2>1, <2>2, <2>3, <2>5
<1>14. ASSUME NEW r \in Run, NEW g \in Writer, WriteFails(r, g) PROVE Types'
  <2>1. PendingTypes'
    BY <1>14, Releases DEF WriteFails
  <2>2. MemoryTypes' /\ DiskTypes'
    BY <1>14 DEF WriteFails, memory, disk, openers, MemoryTypes, DiskTypes
  <2>3. ControlTypes'
    BY <1>14, JournalAssumption DEF WriteFails, openers, ControlTypes
  <2> QED
    BY <2>1, <2>2, <2>3
<1> HIDE DEF Types
<1> QED
  BY <1>1, <1>2, <1>3, <1>4, <1>5, <1>6, <1>7, <1>8, <1>9, <1>10, <1>11, <1>12, <1>13, <1>14, Steps

THEOREM TypesInvariant == Spec => []Types
<1>1. Init => Types
  BY TypesInit
<1>2. Types /\ [Next]_vars => Types'
  BY TypesNext
<1> QED
  BY <1>1, <1>2, PTL DEF Spec

\* Type correctness, and the memory holds no more than retention runs, whoever else has
\* the database open.
THEOREM TypeCorrect == Spec => []TypeOK
<1>1. Types => TypeOK
  <2> SUFFICES ASSUME Types PROVE TypeOK
    OBVIOUS
  <2>1. \A l : l \in Seq(SaidLines) => l \in Seq([ev : Events, seq : Nat])
    BY SaidLinesAreLines DEF Lines
  <2>2. file \in [Run -> Seq([ev : Events, seq : Nat])]
    BY <2>1 DEF Types, DiskTypes
  <2> QED
    BY <2>2 DEF Types, ControlTypes, PendingTypes, MemoryTypes, DiskTypes, TypeOK
<1> QED
  BY <1>1, TypesInvariant, PTL

-----------------------------------------------------------------------------
(* The headers of the database, while nobody else opens it.                 *)

\* A database of an older version, until its headers are filled ...
Before ==
    /\ row = <<>> /\ handle[App] \in {"off", "scan", "fill"}
    /\ entered = {1} /\ 1 \in Run /\ file[1] = OldRun /\ \A q \in Run : q # 1 => file[q] = <<>>
    /\ handle[App] = "fill" => seen[App] = file

\* ... and from then on: a header for every run that has events, the one that they give.
Settled ==
    /\ \A q \in Run : /\ InRow(q) <=> file[q] # <<>>
                      /\ InRow(q) => row[q] = Get(q)
                      /\ \A i \in DOMAIN file[q] : file[q][i].ev # Torn
    /\ handle[App] \in {"scan", "fill"} => \A q \in Run : file[q] = <<>>
    /\ handle[App] = "fill" => \A q \in Run : seen[App][q] = <<>>

RowInv == backend = "sqlite" => Before \/ Settled

LEMMA RowInit == Init => RowInv
<1> SUFFICES ASSUME Init, backend = "sqlite" PROVE Before \/ Settled
  BY DEF RowInv
<1>1. PICK old \in {{}, {1}} :
        /\ file = [r \in Run |-> IF r \in old THEN OldRun ELSE <<>>]
        /\ entered = old
  BY DEF Init
<1>2. row = <<>> /\ handle[App] = "off"
  BY Names DEF Init
<1>3. CASE old = {1}
  <2>1. 1 \in Run
    BY Names DEF Run
  <2> QED
    BY <1>1, <1>2, <1>3, <2>1 DEF Before
<1>4. CASE old = {}
  <2>1. \A q \in Run : file[q] = <<>>
    BY <1>1, <1>4
  <2>2. DOMAIN row = {}
    BY <1>2
  <2> QED
    BY <1>2, <2>1, <2>2 DEF Settled, InRow
<1> QED
  BY <1>3, <1>4

\* A run whose events and header an action leaves alone, deletes, or takes an event further.
LEMMA SettledRun ==
    ASSUME Types, Settled, NEW q \in Run, NEW g \in Writer,
           Kept(q) \/ Wiped(q) \/ (~Free(q, g) /\ Added(q, g)), file' \in [Run -> Seq(SaidLines)]
    PROVE  /\ InRow(q)' <=> file'[q] # <<>>
           /\ InRow(q)' => row'[q] = Get(q)'
           /\ \A i \in DOMAIN file'[q] : file'[q][i].ev # Torn
<1>1. CASE Kept(q)
  BY <1>1 DEF Kept, Settled, Get
<1>2. CASE Wiped(q)
  BY <1>2 DEF Wiped
<1>3. CASE ~Free(q, g) /\ Added(q, g)
  <2> DEFINE ev == pending[q][g].ev
             x  == Line(next[q], ev)
  <2>1. ev \in Said(g) /\ ev \in Events /\ next[q] \in Nat /\ file[q] \in Seq(SaidLines)
    BY <1>3, SlotParts DEF Types, PendingTypes, DiskTypes
  <2>2. ev.kind # "torn"
    BY <2>1 DEF Said, Status, Counted
  <2>3. x \in SaidLines /\ x.ev = ev /\ x \in Lines /\ file[q] \in Seq(Lines)
    BY <2>1, SaidLine, SaidLinesAreLines
  <2>4. RowOf(q) = Get(q)
    <3>1. CASE InRow(q)
      BY <3>1 DEF Settled, InRow, RowOf
    <3>2. CASE ~InRow(q)
      <4>1. file[q] = <<>> /\ RowOf(q) = Blank
        BY <3>2 DEF Settled, InRow, RowOf
      <4> QED
        BY <4>1, ReplayProperties DEF Get
    <3> QED
      BY <3>1, <3>2
  <2>5. row'[q] = Apply(Get(q), q, ev)
    <3>1. RowOf(q) \in Header
      BY RowsAreHeaders DEF Types
    <3>2. row'[q] = UpdateMeta(RowOf(q), q, ev)
      BY <1>3 DEF Added
    <3> QED
      BY <2>1, <2>4, <3>1, <3>2, ApplyProperties
  <2>6. file'[q] = Append(file[q], x) /\ InRow(q)'
    BY <1>3 DEF Added
  <2> HIDE DEF x
  <2>7. Replay(q, file'[q]) = Apply(Replay(q, file[q]), q, x.ev)
    BY <2>3, <2>6, ReplayProperties
  <2>8. row'[q] = Get(q)'
    BY <2>3, <2>5, <2>7 DEF Get
  <2>9. /\ Len(file'[q]) = Len(file[q]) + 1 /\ file'[q][Len(file[q]) + 1] = x
        /\ \A i \in 1..Len(file[q]) : file'[q][i] = file[q][i]
        /\ Len(file[q]) \in Nat /\ DOMAIN file'[q] = 1..Len(file'[q]) /\ DOMAIN file[q] = 1..Len(file[q])
    BY <2>1, <2>3, <2>6, AppendProperties, LenProperties
  <2>10. file'[q] # <<>>
    BY <2>9
  <2>11. ASSUME NEW i \in DOMAIN file'[q] PROVE file'[q][i].ev # Torn
    <3>1. CASE i = Len(file[q]) + 1
      BY <2>2, <2>3, <2>9, <3>1 DEF Torn, Event
    <3>2. CASE i # Len(file[q]) + 1
      BY <2>9, <3>2 DEF Settled
    <3> QED
      BY <3>1, <3>2
  <2> QED
    BY <2>6, <2>8, <2>10, <2>11
<1> QED
  BY <1>1, <1>2, <1>3

\* The actions that leave the database alone.
LEMMA RowKept ==
    ASSUME RowInv, backend' = backend, UNCHANGED <<file, row, entered>>,
           \/ UNCHANGED <<handle, seen>>
           \/ handle'[App] \in {"prune", "open", "closed"} /\ handle[App] \notin {"off", "scan", "fill"}
    PROVE  RowInv'
BY DEF RowInv, Before, Settled, InRow, Get

LEMMA RowNext ==
    ASSUME Reader = {}, Types, RowInv, [Next]_vars
    PROVE  RowInv'
<1>0. Opener = {App} /\ App \in Opener /\ Main \in Writer
  BY Names DEF Opener
<1>1. CASE UNCHANGED vars
  BY <1>1, RowKept DEF vars, disk, openers, history
<1>2. CASE Close
  <2>1. backend' = backend /\ UNCHANGED <<file, row, entered>>
    BY <1>2 DEF Close, disk, history
  <2>2. handle[App] = "open" /\ handle'[App] = "closed"
    BY <1>0, <1>2 DEF Close, Types, ControlTypes
  <2> QED
    BY <2>1, <2>2, RowKept
<1>3. CASE Crash
  <2> SUFFICES ASSUME backend = "sqlite" PROVE (Before \/ Settled)'
    BY <1>3 DEF Crash, RowInv
  <2>1. \A q \in Run, g \in Writer : pending[q][g].at # "numbered"
    BY DEF Types, PendingTypes
  <2>2. \A q \in Run : file'[q] = file[q]
    BY <1>3, <2>1 DEF Crash, Numbered
  <2>3. row' = row /\ entered' = entered /\ seen' = seen /\ handle'[App] = "off"
    BY <1>0, <1>3 DEF Crash, Types, ControlTypes
  <2>4. CASE Before
    BY <2>2, <2>3, <2>4 DEF Before
  <2>5. CASE Settled
    BY <2>2, <2>3, <2>5 DEF Settled, InRow, Get
  <2> QED
    BY <2>4, <2>5 DEF RowInv
<1>4. ASSUME NEW o \in Opener, Open(o) PROVE RowInv'
  <2> SUFFICES ASSUME backend = "sqlite" PROVE (Before \/ Settled)'
    BY <1>4 DEF Open, RowInv
  <2>1. UNCHANGED <<file, row, entered, seen>> /\ o = App
    BY <1>0, <1>4 DEF Open, disk, history
  <2>2. handle[App] = "off" /\ handle'[App] = IF row = <<>> THEN "scan" ELSE "prune"
    BY <1>0, <1>4, <2>1 DEF Open, Types, ControlTypes
  <2>3. CASE Before
    BY <2>1, <2>2, <2>3 DEF Before
  <2>4. CASE Settled
    <3>1. row = <<>> => \A q \in Run : file[q] = <<>>
      <4>1. row = <<>> => DOMAIN row = {}
        OBVIOUS
      <4> QED
        BY <2>4, <4>1 DEF Settled, InRow
    <3> QED
      BY <2>1, <2>2, <2>4, <3>1 DEF Settled, InRow, Get
  <2> QED
    BY <2>3, <2>4 DEF RowInv
<1>5. ASSUME NEW o \in Opener, Scan(o) PROVE RowInv'
  <2> SUFFICES ASSUME backend = "sqlite" PROVE (Before \/ Settled)'
    BY <1>5 DEF Scan, RowInv
  <2>1. UNCHANGED <<file, row, entered>> /\ o = App
    BY <1>0, <1>5 DEF Scan, disk, history
  <2>2. handle[App] = "scan" /\ handle'[App] = "fill" /\ seen'[App] = file
    BY <1>0, <1>5, <2>1 DEF Scan, Types, ControlTypes, DiskTypes
  <2>3. CASE Before
    BY <2>1, <2>2, <2>3 DEF Before
  <2>4. CASE Settled
    BY <2>1, <2>2, <2>4 DEF Settled, InRow, Get
  <2> QED
    BY <2>3, <2>4 DEF RowInv
<1>6. ASSUME NEW o \in Opener, Backfill(o) PROVE RowInv'
  <2> SUFFICES ASSUME backend = "sqlite" PROVE Settled'
    BY <1>6 DEF Backfill, RowInv
  <2>1. UNCHANGED <<file, entered>> /\ o = App
    BY <1>0, <1>6 DEF Backfill, history
  <2>2. handle[App] = "fill" /\ handle'[App] = "prune"
    BY <1>0, <1>6, <2>1 DEF Backfill, Types, ControlTypes
  <2>3. /\ DOMAIN row' = DOMAIN row \cup {q \in Run : seen[App][q] # <<>>}
        /\ DOMAIN row = {} => \A q \in DOMAIN row' : row'[q] = Replay(q, seen[App][q])
    BY <1>6, <2>1, Backfills
  <2>4. CASE Before
    <3>1. DOMAIN row = {} /\ seen[App] = file
      BY <2>2, <2>4 DEF Before
    <3>2. \A q \in Run : \A i \in DOMAIN file[q] : file[q][i].ev # Torn
      <4>1. \A i \in DOMAIN OldRun : OldRun[i].ev # Torn
        BY OldRunIsSaid, LenProperties
      <4>2. \A i : i \notin DOMAIN <<>>
        OBVIOUS
      <4> QED
        BY <2>4, <4>1, <4>2 DEF Before
    <3> QED
      BY <2>1, <2>2, <2>3, <3>1, <3>2 DEF Settled, InRow, Get
  <2>5. CASE Settled
    <3>1. \A q \in Run : seen[App][q] = <<>> /\ file[q] = <<>> /\ ~InRow(q)
      BY <2>2, <2>5 DEF Settled
    <3>2. \A q \in Run : ~InRow(q)'
      BY <2>3, <3>1 DEF InRow
    <3> QED
      BY <2>1, <2>2, <2>5, <3>1, <3>2 DEF Settled
  <2> QED
    BY <2>4, <2>5 DEF RowInv
<1>7. ASSUME NEW o \in Opener, Prune(o) PROVE RowInv'
  <2> SUFFICES ASSUME backend = "sqlite" PROVE Settled'
    BY <1>7 DEF Prune, RowInv
  <2>1. handle[App] = "prune" /\ handle'[App] = "open"
    BY <1>0, <1>7 DEF Prune, Types, ControlTypes
  <2>2. Settled
    BY <2>1 DEF RowInv, Before
  <2>3. file' \in [Run -> Seq(SaidLines)] /\ \A q \in Run : Kept(q) \/ Wiped(q)
    BY <1>7, Prunes
  <2>4. \A q \in Run : /\ InRow(q)' <=> file'[q] # <<>>
                       /\ InRow(q)' => row'[q] = Get(q)'
                       /\ \A i \in DOMAIN file'[q] : file'[q][i].ev # Torn
    BY <1>0, <2>2, <2>3, SettledRun
  <2> QED
    BY <2>1, <2>4 DEF Settled
<1>8. ASSUME NEW r \in Run, Start(r) PROVE RowInv'
  BY <1>8, RowKept DEF Start, disk, openers, history
<1>9. ASSUME NEW r \in Run, NEW g \in Goroutine, AppendEvent(r, g) PROVE RowInv'
  BY <1>9, RowKept DEF AppendEvent, disk, openers, history
<1>10. ASSUME NEW r \in Run, NEW s \in Outcomes, Finish(r, s) PROVE RowInv'
  BY <1>10, RowKept DEF Finish, disk, openers, history
<1>11. ASSUME NEW r \in Run, NEW g \in Writer, Number(r, g) PROVE RowInv'
  BY <1>11, RowKept DEF Number, disk, openers, history
<1>12. ASSUME NEW r \in Run, NEW g \in Writer, WriteLine(r, g) PROVE RowInv'
  BY <1>12 DEF WriteLine, RowInv, Types, PendingTypes
<1>13. ASSUME NEW r \in Run, NEW g \in Writer, Insert(r, g) PROVE RowInv'
  <2>1. handle[App] = "open" /\ handle' = handle /\ backend' = backend /\ backend = "sqlite" /\ ~Free(r, g)
    BY <1>13 DEF Insert, openers
  <2>2. Settled
    BY <2>1 DEF RowInv, Before
  <2>3. /\ file' \in [Run -> Seq(SaidLines)]
        /\ Added(r, g) \/ Wiped(r)
        /\ \A q \in Run : q # r => Kept(q) \/ Wiped(q)
    BY <1>13, Inserts
  <2>4. ASSUME NEW q \in Run
        PROVE  /\ InRow(q)' <=> file'[q] # <<>>
               /\ InRow(q)' => row'[q] = Get(q)'
               /\ \A i \in DOMAIN file'[q] : file'[q][i].ev # Torn
    <3>1. Kept(q) \/ Wiped(q) \/ (~Free(q, g) /\ Added(q, g))
      BY <2>1, <2>3
    <3> QED
      BY <2>2, <2>3, <3>1, SettledRun
  <2>5. Settled'
    BY <2>1, <2>4 DEF Settled
  <2> QED
    BY <2>5 DEF RowInv
<1>14. ASSUME NEW r \in Run, NEW g \in Writer, WriteFails(r, g) PROVE RowInv'
  BY <1>14, RowKept DEF WriteFails, disk, openers, history
<1> QED
  BY <1>1, <1>2, <1>3, <1>4, <1>5, <1>6, <1>7, <1>8, <1>9, <1>10, <1>11, <1>12, <1>13, <1>14, Steps

\* The header that List reads from journal_runs says what Get makes of the events, in every
\* state of a database in use, as long as no other process opens the database: a second one
\* that fills the headers at the same time adds every event to them twice.
THEOREM ListIsGet == Reader = {} => (Spec => []ListAgreesWithGet)
<1> SUFFICES ASSUME Reader = {} PROVE Spec => []ListAgreesWithGet
  OBVIOUS
<1>1. Init => RowInv
  BY RowInit
<1>2. Types /\ RowInv /\ [Next]_vars => RowInv'
  BY RowNext
<1>3. Types /\ RowInv => ListAgreesWithGet
  <2> SUFFICES ASSUME Types, RowInv, backend = "sqlite", handle[App] = "open"
               PROVE  row = [r \in {q \in Run : Readable(q) # {}} |-> Get(r)]
    BY DEF ListAgreesWithGet, Listed
  <2>1. Settled
    BY DEF RowInv, Before
  <2>2. ASSUME NEW q \in Run PROVE Readable(q) # {} <=> file[q] # <<>>
    <3>1. file[q] \in Seq(SaidLines)
      BY DEF Types, DiskTypes
    <3>2. DOMAIN file[q] = 1..Len(file[q]) /\ Len(file[q]) \in Nat /\ (file[q] = <<>> <=> Len(file[q]) = 0)
      BY <3>1, LenProperties, EmptySeq
    <3>3. Readable(q) = DOMAIN file[q]
      BY <2>1 DEF Settled, Readable
    <3> QED
      BY <3>2, <3>3
  <2>3. DOMAIN row = {q \in Run : Readable(q) # {}}
    BY <2>1, <2>2 DEF Settled, InRow, Types, DiskTypes
  <2>4. \A q \in DOMAIN row : row[q] = Get(q)
    BY <2>1 DEF Settled, InRow, Types, DiskTypes
  <2>5. row \in [DOMAIN row -> Header]
    BY DEF Types, DiskTypes
  <2> QED
    BY <2>3, <2>4, <2>5
<1> QED
  BY <1>1, <1>2, <1>3, TypesInvariant, PTL DEF Spec

-----------------------------------------------------------------------------
(* Retention, while nobody else opens the database.                         *)

\* Rows know their start or none, and the runs whose start is gone are older than the newest.
WholeIn(rows)    == {r \in DOMAIN rows : rows[r].started # 0}
Sound(rows, E)   == \A r \in DOMAIN rows : rows[r].started \in {0, r} /\ (rows[r].started # 0 => r \in E)
Newer(E, r)      == {q \in E : q > r}
Outlived(rows, E) == \A r \in E \ WholeIn(rows) : Cardinality(Newer(E, r)) >= Retention

LEMMA RunsAreFinite ==
    ASSUME NEW S \in SUBSET Run
    PROVE  /\ IsFiniteSet(S) /\ Cardinality(S) \in Nat
           /\ \A T \in SUBSET S : IsFiniteSet(T) /\ Cardinality(T) \in Nat /\ Cardinality(T) <= Cardinality(S)
<1>1. 1 \in Int /\ Runs \in Int
  BY Names
<1>2. IsFiniteSet(Run)
  BY <1>1, FS_Interval DEF Run
<1>3. IsFiniteSet(S)
  BY <1>2, FS_Subset
<1> QED
  BY <1>3, FS_Subset, FS_CardinalityType

\* A set of runs in which each is followed by fewer than K others has at most K members.
LEMMA FewFollow ==
    ASSUME NEW S \in SUBSET Run, NEW K \in Nat \ {0},
           \A r \in S : Cardinality({q \in S : q > r}) < K
    PROVE  Cardinality(S) <= K
<1>1. IsFiniteSet(S) /\ Cardinality(S) \in Nat
  BY RunsAreFinite
<1>2. CASE S = {}
  BY <1>1, <1>2, FS_EmptySet
<1>3. CASE S # {}
  <2>1. S \in SUBSET Nat
    BY Names
  <2>2. PICK m \in S : \A q \in S : m <= q
    <3>1. IsWellFoundedOn(OpToRel(<, Nat), Nat)
      BY NatLessThanWellFounded, Zenon
    <3>2. PICK x \in S : \A y \in S : <<y, x>> \notin OpToRel(<, Nat)
      BY <2>1, <1>3, <3>1, WFMin, Zenon
    <3>3. \A q \in S : ~(q < x)
      BY <2>1, <3>2 DEF OpToRel
    <3>4. \A q \in S : q \in Nat
      BY <2>1
    <3> QED
      BY <3>3, <3>4
  <2>3. {q \in S : q > m} = S \ {m}
    <3>1. \A q \in S : q > m <=> q # m
      <4>1. m \in Nat /\ \A q \in S : q \in Nat
        BY <2>1
      <4> QED
        BY <2>2, <4>1
    <3> QED
      BY <3>1, Zenon
  <2>4. Cardinality(S \ {m}) = Cardinality(S) - 1
    BY <1>1, FS_RemoveElement
  <2>5. Cardinality(S \ {m}) < K
    BY <2>2, <2>3
  <2> QED
    BY <1>1, <2>4, <2>5
<1> QED
  BY <1>2, <1>3

\* Trimming leaves no more than retention whole rows, and takes only what is outlived.
LEMMA TrimKeepsNewest ==
    ASSUME NEW D \in SUBSET Run, NEW rows \in [D -> Header], NEW E \in SUBSET Run,
           Sound(rows, E), Outlived(rows, E),
           NEW kept, DOMAIN kept = D \ Stale(rows), \A q \in DOMAIN kept : kept[q] = rows[q]
    PROVE  Sound(kept, E) /\ Outlived(kept, E) /\ Cardinality(WholeIn(kept)) <= Retention
<1> DEFINE Above(r) == {q \in D : \/ rows[q].started > rows[r].started
                                  \/ rows[q].started = rows[r].started /\ q > r}
<1>1. DOMAIN rows = D
  OBVIOUS
<1>2. \A r \in D : r \in Stale(rows) <=> Cardinality(Above(r)) >= Retention
  BY <1>1 DEF Stale
<1>3. \A r \in D : rows[r].started \in {0, r} /\ r \in Nat \ {0} /\ (rows[r].started # 0 => r \in E)
  BY <1>1, Names DEF Sound
<1>4. Sound(kept, E)
  BY <1>1, <1>3 DEF Sound
<1>5. \A r \in D : Above(r) \in SUBSET Run
  OBVIOUS
<1>6. WholeIn(kept) \in SUBSET Run /\ \A r \in WholeIn(kept) : r \in D /\ r \notin Stale(rows) /\ rows[r].started = r
  BY <1>3 DEF WholeIn
<1>7. ASSUME NEW r \in WholeIn(kept) PROVE Cardinality({q \in WholeIn(kept) : q > r}) < Retention
  <2> DEFINE S == {q \in WholeIn(kept) : q > r}
  <2>1. r \in D /\ r \notin Stale(rows)
    BY <1>6
  <2>2. S \in SUBSET Above(r)
    BY <1>6
  <2>3. Above(r) \in SUBSET Run /\ ~(Cardinality(Above(r)) >= Retention)
    BY <1>2, <1>5, <2>1
  <2> HIDE DEF S, Above
  <2>4. Cardinality(S) <= Cardinality(Above(r)) /\ Cardinality(S) \in Nat /\ Cardinality(Above(r)) \in Nat
    BY <2>2, <2>3, RunsAreFinite
  <2>5. Cardinality(S) < Retention
    BY <2>3, <2>4, Names
  <2> QED
    BY <2>5 DEF S
<1>8. Cardinality(WholeIn(kept)) <= Retention
  <2>1. Retention \in Nat \ {0}
    BY Names
  <2> QED
    BY <1>6, <1>7, <2>1, FewFollow
<1>9. ASSUME NEW r \in E \ WholeIn(kept) PROVE Cardinality(Newer(E, r)) >= Retention
  <2>1. CASE r \notin WholeIn(rows)
    BY <2>1 DEF Outlived
  <2>2. CASE r \in WholeIn(rows)
    <3>1. r \in D /\ rows[r].started = r /\ r \in Stale(rows)
      BY <1>1, <1>3, <2>2 DEF WholeIn
    <3>2. Cardinality(Above(r)) >= Retention
      BY <1>2, <3>1
    <3>3. Above(r) \in SUBSET Newer(E, r)
      BY <1>3, <3>1 DEF Newer
    <3>4. Newer(E, r) \in SUBSET Run
      BY DEF Newer
    <3> HIDE DEF Above
    <3>5. /\ Cardinality(Above(r)) <= Cardinality(Newer(E, r))
          /\ Cardinality(Above(r)) \in Nat /\ Cardinality(Newer(E, r)) \in Nat
      BY <3>3, <3>4, RunsAreFinite
    <3> QED
      BY <3>2, <3>5, Names
  <2> QED
    BY <2>1, <2>2
<1> QED
  BY <1>4, <1>8, <1>9 DEF Outlived

NewestInv ==
    backend = "sqlite" =>
        \/ Before
        \/ Settled /\ Sound(row, entered) /\ Outlived(row, entered) /\ Cardinality(WholeIn(row)) <= Retention

LEMMA NewestInit == Init => NewestInv
<1> SUFFICES ASSUME Init, backend = "sqlite", ~Before PROVE NewestInv
  BY DEF NewestInv
<1>1. Settled
  BY RowInit DEF RowInv
<1>2. PICK old \in {{}, {1}} :
        /\ file = [r \in Run |-> IF r \in old THEN OldRun ELSE <<>>]
        /\ entered = old
  BY DEF Init
<1>3. row = <<>> /\ handle[App] = "off"
  BY Names DEF Init
<1>4. old = {}
  <2>1. 1 \in Run
    BY Names DEF Run
  <2> QED
    BY <1>2, <1>3, <2>1 DEF Before
<1>5. DOMAIN row = {}
  BY <1>3
<1>6. WholeIn(row) = {}
  BY <1>5 DEF WholeIn
<1>7. Cardinality(WholeIn(row)) <= Retention
  BY <1>6, FS_EmptySet, Names
<1> QED
  BY <1>1, <1>2, <1>4, <1>5, <1>7 DEF NewestInv, Sound, Outlived

\* The header of the run of an older version knows its start.
LEMMA OldRunStarts == ASSUME 1 \in Run PROVE Replay(1, OldRun).started = 1
<1>1. OldRun \in Seq(Lines) /\ Len(OldRun) = 3
  BY OldRunIsSaid, SaidLinesAreLines
<1>2. PICK g : Passes(g, Blank, 1, OldRun) /\ Replay(1, OldRun) = g[Len(OldRun)]
  BY <1>1, ReplayPasses
<1>3. g[0] = Blank /\ g[1] \in Header /\ g[2] \in Header
      /\ g[1] = Apply(g[0], 1, OldRun[1].ev) /\ g[2] = Apply(g[1], 1, OldRun[2].ev)
      /\ g[3] = Apply(g[2], 1, OldRun[3].ev) /\ g[0] \in Header
  <2>1. /\ 0 \in 0..3 /\ 1 \in 1..3 /\ 2 \in 1..3 /\ 3 \in 1..3 /\ 1 \in 0..3 /\ 2 \in 0..3
        /\ 1 - 1 = 0 /\ 2 - 1 = 1 /\ 3 - 1 = 2
    OBVIOUS
  <2> QED
    BY <1>1, <1>2, <2>1 DEF Passes
<1>4. OldRun[1].ev \in Events /\ OldRun[2].ev \in Events /\ OldRun[3].ev \in Events
  BY <1>1, LineTypes
<1>5. /\ OldRun[1].ev.kind = "run_start" /\ OldRun[2].ev.kind # "run_start" /\ OldRun[3].ev.kind # "run_start"
  BY OldRunIsSaid DEF Event
<1>6. \A h \in Header, ev \in Events :
        Apply(h, 1, ev).started = IF ev.kind = "run_start" /\ h.started = 0 THEN 1 ELSE h.started
  BY ApplyProperties DEF UpdateMeta
<1>7. Blank.started = 0
  BY DEF Blank
<1>8. g[1].started = 1
  BY <1>3, <1>4, <1>5, <1>6, <1>7
<1>9. g[2].started = 1
  BY <1>3, <1>4, <1>5, <1>6, <1>8
<1> QED
  BY <1>1, <1>2, <1>3, <1>4, <1>5, <1>6, <1>9

LEMMA NewestNext ==
    ASSUME Reader = {}, Types, NewestInv, [Next]_vars
    PROVE  NewestInv'
<1>0. Opener = {App} /\ App \in Opener /\ Main \in Writer
  BY Names DEF Opener
<1>a. RowInv'
  <2>1. RowInv
    BY DEF NewestInv, RowInv
  <2> QED
    BY <2>1, RowNext
<1>b. ASSUME UNCHANGED <<backend, row, entered>>, Before => Before' PROVE NewestInv'
  BY <1>a, <1>b DEF NewestInv, RowInv, Sound, Outlived, Newer, WholeIn
<1>1. CASE UNCHANGED vars
  BY <1>1, <1>b DEF vars, disk, openers, history, Before
<1>2. CASE Close
  BY <1>2, <1>b DEF Close, disk, history, Before
<1>3. CASE Crash
  <2>1. UNCHANGED <<backend, row, entered, seen>> /\ handle'[App] = "off"
    BY <1>0, <1>3 DEF Crash, Types, ControlTypes
  <2>2. \A q \in Run, g \in Writer : pending[q][g].at = "numbered" => backend = "jsonl"
    BY DEF Types, PendingTypes
  <2>3. backend = "sqlite" => \A q \in Run : file'[q] = file[q]
    BY <1>3, <2>2 DEF Crash, Numbered
  <2>4. backend = "sqlite" /\ Before => Before'
    BY <2>1, <2>3 DEF Before
  <2> QED
    BY <1>a, <2>1, <2>4 DEF NewestInv, RowInv, Sound, Outlived, Newer, WholeIn
<1>4. ASSUME NEW o \in Opener, Open(o) PROVE NewestInv'
  <2>1. UNCHANGED <<backend, row, entered, file, seen>> /\ o = App
    BY <1>0, <1>4 DEF Open, disk, history
  <2>2. handle[App] = "off" /\ (backend = "sqlite" => handle'[App] = IF row = <<>> THEN "scan" ELSE "prune")
    BY <1>0, <1>4, <2>1 DEF Open, Types, ControlTypes
  <2>3. backend = "sqlite" /\ Before => Before'
    BY <2>1, <2>2 DEF Before
  <2> QED
    BY <1>a, <2>1, <2>3 DEF NewestInv, RowInv, Sound, Outlived, Newer, WholeIn
<1>5. ASSUME NEW o \in Opener, Scan(o) PROVE NewestInv'
  <2>1. UNCHANGED <<backend, row, entered, file>> /\ o = App
    BY <1>0, <1>5 DEF Scan, disk, history
  <2>2. handle'[App] = "fill" /\ seen'[App] = file
    BY <1>0, <1>5, <2>1 DEF Scan, Types, ControlTypes, DiskTypes
  <2>3. Before => Before'
    BY <2>1, <2>2 DEF Before
  <2> QED
    BY <1>b, <2>1, <2>3
<1>6. ASSUME NEW o \in Opener, Backfill(o) PROVE NewestInv'
  <2> SUFFICES ASSUME backend = "sqlite"
               PROVE  Sound(row', entered') /\ Outlived(row', entered') /\ Cardinality(WholeIn(row')) <= Retention
    <3>1. handle'[App] = "prune"
      BY <1>0, <1>6 DEF Backfill, Types, ControlTypes
    <3> QED
      BY <1>a, <1>6, <3>1 DEF Backfill, NewestInv, RowInv, Before, Sound, Outlived, Newer, WholeIn
  <2>1. entered' = entered /\ o = App /\ handle[App] = "fill"
    BY <1>0, <1>6 DEF Backfill, history
  <2>2. /\ DOMAIN row' = DOMAIN row \cup {q \in Run : seen[App][q] # <<>>}
        /\ DOMAIN row = {} => \A q \in DOMAIN row' : row'[q] = Replay(q, seen[App][q])
    BY <1>6, <2>1, Backfills
  <2>3. CASE Before
    <3>1. DOMAIN row = {} /\ seen[App] = file /\ file[1] = OldRun /\ 1 \in Run /\ entered = {1}
      BY <2>1, <2>3 DEF Before
    <3>2. OldRun # <<>>
      <4>1. Len(OldRun) = 3 /\ Len(<<>>) = 0
        BY OldRunIsSaid, EmptySeq
      <4> QED
        BY <4>1
    <3>3. DOMAIN row' = {1} /\ row'[1] = Replay(1, OldRun)
      BY <2>2, <2>3, <3>1, <3>2 DEF Before
    <3>4. row'[1].started = 1
      BY <3>1, <3>3, OldRunStarts
    <3>5. WholeIn(row') = {1}
      BY <3>3, <3>4 DEF WholeIn
    <3>6. Cardinality(WholeIn(row')) <= Retention
      BY <3>5, FS_Singleton, Names
    <3> QED
      BY <2>1, <3>1, <3>3, <3>4, <3>5, <3>6 DEF Sound, Outlived
  <2>4. CASE ~Before
    <3>0. Settled
      BY <2>4 DEF NewestInv
    <3>1. \A q \in Run : seen[App][q] = <<>> /\ ~InRow(q)
      BY <2>1, <3>0 DEF Settled
    <3>2. DOMAIN row = {} /\ DOMAIN row' = {}
      BY <2>2, <3>1 DEF InRow, Types, DiskTypes
    <3>3. WholeIn(row) = {} /\ WholeIn(row') = {}
      BY <3>2 DEF WholeIn
    <3>4. Sound(row, entered) /\ Outlived(row, entered) /\ Cardinality(WholeIn(row)) <= Retention
      BY <2>4 DEF NewestInv
    <3> QED
      BY <2>1, <3>2, <3>3, <3>4 DEF Sound, Outlived
  <2> QED
    BY <2>3, <2>4 DEF NewestInv
<1>7. ASSUME NEW o \in Opener, Prune(o) PROVE NewestInv'
  <2> SUFFICES ASSUME backend = "sqlite"
               PROVE  Sound(row', entered') /\ Outlived(row', entered') /\ Cardinality(WholeIn(row')) <= Retention
    <3>1. handle'[App] = "open"
      BY <1>0, <1>7 DEF Prune, Types, ControlTypes
    <3> QED
      BY <1>a, <1>7, <3>1 DEF Prune, NewestInv, RowInv, Before, Sound, Outlived, Newer, WholeIn
  <2>1. entered' = entered /\ handle[App] = "prune"
    BY <1>0, <1>7 DEF Prune, history
  <2>2. Sound(row, entered) /\ Outlived(row, entered)
    BY <2>1 DEF NewestInv, Before
  <2>3. DOMAIN row' = DOMAIN row \ Stale(row) /\ \A q \in DOMAIN row' : row'[q] = row[q]
    BY <1>7, Prunes
  <2>4. DOMAIN row \in SUBSET Run /\ row \in [DOMAIN row -> Header] /\ entered \in SUBSET Run
    BY DEF Types, DiskTypes, ControlTypes
  <2> QED
    BY <2>1, <2>2, <2>3, <2>4, TrimKeepsNewest
<1>8. ASSUME NEW r \in Run, Start(r) PROVE NewestInv'
  BY <1>8, <1>b DEF Start, disk, openers, history, Before
<1>9. ASSUME NEW r \in Run, NEW g \in Goroutine, AppendEvent(r, g) PROVE NewestInv'
  BY <1>9, <1>b DEF AppendEvent, disk, openers, history, Before
<1>10. ASSUME NEW r \in Run, NEW s \in Outcomes, Finish(r, s) PROVE NewestInv'
  BY <1>10, <1>b DEF Finish, disk, openers, history, Before
<1>11. ASSUME NEW r \in Run, NEW g \in Writer, Number(r, g) PROVE NewestInv'
  BY <1>11, <1>b DEF Number, disk, openers, history, Before
<1>12. ASSUME NEW r \in Run, NEW g \in Writer, WriteLine(r, g) PROVE NewestInv'
  BY <1>12 DEF WriteLine, NewestInv, Types, PendingTypes
<1>13. ASSUME NEW r \in Run, NEW g \in Writer, Insert(r, g) PROVE NewestInv'
  <2> DEFINE ev == pending[r][g].ev
  <2> SUFFICES ASSUME backend = "sqlite"
               PROVE  Sound(row', entered') /\ Outlived(row', entered') /\ Cardinality(WholeIn(row')) <= Retention
    <3>1. handle'[App] = "open"
      BY <1>13 DEF Insert, openers
    <3> QED
      BY <1>a, <1>13, <3>1 DEF Insert, NewestInv, RowInv, Before, Sound, Outlived, Newer, WholeIn
  <2>1. handle[App] = "open" /\ ~Free(r, g)
    BY <1>13 DEF Insert
  <2>2. Sound(row, entered) /\ Outlived(row, entered) /\ Cardinality(WholeIn(row)) <= Retention
    BY <2>1 DEF NewestInv, Before
  <2>3. entered' = IF ev.kind = "run_start" THEN entered \cup {r} ELSE entered
    BY <1>13 DEF Insert, Enter
  <2>4. /\ DOMAIN RowsAfter(r, g) = DOMAIN row \cup {r} /\ DOMAIN RowsAfter(r, g) \subseteq Run
        /\ RowsAfter(r, g) \in [DOMAIN RowsAfter(r, g) -> Header]
        /\ RowsAfter(r, g)[r] = UpdateMeta(RowOf(r), r, ev)
        /\ \A q \in DOMAIN row : q # r => RowsAfter(r, g)[q] = row[q]
    BY <2>1, AfterTypes
  <2>5. UpdateMeta(RowOf(r), r, ev).started = IF ev.kind = "run_start" /\ RowOf(r).started = 0 THEN r ELSE RowOf(r).started
    BY DEF UpdateMeta
  <2>6. RowOf(r).started = IF r \in DOMAIN row THEN row[r].started ELSE 0
    BY DEF RowOf, Blank
  <2>7. r # 0 /\ r \in Run /\ 0 \notin Run /\ entered \in SUBSET Run
    BY Names DEF Types, ControlTypes
  <2>8. Sound(RowsAfter(r, g), entered')
    BY <2>2, <2>3, <2>4, <2>5, <2>6, <2>7 DEF Sound
  <2>9. WholeIn(RowsAfter(r, g)) = IF ev.kind = "run_start" THEN WholeIn(row) \cup {r} ELSE WholeIn(row)
    BY <2>2, <2>4, <2>5, <2>6, <2>7 DEF Sound, WholeIn
  <2>10. Outlived(RowsAfter(r, g), entered')
    <3> SUFFICES ASSUME NEW q \in entered' \ WholeIn(RowsAfter(r, g)) PROVE Cardinality(Newer(entered', q)) >= Retention
      BY DEF Outlived
    <3>1. q \in entered \ WholeIn(row)
      BY <2>3, <2>9
    <3>2. Cardinality(Newer(entered, q)) >= Retention
      BY <2>2, <3>1 DEF Outlived
    <3>3. Newer(entered, q) \in SUBSET Newer(entered', q) /\ Newer(entered', q) \in SUBSET Run
      BY <2>3, <2>7 DEF Newer
    <3>4. /\ Cardinality(Newer(entered, q)) <= Cardinality(Newer(entered', q))
          /\ Cardinality(Newer(entered, q)) \in Nat /\ Cardinality(Newer(entered', q)) \in Nat
      BY <3>3, RunsAreFinite
    <3> QED
      BY <3>2, <3>4, Names
  <2>11. CASE ev.kind = "run_start"
    <3>1. Trim(FilesAfter(r, g), NextsAfter(r), RowsAfter(r, g))
      BY <1>13, <2>11, Inserts
    <3> DEFINE R == RowsAfter(r, g)
    <3>2. row' = [q \in DOMAIN R \ Stale(R) |-> R[q]]
      BY <3>1 DEF Trim
    <3> HIDE DEF R
    <3>3. DOMAIN row' = DOMAIN R \ Stale(R) /\ \A q \in DOMAIN row' : row'[q] = R[q]
      BY <3>2
    <3>4. DOMAIN R \in SUBSET Run /\ R \in [DOMAIN R -> Header] /\ Sound(R, entered') /\ Outlived(R, entered') /\ entered' \in SUBSET Run
      BY <2>3, <2>4, <2>7, <2>8, <2>10 DEF R
    <3> QED
      BY <3>3, <3>4, TrimKeepsNewest
  <2>12. CASE ev.kind # "run_start"
    <3>1. row' = RowsAfter(r, g)
      BY <1>13, <2>12 DEF Insert, RowsAfter
    <3> QED
      BY <2>2, <2>8, <2>9, <2>10, <2>12, <3>1
  <2> QED
    BY <2>11, <2>12
<1>14. ASSUME NEW r \in Run, NEW g \in Writer, WriteFails(r, g) PROVE NewestInv'
  BY <1>14, <1>b DEF WriteFails, disk, openers, history, Before
<1> QED
  BY <1>1, <1>2, <1>3, <1>4, <1>5, <1>6, <1>7, <1>8, <1>9, <1>10, <1>11, <1>12, <1>13, <1>14, Steps

\* The database keeps the newest runs, no more than retention of them, and a run that it has
\* lost is older than all of those, as long as no other process opens the database.
THEOREM NewestAreKept == Reader = {} => (Spec => []NewestKept)
<1> SUFFICES ASSUME Reader = {} PROVE Spec => []NewestKept
  OBVIOUS
<1>1. Init => NewestInv
  BY NewestInit
<1>2. Types /\ NewestInv /\ [Next]_vars => NewestInv'
  BY NewestNext
<1>3. NewestInv => NewestKept
  BY DEF NewestInv, Before, NewestKept, Whole, WholeIn, Outlived, Newer
<1> QED
  BY <1>1, <1>2, <1>3, TypesInvariant, PTL DEF Spec

-----------------------------------------------------------------------------
(* Where the runs and their writers are.                                    *)

\* Nothing of a run is anywhere but the start on its way.
Unwritten(r) ==
    /\ file[r] = <<>> /\ ~InRow(r) /\ r \notin entered /\ r \notin lost
    /\ \A o \in Opener : seen[o][r] = <<>>
    /\ \A g \in Goroutine : Free(r, g) /\ done[r][g] = 0

Starting(r) == pc[r] = "running" /\ ~Free(r, Main)
Drained(r)  == \A g \in Goroutine : Free(r, g)

\* The start of a run comes before everything else of it, its end after everything else.
RunControl(r) ==
    /\ pc[r] = "new" => Unwritten(r) /\ Free(r, Main)
    /\ Starting(r) => Unwritten(r) /\ pending[r][Main].ev.kind = "run_start"
    /\ pc[r] = "end" => Drained(r) /\ (Free(r, Main) \/ pending[r][Main].ev.kind \in Status)
    /\ pc[r] = "dead" => Drained(r) /\ Free(r, Main)
    /\ \A g \in Goroutine : Free(r, g) \/ pending[r][g].ev.n = done[r][g]
    /\ InRing(r) => pc[r] \in {"running", "end"}

LinesOnly == backend = "jsonl" => DOMAIN row = {} /\ \A o \in Opener : handle[o] \in {"off", "open", "closed"}

Control == LinesOnly /\ \A r \in Run : RunControl(r)

LEMMA ControlInit == Init => Control
<1> SUFFICES ASSUME Init PROVE Control
  OBVIOUS
<1>1. PICK old \in {{}, {1}} :
        /\ backend = "jsonl" => old = {}
        /\ pc = [r \in Run |-> IF r \in old THEN "end" ELSE "new"]
        /\ file = [r \in Run |-> IF r \in old THEN OldRun ELSE <<>>]
        /\ entered = old
  BY DEF Init
<1>2. /\ \A r \in Run, g \in Writer : Free(r, g)
      /\ \A r \in Run, g \in Goroutine : done[r][g] = 0
  BY DEF Init, Free, Idle
<1>3. DOMAIN row = {} /\ \A o \in Opener : handle[o] = "off" /\ seen[o] = file
  BY DEF Init
<1>4. \A r \in Run : ~InRing(r)
  BY DEF Init, InRing, Range
<1>5. lost = {}
  BY DEF Init
<1>6. Main \in Writer /\ \A g \in Goroutine : g \in Writer
  BY Names
<1>7. ASSUME NEW r \in Run PROVE RunControl(r)
  <2>1. CASE r \in old
    BY <1>1, <1>2, <1>4, <1>6, <2>1 DEF RunControl, Starting, Drained
  <2>2. CASE r \notin old
    <3>1. pc[r] = "new" /\ file[r] = <<>> /\ r \notin entered
      BY <1>1, <2>2
    <3>2. Unwritten(r)
      BY <1>2, <1>3, <1>5, <1>6, <3>1 DEF Unwritten, InRow
    <3> QED
      BY <1>2, <1>4, <1>6, <3>1, <3>2 DEF RunControl, Starting
  <2> QED
    BY <2>1, <2>2
<1>8. LinesOnly
  BY <1>3 DEF LinesOnly
<1> QED
  BY <1>7, <1>8 DEF Control

\* A run of which nothing changes but, perhaps, what is on disk.
LEMMA Unmoved ==
    ASSUME NEW r \in Run, RunControl(r), pc'[r] = pc[r], pending'[r] = pending[r], done'[r] = done[r],
           InRing(r)' => InRing(r), Unwritten(r) => Unwritten(r)'
    PROVE  RunControl(r)'
<1>1. \A g : Free(r, g)' <=> Free(r, g)
  BY DEF Free
<1> QED
  BY <1>1 DEF RunControl, Starting, Drained

LEMMA StaysUnwritten ==
    ASSUME NEW r \in Run, pending'[r] = pending[r], done'[r] = done[r],
           file'[r] = file[r] \/ file'[r] = <<>>, InRow(r)' => InRow(r),
           r \in entered' => r \in entered, r \in lost' => r \in lost,
           \A o \in Opener : seen'[o][r] = seen[o][r] \/ seen'[o][r] = file[r]
    PROVE  Unwritten(r) => Unwritten(r)'
BY DEF Unwritten, Free

\* The writers and the memory stand still, and the disk may only lose runs.
LEMMA AllUnmoved ==
    ASSUME Control, UNCHANGED <<pc, pending, done, ring, entered, lost>>,
           \A q \in Run : /\ file'[q] = file[q] \/ file'[q] = <<>>
                          /\ InRow(q)' => InRow(q) \/ \E o \in Opener : seen[o][q] # <<>>
                          /\ \A o \in Opener : seen'[o][q] = seen[o][q] \/ seen'[o][q] = file[q]
    PROVE  \A q \in Run : RunControl(q)'
<1> SUFFICES ASSUME NEW q \in Run PROVE RunControl(q)'
  OBVIOUS
<1>1. RunControl(q)
  BY DEF Control
<1>2. Unwritten(q) => Unwritten(q)'
  BY DEF Unwritten, Free
<1>3. InRing(q)' => InRing(q)
  BY DEF InRing
<1> QED
  BY <1>1, <1>2, <1>3, Unmoved

LEMMA ControlNext == ASSUME Types, Control, [Next]_vars PROVE Control'
<1>0. Main \in Writer /\ App \in Opener /\ \A g \in Goroutine : g \in Writer /\ g # Main
  BY Names
<1>a. LinesOnly /\ \A q \in Run : RunControl(q)
  BY DEF Control
<1>1. CASE UNCHANGED vars
  <2>1. UNCHANGED <<backend, pc, pending, done, ring, entered, lost, file, row, seen, handle>>
    BY <1>1 DEF vars, memory, disk, openers, history
  <2>2. \A q \in Run : RunControl(q)'
    BY <2>1, AllUnmoved DEF InRow
  <2> QED
    BY <1>a, <2>1, <2>2 DEF Control, LinesOnly
<1>2. CASE Close
  <2>1. UNCHANGED <<backend, pc, pending, done, ring, entered, lost, file, row, seen>>
    BY <1>2 DEF Close, memory, disk, history
  <2>2. \A q \in Run : RunControl(q)'
    BY <2>1, AllUnmoved DEF InRow
  <2>3. LinesOnly'
    BY <1>a, <1>2, <2>1 DEF Close, LinesOnly, Types, ControlTypes
  <2> QED
    BY <2>2, <2>3 DEF Control
<1>3. CASE Crash
  <2>1. \A q \in Run, h \in Writer : Free(q, h)'
    BY <1>3, Crashes
  <2>2. \A q \in Run : ~InRing(q)'
    BY <1>3 DEF Crash, InRing, Range
  <2>3. LinesOnly'
    BY <1>a, <1>3 DEF Crash, LinesOnly, Types, ControlTypes
  <2>4. ASSUME NEW q \in Run PROVE RunControl(q)'
    <3>1. pc'[q] = IF pc[q] = "running" \/ ~Free(q, Main) THEN "dead" ELSE pc[q]
      BY <1>3 DEF Crash
    <3>2. pc'[q] # "running"
      BY <3>1
    <3>3. pc'[q] = "new" => Unwritten(q)'
      <4> SUFFICES ASSUME pc'[q] = "new" PROVE Unwritten(q)'
        OBVIOUS
      <4>1. Unwritten(q) /\ Free(q, Main)
        BY <1>a, <3>1 DEF RunControl
      <4>2. \A h \in Writer : Free(q, h)
        BY <1>0, <4>1 DEF Unwritten, Writer
      <4>3. ~Numbered(q)
        BY <4>2 DEF Numbered, Free
      <4>4. file'[q] = file[q]
        BY <1>3, <4>3 DEF Crash
      <4>5. row' = row /\ entered' = entered /\ lost' = lost /\ seen' = seen /\ \A g \in Goroutine : done'[q][g] = 0
        BY <1>3 DEF Crash
      <4> QED
        BY <1>0, <2>1, <4>1, <4>4, <4>5 DEF Unwritten, InRow
    <3> QED
      BY <1>0, <2>1, <2>2, <3>2, <3>3 DEF RunControl, Starting, Drained
  <2> QED
    BY <2>3, <2>4 DEF Control
<1>4. ASSUME NEW o \in Opener, Open(o) PROVE Control'
  <2>1. UNCHANGED <<backend, pc, pending, done, ring, entered, lost, file, row, seen>>
    BY <1>4 DEF Open, memory, disk, history
  <2>2. \A q \in Run : RunControl(q)'
    BY <2>1, AllUnmoved DEF InRow
  <2>3. LinesOnly'
    BY <1>a, <1>4, <2>1 DEF Open, LinesOnly, Types, ControlTypes
  <2> QED
    BY <2>2, <2>3 DEF Control
<1>5. ASSUME NEW o \in Opener, Scan(o) PROVE Control'
  <2>1. UNCHANGED <<backend, pc, pending, done, ring, entered, lost, file, row>>
    BY <1>5 DEF Scan, memory, disk, history
  <2>2. \A p \in Opener : seen'[p] = seen[p] \/ seen'[p] = file
    BY <1>5 DEF Scan, Types, DiskTypes
  <2>3. \A q \in Run : RunControl(q)'
    BY <2>1, <2>2, AllUnmoved DEF InRow
  <2>4. LinesOnly'
    BY <1>a, <1>5, <2>1 DEF Scan, LinesOnly
  <2> QED
    BY <2>3, <2>4 DEF Control
<1>6. ASSUME NEW o \in Opener, Backfill(o) PROVE Control'
  <2>1. UNCHANGED <<backend, pc, pending, done, ring, entered, lost, file, seen>>
    BY <1>6 DEF Backfill, memory, history
  <2>2. DOMAIN row' = DOMAIN row \cup {q \in Run : seen[o][q] # <<>>}
    BY <1>6, Backfills
  <2>3. \A q \in Run : RunControl(q)'
    BY <2>1, <2>2, AllUnmoved DEF InRow
  <2>4. LinesOnly'
    BY <1>a, <1>6, <2>1 DEF Backfill, LinesOnly
  <2> QED
    BY <2>3, <2>4 DEF Control
<1>7. ASSUME NEW o \in Opener, Prune(o) PROVE Control'
  <2>1. UNCHANGED <<backend, pc, pending, done, ring, entered, lost, seen>>
    BY <1>7 DEF Prune, memory, history
  <2>2. \A q \in Run : Kept(q) \/ Wiped(q)
    BY <1>7, Prunes
  <2>3. \A q \in Run : (file'[q] = file[q] \/ file'[q] = <<>>) /\ (InRow(q)' => InRow(q))
    BY <2>2 DEF Kept, Wiped
  <2>4. \A q \in Run : RunControl(q)'
    BY <2>1, <2>3, AllUnmoved
  <2>5. LinesOnly'
    BY <1>a, <1>7, <2>1 DEF Prune, LinesOnly
  <2> QED
    BY <2>4, <2>5 DEF Control
<1>8. ASSUME NEW r \in Run, Start(r) PROVE Control'
  <2>1. /\ \A q \in Run : q # r => pending'[q] = pending[q]
        /\ \A g \in Goroutine : pending'[r][g] = pending[r][g]
        /\ pending'[r][Main] = [at |-> "handed", ev |-> Event("run_start", Main, 0), seq |-> 0]
    BY <1>8, Starts
  <2>2. UNCHANGED <<backend, done, file, row, next, handle, seen, entered, lost>> /\ pc[r] = "new"
    BY <1>8 DEF Start, disk, openers, history
  <2>3. pc'[r] = "running" /\ \A q \in Run : q # r => pc'[q] = pc[q]
    BY <1>8 DEF Start, Types, ControlTypes
  <2>4. \A q \in Run : q # r => (InRing(q)' => InRing(q))
    <3>1. MemoryTypes /\ ring' = Push(r)
      BY <1>8 DEF Types, Start
    <3>2. Range(ring') \subseteq Range(ring) \cup {r}
      BY <3>1, Pushes
    <3> QED
      BY <3>2 DEF InRing
  <2>5. ASSUME NEW q \in Run, q # r PROVE RunControl(q)'
    <3>1. Unwritten(q) => Unwritten(q)'
      BY <2>1, <2>2, <2>5, StaysUnwritten DEF InRow
    <3> QED
      BY <1>a, <2>1, <2>2, <2>3, <2>4, <2>5, <3>1, Unmoved
  <2>6. RunControl(r)'
    <3>1. Unwritten(r)
      BY <1>a, <2>2 DEF RunControl
    <3>2. Unwritten(r)'
      BY <2>1, <2>2, <3>1 DEF Unwritten, Free, InRow
    <3>3. pending'[r][Main].ev.kind = "run_start"
      BY <2>1 DEF Event
    <3> QED
      BY <2>3, <3>2, <3>3 DEF RunControl, Unwritten
  <2>7. LinesOnly'
    BY <1>a, <2>2 DEF LinesOnly
  <2> QED
    BY <2>5, <2>6, <2>7 DEF Control
<1>9. ASSUME NEW r \in Run, NEW g \in Goroutine, AppendEvent(r, g) PROVE Control'
  <2>1. /\ \A q \in Run : q # r => pending'[q] = pending[q]
        /\ \A h \in Writer : h # g => pending'[r][h] = pending[r][h]
        /\ pending'[r][g] = [at |-> "handed", ev |-> EventOf(r, g), seq |-> 0]
        /\ EventOf(r, g).n = done[r][g] + 1
        /\ done' = [done EXCEPT ![r][g] = done[r][g] + 1]
    BY <1>9, Appends
  <2>2. UNCHANGED <<backend, pc, ring, file, row, next, handle, seen, entered, lost>> /\ pc[r] = "running" /\ Free(r, Main)
    BY <1>9 DEF AppendEvent, disk, openers, history
  <2>3. /\ \A q \in Run : q # r => done'[q] = done[q]
        /\ done'[r][g] = done[r][g] + 1 /\ \A h \in Goroutine : h # g => done'[r][h] = done[r][h]
    BY <2>1 DEF Types, ControlTypes
  <2>4. ASSUME NEW q \in Run, q # r PROVE RunControl(q)'
    <3>1. Unwritten(q) => Unwritten(q)'
      BY <2>1, <2>2, <2>3, <2>4, StaysUnwritten DEF InRow
    <3> QED
      BY <1>a, <2>1, <2>2, <2>3, <2>4, <3>1, Unmoved DEF InRing
  <2>5. RunControl(r)'
    <3>1. pending'[r][Main] = pending[r][Main] /\ Free(r, Main)'
      BY <1>0, <2>1, <2>2 DEF Free
    <3>2. ASSUME NEW h \in Goroutine PROVE Free(r, h)' \/ pending'[r][h].ev.n = done'[r][h]
      <4>1. CASE h = g
        BY <2>1, <2>3, <4>1
      <4>2. CASE h # g
        BY <1>0, <1>a, <2>1, <2>3, <4>2 DEF RunControl, Free
      <4> QED
        BY <4>1, <4>2
    <3> QED
      BY <2>2, <3>1, <3>2 DEF RunControl, Starting
  <2>6. LinesOnly'
    BY <1>a, <2>2 DEF LinesOnly
  <2> QED
    BY <2>4, <2>5, <2>6 DEF Control
<1>10. ASSUME NEW r \in Run, NEW s \in Outcomes, Finish(r, s) PROVE Control'
  <2>1. /\ \A q \in Run : q # r => pending'[q] = pending[q]
        /\ \A g \in Goroutine : pending'[r][g] = pending[r][g]
        /\ pending'[r][Main] = [at |-> "handed", ev |-> Event(s, Main, 1), seq |-> 0]
        /\ s \in Status
    BY <1>10, Finishes
  <2>2. UNCHANGED <<backend, done, ring, file, row, next, handle, seen, entered, lost>> /\ \A g \in Writer : Free(r, g)
    BY <1>10 DEF Finish, disk, openers, history
  <2>3. pc'[r] = "end" /\ \A q \in Run : q # r => pc'[q] = pc[q]
    BY <1>10 DEF Finish, Types, ControlTypes
  <2>4. ASSUME NEW q \in Run, q # r PROVE RunControl(q)'
    <3>1. Unwritten(q) => Unwritten(q)'
      BY <2>1, <2>2, <2>4, StaysUnwritten DEF InRow
    <3> QED
      BY <1>a, <2>1, <2>2, <2>3, <2>4, <3>1, Unmoved DEF InRing
  <2>5. RunControl(r)'
    <3>1. \A g \in Goroutine : Free(r, g)'
      BY <1>0, <2>1, <2>2 DEF Free
    <3>2. pending'[r][Main].ev.kind \in Status
      BY <2>1 DEF Event
    <3> QED
      BY <2>3, <3>1, <3>2 DEF RunControl, Starting, Drained
  <2>6. LinesOnly'
    BY <1>a, <2>2 DEF LinesOnly
  <2> QED
    BY <2>4, <2>5, <2>6 DEF Control
<1>11. ASSUME NEW r \in Run, NEW g \in Writer, Number(r, g) PROVE Control'
  <2>1. /\ \A q \in Run : q # r => pending'[q] = pending[q]
        /\ \A h \in Writer : h # g => pending'[r][h] = pending[r][h]
        /\ pending'[r][g] = [at |-> "numbered", ev |-> pending[r][g].ev, seq |-> next[r]]
        /\ pending[r][g].at = "handed"
    BY <1>11, Numbers
  <2>2. UNCHANGED <<backend, pc, done, ring, file, row, handle, seen, entered, lost>>
    BY <1>11 DEF Number, memory, openers, history
  <2>3. ASSUME NEW q \in Run, q # r PROVE RunControl(q)'
    <3>1. Unwritten(q) => Unwritten(q)'
      BY <2>1, <2>2, <2>3, StaysUnwritten DEF InRow
    <3> QED
      BY <1>a, <2>1, <2>2, <2>3, <3>1, Unmoved DEF InRing
  <2>4. RunControl(r)'
    <3>1. \A h \in Writer : (Free(r, h)' <=> Free(r, h)) /\ pending'[r][h].ev = pending[r][h].ev
      BY <2>1 DEF Free
    <3>2. Unwritten(r) => Unwritten(r)'
      BY <1>0, <2>2, <3>1 DEF Unwritten, InRow
    <3> QED
      BY <1>0, <1>a, <2>2, <3>1, <3>2 DEF RunControl, Starting, Drained, InRing
  <2>5. LinesOnly'
    BY <1>a, <2>2 DEF LinesOnly
  <2> QED
    BY <2>3, <2>4, <2>5 DEF Control
<1>b. ASSUME NEW r \in Run, NEW g \in Writer, ~Free(r, g), Release(r, g),
             UNCHANGED <<backend, pc, done, ring, handle, seen>>,
             \A q \in Run : q # r => /\ file'[q] = file[q] \/ file'[q] = <<>>
                                     /\ InRow(q)' => InRow(q)
                                     /\ (q \in entered' => q \in entered) /\ (q \in lost' => q \in lost),
             backend = "jsonl" => DOMAIN row' = DOMAIN row
      PROVE  Control'
  <2>1. /\ \A q \in Run : q # r => pending'[q] = pending[q]
        /\ \A h \in Writer : h # g => pending'[r][h] = pending[r][h]
        /\ pending'[r][g] = Idle
    BY <1>b, Releases
  <2>2. ASSUME NEW q \in Run, q # r PROVE RunControl(q)'
    <3>1. Unwritten(q) => Unwritten(q)'
      BY <1>b, <2>1, <2>2, StaysUnwritten
    <3> QED
      BY <1>a, <1>b, <2>1, <2>2, <3>1, Unmoved DEF InRing
  <2>3. RunControl(r)'
    <3>1. Free(r, g)' /\ \A h \in Writer : h # g => (Free(r, h)' <=> Free(r, h)) /\ pending'[r][h] = pending[r][h]
      BY <2>1 DEF Free, Idle
    <3>2. pc[r] \in {"running", "end"}
      <4>1. pc[r] # "new"
        BY <1>0, <1>a, <1>b DEF RunControl, Unwritten, Writer
      <4>2. pc[r] # "dead"
        BY <1>0, <1>a, <1>b DEF RunControl, Drained, Writer
      <4> QED
        BY <4>1, <4>2 DEF Types, ControlTypes
    <3>3. ~Starting(r)'
      <4>1. CASE g = Main
        BY <3>1, <4>1 DEF Starting
      <4>2. CASE g # Main
        <5>1. g \in Goroutine /\ ~Free(r, g)
          BY <1>b, <4>2 DEF Writer
        <5>2. ~Starting(r)
          BY <1>a, <5>1 DEF RunControl, Unwritten
        <5> QED
          BY <1>0, <1>b, <3>1, <4>2, <5>2 DEF Starting
      <4> QED
        BY <4>1, <4>2
    <3>4. \A h \in Goroutine : Free(r, h)' \/ pending'[r][h].ev.n = done'[r][h]
      BY <1>0, <1>a, <1>b, <3>1 DEF RunControl
    <3>5. pc[r] = "end" => Drained(r)' /\ (Free(r, Main)' \/ pending'[r][Main].ev.kind \in Status)
      BY <1>0, <1>a, <3>1 DEF RunControl, Drained
    <3> QED
      BY <1>b, <3>2, <3>3, <3>4, <3>5 DEF RunControl
  <2>4. LinesOnly'
    BY <1>a, <1>b DEF LinesOnly
  <2> QED
    BY <2>2, <2>3, <2>4 DEF Control
<1>12. ASSUME NEW r \in Run, NEW g \in Writer, WriteLine(r, g) PROVE Control'
  <2>1. /\ ~Free(r, g) /\ Release(r, g) /\ UNCHANGED <<backend, pc, done, ring, row, handle, seen, lost>>
        /\ entered' \subseteq entered \cup {r}
    BY <1>12 DEF WriteLine, Free, Enter, memory, openers
  <2>2. \A q \in Run : q # r => file'[q] = file[q]
    BY <1>12 DEF WriteLine, Types, DiskTypes
  <2> QED
    BY <2>1, <2>2, <1>b DEF InRow
<1>13. ASSUME NEW r \in Run, NEW g \in Writer, Insert(r, g) PROVE Control'
  <2>1. /\ ~Free(r, g) /\ Release(r, g) /\ UNCHANGED <<backend, pc, done, ring, handle, seen, lost>>
        /\ entered' \subseteq entered \cup {r} /\ backend = "sqlite"
    BY <1>13 DEF Insert, Free, Enter, memory, openers
  <2>2. \A q \in Run : q # r => Kept(q) \/ Wiped(q)
    BY <1>13, Inserts
  <2>3. \A q \in Run : q # r => (file'[q] = file[q] \/ file'[q] = <<>>) /\ (InRow(q)' => InRow(q))
    BY <2>2 DEF Kept, Wiped
  <2> QED
    BY <2>1, <2>3, <1>b
<1>14. ASSUME NEW r \in Run, NEW g \in Writer, WriteFails(r, g) PROVE Control'
  <2>1. /\ ~Free(r, g) /\ Release(r, g) /\ UNCHANGED <<backend, pc, done, ring, file, row, handle, seen, entered>>
        /\ lost' = lost \cup {r}
    BY <1>14 DEF WriteFails, memory, disk, openers
  <2> QED
    BY <2>1, <1>b DEF InRow
<1> QED
  BY <1>1, <1>2, <1>3, <1>4, <1>5, <1>6, <1>7, <1>8, <1>9, <1>10, <1>11, <1>12, <1>13, <1>14, Steps

-----------------------------------------------------------------------------
(* The lines of a run, while nobody else opens the database.                *)

Numeral(r, g) == pending[r][g].at = "numbered"
Ev(r, g)      == pending[r][g].ev
LineEv(r, i)  == file[r][i].ev
LineSeq(r, i) == file[r][i].seq

\* Numbers are given once, below the next one.
Numbering(r) ==
    /\ \A i \in Readable(r) : LineSeq(r, i) < next[r]
    /\ \A i, j \in Readable(r) : i # j => LineSeq(r, i) # LineSeq(r, j)
    /\ \A g \in Writer : Numeral(r, g) =>
         /\ pending[r][g].seq < next[r]
         /\ \A i \in Readable(r) : LineSeq(r, i) # pending[r][g].seq
         /\ \A h \in Writer : h # g /\ Numeral(r, h) => pending[r][h].seq # pending[r][g].seq

\* Each writer's events are in their order, the one on its way after those on disk.
InTurn(r) ==
    /\ \A i, j \in Readable(r) : i < j /\ LineEv(r, i).by = LineEv(r, j).by =>
          LineEv(r, i).n < LineEv(r, j).n /\ LineSeq(r, i) < LineSeq(r, j)
    /\ \A g \in Writer, i \in Readable(r) : ~Free(r, g) /\ LineEv(r, i).by = g =>
          LineEv(r, i).n < Ev(r, g).n /\ (Numeral(r, g) => LineSeq(r, i) < pending[r][g].seq)
    /\ \A g \in Goroutine, i \in Readable(r) : pc[r] = "running" /\ LineEv(r, i).by = g => LineEv(r, i).n <= done[r][g]

\* The start is the first line and has the lowest number.
Opens(r) ==
    /\ Readable(r) # {} => 1 \in Readable(r) /\ LineEv(r, 1).kind = "run_start"
    /\ \A i \in Readable(r) : i # 1 => LineEv(r, i).kind # "run_start" /\ LineSeq(r, 1) < LineSeq(r, i)
    /\ \A g \in Writer : ~Free(r, g) /\ Ev(r, g).kind # "run_start" =>
          1 \in Readable(r) /\ (Numeral(r, g) => LineSeq(r, 1) < pending[r][g].seq)
    /\ pc[r] \in {"running", "end"} /\ Free(r, Main) => 1 \in Readable(r)

\* The end is the last line and has the highest number.
Ends(r) ==
    /\ \A i \in Readable(r) : LineEv(r, i).kind \in Status =>
          /\ pc[r] # "running" /\ Quiet(r)
          /\ \A j \in Readable(r) : j <= i /\ LineSeq(r, j) <= LineSeq(r, i)
    /\ Numeral(r, Main) /\ Ev(r, Main).kind \in Status =>
          \A i \in Readable(r) : LineSeq(r, i) < pending[r][Main].seq

\* What a goroutine has handed over is on disk or on its way, and all that is before it on disk.
NoGap(r) ==
    /\ \A i \in Readable(r) : LineEv(r, i).n > 1 =>
          \E j \in Readable(r) : j < i /\ LineEv(r, j).by = LineEv(r, i).by /\ LineEv(r, j).n = LineEv(r, i).n - 1
    /\ \A g \in Goroutine : \A n \in 1..done[r][g] :
          \/ ~Free(r, g) /\ Ev(r, g).n = n
          \/ \E i \in Readable(r) : LineEv(r, i).by = g /\ LineEv(r, i).n = n

Past(r) == Numbering(r) /\ InTurn(r) /\ Opens(r) /\ Ends(r) /\ NoGap(r)

\* The runs whose lines are all there, that of an older version from the beginning.
Told(r) == r \notin lost /\ (backend = "sqlite" => RowOf(r).started # 0 \/ (Before /\ r = 1))
PastInv == \A r \in Run : Told(r) => Past(r)

SameLines(r) == Readable(r)' = Readable(r) /\ \A i \in Readable(r) : file'[r][i] = file[r][i]

LEMMA FileSame == ASSUME NEW r \in Run, file'[r] = file[r] PROVE SameLines(r)
BY DEF SameLines, Readable

\* What a line is.
LEMMA LineParts ==
    ASSUME Types, NEW r \in Run, NEW i \in Readable(r)
    PROVE  /\ LineEv(r, i) \in Said(LineEv(r, i).by) /\ LineEv(r, i).by \in Writer
           /\ LineEv(r, i).n \in Nat /\ LineSeq(r, i) \in Nat /\ i \in Nat \ {0}
           /\ i \in 1..Len(file[r]) /\ LineEv(r, i) \in Events
<1>1. file[r] \in Seq(SaidLines) /\ i \in DOMAIN file[r] /\ file[r][i].ev # Torn
  BY DEF Readable, Types, DiskTypes
<1>2. i \in 1..Len(file[r]) /\ Len(file[r]) \in Nat
  BY <1>1, LenProperties
<1>3. file[r][i] \in SaidLines
  BY <1>1, <1>2, ElementOfSeq
<1>4. LineEv(r, i) \in Said(LineEv(r, i).by) /\ LineEv(r, i) \in Events /\ LineSeq(r, i) \in Nat
  BY <1>1, <1>3 DEF SaidLines, Lines, LineEv, LineSeq
<1> QED
  BY <1>2, <1>4 DEF Events

\* A writer's events by their kinds.
LEMMA Kinds ==
    ASSUME NEW g \in Writer, NEW e \in Said(g)
    PROVE  /\ e.by = g /\ e.n \in Nat /\ e \in Events /\ e # Torn
           /\ e.kind = "run_start" <=> g = Main /\ e.n = 0
           /\ e.kind \in Status <=> g = Main /\ e.n # 0
           /\ e.kind \in Status => e.n = 1
           /\ e.kind \in Counted <=> g # Main
<1>1. e.by = g /\ e.n \in Nat /\ e \in Events
  BY DEF Said, Events
<1>2. e.kind # "torn"
  BY DEF Said, Counted, Status
<1>3. e # Torn
  BY <1>2 DEF Torn, Event
<1> QED
  BY <1>1, <1>3 DEF Said, Counted, Status

\* Nothing of the run changes.
LEMMA PastKept ==
    ASSUME NEW r \in Run, Past(r), SameLines(r), pending'[r] = pending[r], next'[r] = next[r],
           pc'[r] = pc[r], done'[r] = done[r]
    PROVE  Past(r)'
<1>1. /\ Readable(r)' = Readable(r)
      /\ \A i \in Readable(r) : LineEv(r, i)' = LineEv(r, i) /\ LineSeq(r, i)' = LineSeq(r, i)
      /\ \A g : (Free(r, g)' <=> Free(r, g)) /\ (Numeral(r, g)' <=> Numeral(r, g)) /\ Ev(r, g)' = Ev(r, g)
  BY DEF SameLines, LineEv, LineSeq, Free, Numeral, Ev
<1>2. Numbering(r)'
  BY <1>1 DEF Past, Numbering
<1>3. InTurn(r)'
  BY <1>1 DEF Past, InTurn
<1>4. Opens(r)'
  BY <1>1 DEF Past, Opens
<1>5. Ends(r)'
  BY <1>1 DEF Past, Ends, Quiet
<1>6. NoGap(r)'
  BY <1>1 DEF Past, NoGap
<1> QED
  BY <1>2, <1>3, <1>4, <1>5, <1>6 DEF Past

\* The run is not yet on disk.
LEMMA PastOfNone ==
    ASSUME Types, NEW r \in Run, file[r] = <<>>, \A g \in Goroutine : Free(r, g) /\ done[r][g] = 0,
           IF Free(r, Main) THEN pc[r] \notin {"running", "end"}
                            ELSE Ev(r, Main).kind = "run_start" /\ ~Numeral(r, Main)
    PROVE  Past(r)
<1>1. Readable(r) = {}
  BY DEF Readable
<1>2. \A g \in Writer : ~Numeral(r, g) /\ (Free(r, g) \/ g = Main)
  BY DEF Writer, Numeral, Free
<1>3. Ev(r, Main).kind = "run_start" => Ev(r, Main).kind \notin Status
  BY DEF Status
<1>4. Numbering(r) /\ InTurn(r) /\ Opens(r) /\ Ends(r)
  BY <1>1, <1>2, <1>3 DEF Numbering, InTurn, Opens, Ends
<1>5. NoGap(r)
  BY <1>1 DEF NoGap
<1> QED
  BY <1>4, <1>5 DEF Past

\* The process dies: no writer is left, and the run is over if it was not.
LEMMA PastOfCrash ==
    ASSUME NEW r \in Run, Past(r), SameLines(r), next'[r] = next[r], \A g \in Writer : Free(r, g)',
           \A g \in Goroutine : done'[r][g] = 0,
           pc'[r] # "running", pc'[r] = "end" => pc[r] = "end" /\ Free(r, Main)
    PROVE  Past(r)'
<1>1. /\ Readable(r)' = Readable(r)
      /\ \A i \in Readable(r) : LineEv(r, i)' = LineEv(r, i) /\ LineSeq(r, i)' = LineSeq(r, i)
      /\ \A g \in Writer : Free(r, g)' /\ ~Numeral(r, g)'
  BY DEF SameLines, LineEv, LineSeq, Free, Numeral
<1>0. Main \in Writer /\ \A g \in Goroutine : g \in Writer
  BY Names
<1>2. Numbering(r)'
  BY <1>1 DEF Past, Numbering
<1>3. InTurn(r)'
  BY <1>1 DEF Past, InTurn
<1>4. Opens(r)'
  BY <1>1 DEF Past, Opens
<1>5. Ends(r)'
  BY <1>0, <1>1 DEF Past, Ends, Quiet
<1>6. NoGap(r)'
  <2>1. \A g \in Goroutine : 1..done'[r][g] = {}
    OBVIOUS
  <2> QED
    BY <1>1, <2>1 DEF Past, NoGap
<1> QED
  BY <1>2, <1>3, <1>4, <1>5, <1>6 DEF Past

\* A writer hands an event to the journal: a goroutine its next one, or Main the end.
LEMMA PastOfHand ==
    ASSUME Types, NEW r \in Run, NEW g \in Writer, Past(r), SameLines(r), next'[r] = next[r],
           pc[r] = "running", Free(r, Main), Free(r, g),
           \A h \in Writer : h # g => pending'[r][h] = pending[r][h],
           pending'[r][g].at = "handed", NEW e \in Said(g), pending'[r][g].ev = e,
           \/ /\ g # Main /\ pc'[r] = pc[r] /\ done'[r][g] = done[r][g] + 1 /\ e.n = done'[r][g]
              /\ \A h \in Goroutine : h # g => done'[r][h] = done[r][h]
           \/ g = Main /\ e.n = 1 /\ pc'[r] = "end" /\ done'[r] = done[r]
    PROVE  Past(r)'
<1>0. Main \in Writer /\ \A h \in Goroutine : h \in Writer /\ h # Main /\ done[r][h] \in Nat
  BY Names DEF Types, ControlTypes
<1>1. /\ Readable(r)' = Readable(r)
      /\ \A i \in Readable(r) : LineEv(r, i)' = LineEv(r, i) /\ LineSeq(r, i)' = LineSeq(r, i)
      /\ \A h \in Writer : h # g =>
            (Free(r, h)' <=> Free(r, h)) /\ (Numeral(r, h)' <=> Numeral(r, h)) /\ Ev(r, h)' = Ev(r, h)
            /\ pending'[r][h].seq = pending[r][h].seq
      /\ ~Free(r, g)' /\ ~Numeral(r, g)' /\ Ev(r, g)' = e
  BY DEF SameLines, LineEv, LineSeq, Free, Numeral, Ev
<1>2. \A i \in Readable(r) : LineEv(r, i) \in Said(LineEv(r, i).by) /\ LineEv(r, i).by \in Writer /\ LineEv(r, i).n \in Nat
  BY LineParts
<1>3. \A i \in Readable(r) : LineEv(r, i).kind \notin Status
  BY DEF Past, Ends
<1>4. \A i \in Readable(r) : LineEv(r, i).by = g => LineEv(r, i).n < e.n
  <2> SUFFICES ASSUME NEW i \in Readable(r), LineEv(r, i).by = g PROVE LineEv(r, i).n < e.n
    OBVIOUS
  <2>1. CASE g = Main
    <3>1. LineEv(r, i).n = 0
      BY <1>2, <1>3, <2>1, Kinds
    <3> QED
      BY <2>1, <3>1
  <2>2. CASE g # Main
    <3>1. g \in Goroutine
      BY <2>2 DEF Writer
    <3>2. LineEv(r, i).n <= done[r][g] /\ LineEv(r, i).n \in Nat /\ done[r][g] \in Nat
      BY <1>0, <1>2, <3>1 DEF Past, InTurn
    <3> QED
      BY <2>2, <3>2
  <2> QED
    BY <2>1, <2>2
<1>5. Numbering(r)'
  BY <1>1 DEF Past, Numbering
<1>6. InTurn(r)'
  <2>1. \A i, j \in Readable(r)' : i < j /\ LineEv(r, i)'.by = LineEv(r, j)'.by =>
           LineEv(r, i)'.n < LineEv(r, j)'.n /\ LineSeq(r, i)' < LineSeq(r, j)'
    BY <1>1 DEF Past, InTurn
  <2>2. ASSUME NEW h \in Writer, NEW i \in Readable(r)', ~Free(r, h)', LineEv(r, i)'.by = h
        PROVE  LineEv(r, i)'.n < Ev(r, h)'.n /\ (Numeral(r, h)' => LineSeq(r, i)' < pending'[r][h].seq)
    BY <1>1, <1>4, <2>2 DEF Past, InTurn
  <2>3. ASSUME NEW h \in Goroutine, NEW i \in Readable(r)', pc'[r] = "running", LineEv(r, i)'.by = h
        PROVE  LineEv(r, i)'.n <= done'[r][h]
    <3>1. LineEv(r, i).n <= done[r][h] /\ LineEv(r, i).n \in Nat /\ done[r][h] \in Nat
      BY <1>0, <1>1, <1>2, <2>3 DEF Past, InTurn
    <3>2. done'[r][h] = done[r][h] \/ done'[r][h] = done[r][h] + 1
      BY <2>3
    <3> QED
      BY <1>1, <3>1, <3>2
  <2> QED
    BY <2>1, <2>2, <2>3 DEF InTurn
<1>7. Opens(r)'
  <2>1. 1 \in Readable(r)
    BY DEF Past, Opens
  <2>2. ASSUME NEW h \in Writer, ~Free(r, h)', Ev(r, h)'.kind # "run_start"
        PROVE  1 \in Readable(r)' /\ (Numeral(r, h)' => LineSeq(r, 1)' < pending'[r][h].seq)
    BY <1>1, <2>1, <2>2 DEF Past, Opens
  <2> QED
    BY <1>1, <2>1, <2>2 DEF Past, Opens
<1>8. Ends(r)'
  <2>1. ~Numeral(r, Main)
    BY DEF Free, Numeral
  <2>2. ~Numeral(r, Main)'
    BY <1>0, <1>1, <2>1
  <2> QED
    BY <1>1, <1>3, <2>2 DEF Ends
<1>9. NoGap(r)'
  <2>1. \A i \in Readable(r)' : LineEv(r, i)'.n > 1 =>
          \E j \in Readable(r)' : j < i /\ LineEv(r, j)'.by = LineEv(r, i)'.by /\ LineEv(r, j)'.n = LineEv(r, i)'.n - 1
    BY <1>1 DEF Past, NoGap
  <2>2. ASSUME NEW h \in Goroutine, NEW n \in 1..done'[r][h]
        PROVE  \/ ~Free(r, h)' /\ Ev(r, h)'.n = n
               \/ \E i \in Readable(r)' : LineEv(r, i)'.by = h /\ LineEv(r, i)'.n = n
    <3>1. CASE n \in 1..done[r][h]
      <4>1. \/ ~Free(r, h) /\ Ev(r, h).n = n
            \/ \E i \in Readable(r) : LineEv(r, i).by = h /\ LineEv(r, i).n = n
        BY <3>1 DEF Past, NoGap
      <4> QED
        BY <1>0, <1>1, <4>1
    <3>2. CASE n \notin 1..done[r][h]
      <4>1. done'[r][h] # done[r][h]
        BY <3>2
      <4>2. h = g /\ done'[r][h] = done[r][h] + 1 /\ e.n = done'[r][h]
        BY <1>0, <4>1
      <4>3. n = done'[r][h]
        BY <1>0, <3>2, <4>2
      <4> QED
        BY <1>1, <4>2, <4>3
    <3> QED
      BY <3>1, <3>2
  <2> QED
    BY <2>1, <2>2 DEF NoGap
<1> QED
  BY <1>5, <1>6, <1>7, <1>8, <1>9 DEF Past

\* An event on its way takes its number.
LEMMA PastOfNumber ==
    ASSUME Types, NEW r \in Run, NEW g \in Writer, Past(r), SameLines(r), next'[r] = next[r] + 1,
           pending[r][g].at = "handed", \A h \in Writer : h # g => pending'[r][h] = pending[r][h],
           pending'[r][g] = [at |-> "numbered", ev |-> pending[r][g].ev, seq |-> next[r]],
           pc'[r] = pc[r], done'[r] = done[r]
    PROVE  Past(r)'
<1>0. Main \in Writer /\ \A h \in Goroutine : h \in Writer /\ h # Main
  BY Names
<1>1. /\ Readable(r)' = Readable(r)
      /\ \A i \in Readable(r) : LineEv(r, i)' = LineEv(r, i) /\ LineSeq(r, i)' = LineSeq(r, i)
      /\ \A h \in Writer : (Free(r, h)' <=> Free(r, h)) /\ Ev(r, h)' = Ev(r, h)
      /\ \A h \in Writer : h # g => (Numeral(r, h)' <=> Numeral(r, h)) /\ pending'[r][h].seq = pending[r][h].seq
      /\ pending'[r][g].seq = next[r] /\ ~Free(r, g)
  BY DEF SameLines, LineEv, LineSeq, Free, Numeral, Ev
<1>2. next[r] \in Nat /\ \A h \in Writer : pending[r][h].seq \in Nat
  BY SlotParts DEF Types, DiskTypes
<1>3. \A i \in Readable(r) : LineSeq(r, i) \in Nat /\ LineSeq(r, i) < next[r]
  BY LineParts DEF Past, Numbering
<1>4. Numbering(r)'
  <2>1. \A i \in Readable(r)' : LineSeq(r, i)' < next'[r]
    BY <1>1, <1>2, <1>3
  <2>2. ASSUME NEW h \in Writer, Numeral(r, h)'
        PROVE  /\ pending'[r][h].seq < next'[r]
               /\ \A i \in Readable(r)' : LineSeq(r, i)' # pending'[r][h].seq
               /\ \A k \in Writer : k # h /\ Numeral(r, k)' => pending'[r][k].seq # pending'[r][h].seq
    <3>1. \A k \in Writer : k # g /\ Numeral(r, k) => pending[r][k].seq < next[r]
      BY DEF Past, Numbering
    <3>2. CASE h = g
      BY <1>1, <1>2, <1>3, <3>1, <3>2
    <3>3. CASE h # g
      <4>1. Numeral(r, h)
        BY <1>1, <2>2, <3>3
      <4>2. pending[r][h].seq < next[r] /\ \A i \in Readable(r) : LineSeq(r, i) # pending[r][h].seq
        BY <4>1 DEF Past, Numbering
      <4>3. \A k \in Writer : k # h /\ Numeral(r, k) => pending[r][k].seq # pending[r][h].seq
        BY <4>1 DEF Past, Numbering
      <4> QED
        BY <1>1, <1>2, <3>3, <4>2, <4>3
    <3> QED
      BY <3>2, <3>3
  <2> QED
    BY <1>1, <2>1, <2>2 DEF Past, Numbering
<1>5. InTurn(r)'
  <2>1. ASSUME NEW h \in Writer, NEW i \in Readable(r)', ~Free(r, h)', LineEv(r, i)'.by = h
        PROVE  LineEv(r, i)'.n < Ev(r, h)'.n /\ (Numeral(r, h)' => LineSeq(r, i)' < pending'[r][h].seq)
    BY <1>1, <1>3, <2>1 DEF Past, InTurn
  <2> QED
    BY <1>0, <1>1, <2>1 DEF Past, InTurn
<1>6. Opens(r)'
  <2>1. ASSUME NEW h \in Writer, ~Free(r, h)', Ev(r, h)'.kind # "run_start"
        PROVE  1 \in Readable(r)' /\ (Numeral(r, h)' => LineSeq(r, 1)' < pending'[r][h].seq)
    BY <1>1, <1>3, <2>1 DEF Past, Opens
  <2> QED
    BY <1>0, <1>1, <2>1 DEF Past, Opens
<1>7. Ends(r)'
  <2>1. Numeral(r, Main)' /\ Ev(r, Main)'.kind \in Status =>
          \A i \in Readable(r)' : LineSeq(r, i)' < pending'[r][Main].seq
    BY <1>0, <1>1, <1>3 DEF Past, Ends
  <2> QED
    BY <1>1, <2>1 DEF Past, Ends, Quiet
<1>8. NoGap(r)'
  BY <1>0, <1>1 DEF Past, NoGap
<1> QED
  BY <1>4, <1>5, <1>6, <1>7, <1>8 DEF Past

\* A line added to the file of a run.
LEMMA LineAdded ==
    ASSUME Types, NEW r \in Run, NEW g \in Writer, ~Free(r, g), NEW s \in Nat,
           file'[r] = Append(file[r], Line(s, Ev(r, g)))
    PROVE  \E L \in Nat \ {0} :
             /\ Readable(r)' = Readable(r) \cup {L} /\ L = Len(file[r]) + 1
             /\ \A i \in Readable(r) : i \in Nat \ {0} /\ i < L /\ file'[r][i] = file[r][i]
             /\ file'[r][L].ev = Ev(r, g) /\ file'[r][L].seq = s
<1> DEFINE x == Line(s, Ev(r, g))
           L == Len(file[r]) + 1
<1>1. Ev(r, g) \in Said(g)
  BY DEF Types, PendingTypes, Ev
<1>2. x \in SaidLines /\ x.ev = Ev(r, g) /\ x.seq = s
  BY <1>1, SaidLine
<1>3. Ev(r, g) # Torn
  BY <1>1, Kinds
<1>4. file[r] \in Seq(SaidLines)
  BY DEF Types, DiskTypes
<1> HIDE DEF x
<1>5. /\ file'[r] \in Seq(SaidLines) /\ Len(file'[r]) = L /\ file'[r][L] = x
      /\ \A i \in 1..Len(file[r]) : file'[r][i] = file[r][i]
      /\ Len(file[r]) \in Nat /\ DOMAIN file[r] = 1..Len(file[r])
  BY <1>2, <1>4, AppendProperties, LenProperties DEF x
<1>6. DOMAIN file'[r] = 1..L
  BY <1>5, LenProperties
<1>7. Readable(r) = {i \in 1..Len(file[r]) : file[r][i].ev # Torn}
  BY <1>5 DEF Readable
<1>8. Readable(r)' = {i \in 1..L : file'[r][i].ev # Torn}
  BY <1>6 DEF Readable
<1>9. Readable(r)' = Readable(r) \cup {L}
  BY <1>2, <1>3, <1>5, <1>7, <1>8
<1> QED
  BY <1>2, <1>5, <1>7, <1>9

\* An event on its way is written, with the number that it has or with the next one.
LEMMA PastOfWrite ==
    ASSUME Types, NEW r \in Run, RunControl(r), NEW g \in Writer, Past(r), ~Free(r, g), NEW s \in Nat,
           file'[r] = Append(file[r], Line(s, Ev(r, g))),
           \/ Numeral(r, g) /\ s = pending[r][g].seq /\ next'[r] = next[r]
           \/ s = next[r] /\ next'[r] = next[r] + 1 /\ \A h \in Writer : ~Numeral(r, h),
           \A h \in Writer : h # g => pending'[r][h] = pending[r][h],
           pending'[r][g] = Idle, pc'[r] = pc[r], done'[r] = done[r]
    PROVE  Past(r)'
<1> DEFINE e == Ev(r, g)
<1>0. Main \in Writer /\ \A h \in Goroutine : h \in Writer /\ h # Main
  BY Names
<1>1. PICK L \in Nat \ {0} :
         /\ Readable(r)' = Readable(r) \cup {L} /\ L = Len(file[r]) + 1
         /\ \A i \in Readable(r) : i \in Nat \ {0} /\ i < L /\ file'[r][i] = file[r][i]
         /\ file'[r][L].ev = e /\ file'[r][L].seq = s
  BY LineAdded
<1>2. /\ \A i \in Readable(r) : /\ i \in Nat \ {0} /\ i < L /\ i # L
                                /\ LineEv(r, i)' = LineEv(r, i) /\ LineSeq(r, i)' = LineSeq(r, i)
      /\ LineEv(r, L)' = e /\ LineSeq(r, L)' = s
  BY <1>1 DEF LineEv, LineSeq
<1>3. /\ \A h \in Writer : h # g =>
            (Free(r, h)' <=> Free(r, h)) /\ (Numeral(r, h)' <=> Numeral(r, h)) /\ Ev(r, h)' = Ev(r, h)
            /\ pending'[r][h].seq = pending[r][h].seq
      /\ Free(r, g)' /\ ~Numeral(r, g)'
  BY DEF Idle, Free, Numeral, Ev
<1>4. /\ next[r] \in Nat /\ next'[r] \in Nat /\ next[r] <= next'[r] /\ s < next'[r]
      /\ \A h \in Writer : pending[r][h].seq \in Nat /\ (Numeral(r, h) => pending[r][h].seq < next'[r])
  <2>1. next[r] \in Nat /\ \A h \in Writer : pending[r][h].seq \in Nat
    BY SlotParts DEF Types, DiskTypes
  <2>2. \A h \in Writer : Numeral(r, h) => pending[r][h].seq < next[r]
    BY DEF Past, Numbering
  <2> QED
    BY <2>1, <2>2
<1>5. \A i \in Readable(r) : /\ LineSeq(r, i) \in Nat /\ LineSeq(r, i) < next[r] /\ LineSeq(r, i) # s
                             /\ LineEv(r, i) \in Said(LineEv(r, i).by) /\ LineEv(r, i).by \in Writer
                             /\ LineEv(r, i).n \in Nat
  <2>1. \A i \in Readable(r) : /\ LineSeq(r, i) \in Nat
                               /\ LineEv(r, i) \in Said(LineEv(r, i).by) /\ LineEv(r, i).by \in Writer
                               /\ LineEv(r, i).n \in Nat
    BY LineParts
  <2>2. \A i \in Readable(r) : LineSeq(r, i) < next[r] /\ (Numeral(r, g) => LineSeq(r, i) # pending[r][g].seq)
    BY DEF Past, Numbering
  <2> QED
    BY <1>4, <2>1, <2>2
<1>6. \A h \in Writer : h # g /\ Numeral(r, h) => pending[r][h].seq # s
  BY DEF Past, Numbering
<1>7. \A i \in Readable(r) : LineEv(r, i).by = g => LineSeq(r, i) < s /\ LineEv(r, i).n < e.n
  BY <1>5 DEF Past, InTurn
<1>8. e.kind # "run_start" => 1 \in Readable(r) /\ LineSeq(r, 1) < s
  BY <1>5 DEF Past, Opens
<1>9. e \in Said(g)
  BY DEF Types, PendingTypes, Ev
<1>10. /\ e.by = g /\ e.n \in Nat /\ e # Torn
       /\ (e.kind = "run_start" <=> g = Main /\ e.n = 0)
       /\ (e.kind \in Status <=> g = Main /\ e.n # 0)
       /\ (e.kind \in Status => e.n = 1)
  BY <1>9, Kinds
<1>11. e.kind \in Status => \A i \in Readable(r) : LineSeq(r, i) < s
  BY <1>5, <1>10 DEF Past, Ends
<1>12. \A i \in Readable(r) : LineEv(r, i).kind \notin Status
  BY DEF Past, Ends, Quiet
<1>13. g # Main => g \in Goroutine /\ e.n = done[r][g] /\ pc[r] = "running" /\ Free(r, Main)
  <2> SUFFICES ASSUME g # Main PROVE g \in Goroutine /\ e.n = done[r][g] /\ pc[r] = "running" /\ Free(r, Main)
    OBVIOUS
  <2>1. g \in Goroutine
    BY DEF Writer
  <2>2. e.n = done[r][g]
    BY <2>1 DEF RunControl, Ev
  <2>3. pc[r] \notin {"new", "end", "dead"}
    BY <2>1 DEF RunControl, Unwritten, Drained
  <2>4. pc[r] = "running"
    BY <2>3 DEF Types, ControlTypes
  <2> QED
    BY <2>1, <2>2, <2>4 DEF RunControl, Starting, Unwritten
<1>14. g = Main => \/ pc[r] = "running" /\ e.kind = "run_start" /\ file[r] = <<>> /\ Drained(r)
                   \/ pc[r] = "end" /\ e.kind \in Status /\ Drained(r)
  <2> SUFFICES ASSUME g = Main PROVE \/ pc[r] = "running" /\ e.kind = "run_start" /\ file[r] = <<>> /\ Drained(r)
                                     \/ pc[r] = "end" /\ e.kind \in Status /\ Drained(r)
    OBVIOUS
  <2>1. pc[r] \in {"running", "end"}
    BY DEF RunControl, Types, ControlTypes
  <2> QED
    BY <2>1 DEF RunControl, Starting, Unwritten, Drained, Ev
<1>15. file[r] = <<>> => Readable(r) = {} /\ L = 1
  <2>1. Len(<<>>) = 0
    BY EmptySeq
  <2> QED
    BY <1>1, <2>1 DEF Readable
<1>16. g = Main => \A h \in Writer : Free(r, h)'
  BY <1>3, <1>14 DEF Drained, Writer
<1> HIDE DEF e
<1>17. Numbering(r)'
  <2>1. \A i \in Readable(r)' : LineSeq(r, i)' < next'[r]
    BY <1>1, <1>2, <1>4, <1>5
  <2>2. ASSUME NEW i \in Readable(r)', NEW j \in Readable(r)', i # j PROVE LineSeq(r, i)' # LineSeq(r, j)'
    <3>1. CASE i = L
      BY <1>1, <1>2, <1>5, <2>2, <3>1
    <3>2. CASE j = L
      BY <1>1, <1>2, <1>5, <2>2, <3>2
    <3>3. CASE i # L /\ j # L
      BY <1>1, <1>2, <2>2, <3>3 DEF Past, Numbering
    <3> QED
      BY <3>1, <3>2, <3>3
  <2>3. ASSUME NEW h \in Writer, Numeral(r, h)'
        PROVE  /\ pending'[r][h].seq < next'[r]
               /\ \A i \in Readable(r)' : LineSeq(r, i)' # pending'[r][h].seq
               /\ \A k \in Writer : k # h /\ Numeral(r, k)' => pending'[r][k].seq # pending'[r][h].seq
    <3>1. h # g /\ Numeral(r, h) /\ pending'[r][h].seq = pending[r][h].seq
      BY <1>3, <2>3
    <3>2. \A i \in Readable(r) : LineSeq(r, i) # pending[r][h].seq
      BY <3>1 DEF Past, Numbering
    <3>3. \A k \in Writer : k # h /\ Numeral(r, k) => pending[r][k].seq # pending[r][h].seq
      BY <3>1 DEF Past, Numbering
    <3>4. \A k \in Writer : Numeral(r, k)' => k # g /\ Numeral(r, k) /\ pending'[r][k].seq = pending[r][k].seq
      BY <1>3
    <3> QED
      BY <1>1, <1>2, <1>4, <1>6, <3>1, <3>2, <3>3, <3>4
  <2> QED
    BY <2>1, <2>2, <2>3 DEF Numbering
<1>18. InTurn(r)'
  <2>1. ASSUME NEW i \in Readable(r)', NEW j \in Readable(r)', i < j, LineEv(r, i)'.by = LineEv(r, j)'.by
        PROVE  LineEv(r, i)'.n < LineEv(r, j)'.n /\ LineSeq(r, i)' < LineSeq(r, j)'
    <3>1. i \in Readable(r)
      <4>1. j = L \/ j < L
        BY <1>1, <1>2
      <4>2. i \in Nat /\ j \in Nat
        BY <1>1, <1>2
      <4> QED
        BY <1>1, <2>1, <4>1, <4>2
    <3>2. CASE j = L
      BY <1>2, <1>7, <1>10, <2>1, <3>1, <3>2
    <3>3. CASE j # L
      <4>1. j \in Readable(r)
        BY <1>1, <3>3
      <4> QED
        BY <1>2, <2>1, <3>1, <4>1 DEF Past, InTurn
    <3> QED
      BY <3>2, <3>3
  <2>2. ASSUME NEW h \in Writer, NEW i \in Readable(r)', ~Free(r, h)', LineEv(r, i)'.by = h
        PROVE  LineEv(r, i)'.n < Ev(r, h)'.n /\ (Numeral(r, h)' => LineSeq(r, i)' < pending'[r][h].seq)
    <3>1. h # g
      BY <1>3, <2>2
    <3>2. i # L
      BY <1>2, <1>10, <2>2, <3>1
    <3>3. i \in Readable(r) /\ LineEv(r, i)' = LineEv(r, i) /\ LineSeq(r, i)' = LineSeq(r, i)
      BY <1>1, <1>2, <3>2
    <3> QED
      BY <1>3, <2>2, <3>1, <3>3 DEF Past, InTurn
  <2>3. ASSUME NEW h \in Goroutine, NEW i \in Readable(r)', pc'[r] = "running", LineEv(r, i)'.by = h
        PROVE  LineEv(r, i)'.n <= done'[r][h]
    <3>1. CASE i = L
      <4>1. h = g /\ LineEv(r, i)'.n = e.n
        BY <1>2, <1>10, <2>3, <3>1
      <4>2. e.n = done[r][h]
        BY <1>0, <1>13, <4>1
      <4> QED
        BY <1>10, <4>1, <4>2
    <3>2. CASE i # L
      <4>1. i \in Readable(r) /\ LineEv(r, i)' = LineEv(r, i)
        BY <1>1, <1>2, <3>2
      <4> QED
        BY <2>3, <4>1 DEF Past, InTurn
    <3> QED
      BY <3>1, <3>2
  <2> QED
    BY <2>1, <2>2, <2>3 DEF InTurn
<1>19. Opens(r)'
  <2>1. 1 \in Readable(r)' /\ LineEv(r, 1)'.kind = "run_start"
    <3>1. CASE e.kind = "run_start"
      BY <1>1, <1>2, <1>10, <1>14, <1>15, <3>1 DEF Status
    <3>2. CASE e.kind # "run_start"
      BY <1>1, <1>2, <1>8, <3>2 DEF Past, Opens
    <3> QED
      BY <3>1, <3>2
  <2>2. ASSUME NEW i \in Readable(r)', i # 1 PROVE LineEv(r, i)'.kind # "run_start" /\ LineSeq(r, 1)' < LineSeq(r, i)'
    <3>1. CASE i = L
      <4>1. e.kind # "run_start"
        BY <1>10, <1>14, <1>15, <2>2, <3>1 DEF Status
      <4> QED
        BY <1>2, <1>8, <3>1, <4>1
    <3>2. CASE i # L
      <4>1. i \in Readable(r) /\ LineEv(r, i)' = LineEv(r, i) /\ LineSeq(r, i)' = LineSeq(r, i)
        BY <1>1, <1>2, <3>2
      <4>2. 1 \in Readable(r)
        BY <4>1 DEF Past, Opens
      <4> QED
        BY <1>2, <2>2, <4>1, <4>2 DEF Past, Opens
    <3> QED
      BY <3>1, <3>2
  <2>3. ASSUME NEW h \in Writer, ~Free(r, h)', Ev(r, h)'.kind # "run_start"
        PROVE  1 \in Readable(r)' /\ (Numeral(r, h)' => LineSeq(r, 1)' < pending'[r][h].seq)
    <3>1. h # g
      BY <1>3, <2>3
    <3>2. 1 \in Readable(r) /\ (Numeral(r, h) => LineSeq(r, 1) < pending[r][h].seq)
      BY <1>3, <2>3, <3>1 DEF Past, Opens
    <3> QED
      BY <1>1, <1>2, <1>3, <3>1, <3>2
  <2> QED
    BY <2>1, <2>2, <2>3 DEF Opens
<1>20. Ends(r)'
  <2>1. ASSUME NEW i \in Readable(r)', LineEv(r, i)'.kind \in Status
        PROVE  /\ pc'[r] # "running" /\ Quiet(r)'
               /\ \A j \in Readable(r)' : j <= i /\ LineSeq(r, j)' <= LineSeq(r, i)'
    <3>1. i = L /\ e.kind \in Status
      BY <1>1, <1>2, <1>12, <2>1
    <3>2. g = Main /\ pc[r] = "end"
      BY <1>10, <1>14, <3>1 DEF Status
    <3>3. \A j \in Readable(r) : j <= L /\ LineSeq(r, j) <= s
      BY <1>2, <1>5, <1>11, <3>1
    <3> QED
      BY <1>1, <1>2, <1>16, <3>1, <3>2, <3>3 DEF Quiet
  <2>2. Numeral(r, Main)' /\ Ev(r, Main)'.kind \in Status => FALSE
    <3>1. CASE g = Main
      BY <1>3, <3>1
    <3>2. CASE g # Main
      <4>1. ~Numeral(r, Main)
        BY <1>13, <3>2 DEF Free, Numeral
      <4> QED
        BY <1>0, <1>3, <3>2, <4>1
    <3> QED
      BY <3>1, <3>2
  <2> QED
    BY <2>1, <2>2 DEF Ends
<1>21. NoGap(r)'
  <2>1. ASSUME NEW i \in Readable(r)', LineEv(r, i)'.n > 1
        PROVE  \E j \in Readable(r)' : j < i /\ LineEv(r, j)'.by = LineEv(r, i)'.by /\ LineEv(r, j)'.n = LineEv(r, i)'.n - 1
    <3>1. CASE i = L
      <4>1. e.n > 1
        BY <1>2, <2>1, <3>1
      <4>2. g # Main
        <5>1. g = Main => e.n = 0 \/ e.n = 1
          BY <1>10
        <5> QED
          BY <4>1, <5>1
      <4>3. e.n = done[r][g] /\ g \in Goroutine
        BY <1>13, <4>2
      <4>4. e.n - 1 \in 1..done[r][g] /\ e.n - 1 # e.n
        BY <1>10, <4>1, <4>3
      <4>5. PICK j \in Readable(r) : LineEv(r, j).by = g /\ LineEv(r, j).n = e.n - 1
        BY <4>3, <4>4 DEF Past, NoGap, e
      <4>6. j \in Readable(r)' /\ j < L /\ LineEv(r, j)'.by = g /\ LineEv(r, j)'.n = e.n - 1
        BY <1>1, <1>2, <4>5
      <4> QED
        BY <1>2, <1>10, <3>1, <4>6
    <3>2. CASE i # L
      <4>1. i \in Readable(r) /\ LineEv(r, i)' = LineEv(r, i)
        BY <1>1, <1>2, <3>2
      <4>2. PICK j \in Readable(r) : j < i /\ LineEv(r, j).by = LineEv(r, i).by /\ LineEv(r, j).n = LineEv(r, i).n - 1
        BY <2>1, <4>1 DEF Past, NoGap
      <4> QED
        BY <1>1, <1>2, <4>1, <4>2
    <3> QED
      BY <3>1, <3>2
  <2>2. ASSUME NEW h \in Goroutine, NEW n \in 1..done'[r][h]
        PROVE  \/ ~Free(r, h)' /\ Ev(r, h)'.n = n
               \/ \E i \in Readable(r)' : LineEv(r, i)'.by = h /\ LineEv(r, i)'.n = n
    <3>1. \/ ~Free(r, h) /\ Ev(r, h).n = n
          \/ \E i \in Readable(r) : LineEv(r, i).by = h /\ LineEv(r, i).n = n
      BY <2>2 DEF Past, NoGap
    <3>2. CASE \E i \in Readable(r) : LineEv(r, i).by = h /\ LineEv(r, i).n = n
      BY <1>1, <1>2, <3>2
    <3>3. CASE ~Free(r, h) /\ Ev(r, h).n = n
      <4>1. CASE h = g
        BY <1>1, <1>2, <1>10, <3>3, <4>1 DEF e
      <4>2. CASE h # g
        BY <1>0, <1>3, <3>3, <4>2
      <4> QED
        BY <4>1, <4>2
    <3> QED
      BY <3>1, <3>2, <3>3
  <2> QED
    BY <2>1, <2>2 DEF NoGap
<1> QED
  BY <1>17, <1>18, <1>19, <1>20, <1>21 DEF Past

\* The run of an older version is there from its start to its end.
LEMMA PastOfOld ==
    ASSUME 1 \in Run, file[1] = OldRun, next[1] = 3, pc[1] = "end",
           \A g \in Writer : Free(1, g), \A g \in Goroutine : done[1][g] = 0
    PROVE  Past(1)
<1>1. \A g \in Writer : ~Numeral(1, g) /\ Free(1, g)
  BY DEF Numeral, Free
<1>2. Readable(1) = {1, 2, 3}
  <2>1. OldRun \in Seq(SaidLines) /\ Len(OldRun) = 3 /\ \A i \in 1..3 : OldRun[i].ev # Torn
    BY OldRunIsSaid
  <2>2. DOMAIN OldRun = {1, 2, 3}
    BY <2>1, LenProperties
  <2> QED
    BY <2>1, <2>2 DEF Readable
<1>3. /\ LineSeq(1, 1) = 0 /\ LineSeq(1, 2) = 1 /\ LineSeq(1, 3) = 2
      /\ LineEv(1, 1) = Event("run_start", Main, 0) /\ LineEv(1, 3) = Event("ok", Main, 1)
      /\ LineEv(1, 2).by \in Goroutine /\ LineEv(1, 2).kind = "llm_response" /\ LineEv(1, 2).n = 1
  BY OldRunIsSaid DEF LineSeq, LineEv
<1>4. /\ LineEv(1, 1).kind = "run_start" /\ LineEv(1, 3).kind = "ok"
      /\ LineEv(1, 1).by = Main /\ LineEv(1, 3).by = Main /\ LineEv(1, 2).by # Main
      /\ LineEv(1, 1).n = 0 /\ LineEv(1, 3).n = 1
  BY <1>3, Names DEF Event
<1>5. Numbering(1)
  BY <1>1, <1>2, <1>3 DEF Numbering
<1>6. InTurn(1)
  BY <1>1, <1>2, <1>3, <1>4 DEF InTurn
<1>7. Opens(1)
  BY <1>1, <1>2, <1>3, <1>4 DEF Opens
<1>8. Ends(1)
  BY <1>1, <1>2, <1>3, <1>4, Names DEF Ends, Quiet, Status
<1>9. NoGap(1)
  BY <1>2, <1>3, <1>4 DEF NoGap
<1> QED
  BY <1>5, <1>6, <1>7, <1>8, <1>9 DEF Past

LEMMA PastInit == Init => PastInv
<1> SUFFICES ASSUME Init, NEW r \in Run, Told(r) PROVE Past(r)
  BY DEF PastInv
<1>1. PICK old \in {{}, {1}} :
        /\ pc = [q \in Run |-> IF q \in old THEN "end" ELSE "new"]
        /\ file = [q \in Run |-> IF q \in old THEN OldRun ELSE <<>>]
        /\ next = [q \in Run |-> IF q \in old THEN Len(OldRun) ELSE 0]
        /\ entered = old
  BY DEF Init
<1>2. /\ \A q \in Run, g \in Writer : Free(q, g)
      /\ \A q \in Run, g \in Goroutine : done[q][g] = 0
  BY DEF Init, Free, Idle
<1>3. Types /\ Main \in Writer /\ \A g \in Goroutine : g \in Writer
  BY TypesInit, Names
<1>4. CASE r \in old
  <2>1. r = 1 /\ 1 \in Run /\ file[1] = OldRun /\ next[1] = 3 /\ pc[1] = "end"
    BY <1>1, <1>4, OldRunIsSaid
  <2> QED
    BY <1>2, <2>1, PastOfOld
<1>5. CASE r \notin old
  <2>1. file[r] = <<>> /\ pc[r] = "new"
    BY <1>1, <1>5
  <2> QED
    BY <1>2, <1>3, <2>1, PastOfNone
<1> QED
  BY <1>4, <1>5

\* The older version's database is left, never entered.
LEMMA BeforeBack ==
    ASSUME Reader = {}, Types, RowInv, backend = "sqlite", Next, Before'
    PROVE  Before /\ \A q \in Run : file'[q] = file[q]
<1>0. Opener = {App} /\ App \in Opener
  BY Names DEF Opener
<1>1. Opener = {App} /\ handle'[App] \in {"off", "scan", "fill"} /\ row' = <<>> /\ file'[1] = OldRun /\ 1 \in Run
  BY <1>0 DEF Before
<1>2. OldRun # <<>>
  <2>1. Len(OldRun) = 3 /\ Len(<<>>) = 0
    BY OldRunIsSaid, EmptySeq
  <2> QED
    BY <2>1
<1>3. ASSUME row' = row, \A q \in Run : file'[q] = file[q] PROVE Before
  <2>1. ~InRow(1)
    BY <1>1, <1>3 DEF InRow
  <2> QED
    BY <1>1, <1>2, <1>3, <2>1 DEF RowInv, Settled
<1>4. row' = row /\ \A q \in Run : file'[q] = file[q]
  <2>1. CASE Close
    BY <2>1 DEF Close, disk
  <2>2. CASE Crash
    <3>1. \A q \in Run, g \in Writer : pending[q][g].at # "numbered"
      BY DEF Types, PendingTypes
    <3> QED
      BY <2>2, <3>1 DEF Crash, Numbered
  <2>3. ASSUME NEW o \in Opener, Open(o) \/ Scan(o) PROVE row' = row /\ \A q \in Run : file'[q] = file[q]
    BY <2>3 DEF Open, Scan, disk
  <2>4. ASSUME NEW o \in Opener, Backfill(o) \/ Prune(o) PROVE FALSE
    <3>1. handle'[App] \in {"prune", "open"}
      BY <1>0, <2>4 DEF Backfill, Prune, Types, ControlTypes
    <3> QED
      BY <1>1, <3>1
  <2>5. ASSUME NEW r \in Run, Start(r) PROVE row' = row /\ \A q \in Run : file'[q] = file[q]
    BY <2>5 DEF Start, disk
  <2>6. ASSUME NEW r \in Run, NEW g \in Goroutine, AppendEvent(r, g) PROVE row' = row /\ \A q \in Run : file'[q] = file[q]
    BY <2>6 DEF AppendEvent, disk
  <2>7. ASSUME NEW r \in Run, NEW s \in Outcomes, Finish(r, s) PROVE row' = row /\ \A q \in Run : file'[q] = file[q]
    BY <2>7 DEF Finish, disk
  <2>8. ASSUME NEW r \in Run, NEW g \in Writer, Number(r, g) PROVE row' = row /\ \A q \in Run : file'[q] = file[q]
    BY <2>8 DEF Number
  <2>9. ASSUME NEW r \in Run, NEW g \in Writer, WriteLine(r, g) PROVE FALSE
    BY <2>9 DEF WriteLine, Types, PendingTypes
  <2>10. ASSUME NEW r \in Run, NEW g \in Writer, Insert(r, g) PROVE FALSE
    BY <1>1, <2>10 DEF Insert, openers
  <2>11. ASSUME NEW r \in Run, NEW g \in Writer, WriteFails(r, g) PROVE row' = row /\ \A q \in Run : file'[q] = file[q]
    BY <2>11 DEF WriteFails, disk
  <2> QED
    BY <2>1, <2>2, <2>3, <2>4, <2>5, <2>6, <2>7, <2>8, <2>9, <2>10, <2>11, Steps
<1> QED
  BY <1>3, <1>4

\* A run whose lines are all there was so before, but for the step that writes its start.
LEMMA ToldBack ==
    ASSUME Reader = {}, Types, RowInv, Next, NEW r \in Run, Told(r)'
    PROVE  \/ Told(r)
           \/ \E g \in Writer : Insert(r, g) /\ pending[r][g].ev.kind = "run_start"
<1>0. Opener = {App} /\ App \in Opener /\ backend' = backend /\ lost \subseteq lost'
  <2>1. backend' = backend
    BY Steps DEF Close, Crash, Open, Scan, Backfill, Prune, Start, AppendEvent, Finish, Number, WriteLine, Insert, WriteFails
  <2>2. lost \subseteq lost'
    BY Steps DEF Close, Crash, Open, Scan, Backfill, Prune, Start, AppendEvent, Finish, Number, WriteLine, Insert, WriteFails, history
  <2> QED
    BY <2>1, <2>2, Names DEF Opener
<1>1. CASE Before' /\ backend = "sqlite" /\ r = 1
  BY <1>0, <1>1, BeforeBack DEF Told
<1>2. CASE Intact(r)' /\ backend = "jsonl"
  <2>1. r \notin lost
    BY <1>0, <1>2 DEF Intact
  <2>2. backend # "sqlite"
    BY <1>2
  <2> QED
    BY <2>1, <2>2 DEF Told, Intact
<1>3. CASE Intact(r)' /\ backend = "sqlite"
  <2>1. r \notin lost /\ RowOf(r)'.started # 0
    BY <1>0, <1>3 DEF Intact
  <2>2. Blank.started = 0
    BY DEF Blank
  <2>3. ASSUME row' = row PROVE Told(r)
    BY <2>1, <2>3 DEF Told, Intact, RowOf
  <2>4. ASSUME Kept(r) \/ Wiped(r) PROVE Told(r)
    BY <2>1, <2>2, <2>4 DEF Told, Intact, RowOf, Kept, Wiped, InRow
  <2>5. ASSUME NEW o \in Opener, Backfill(o) PROVE Told(r)
    <3>1. o = App /\ handle[App] = "fill"
      BY <1>0, <2>5 DEF Backfill
    <3>2. DOMAIN row' = DOMAIN row \cup {q \in Run : seen[App][q] # <<>>}
      BY <2>5, <3>1, Backfills
    <3>3. CASE Before
      <4>1. seen[App] = file /\ DOMAIN row = {}
        BY <3>1, <3>3 DEF Before
      <4>2. r \in DOMAIN row'
        BY <2>1, <2>2 DEF RowOf
      <4> QED
        BY <1>3, <2>1, <3>2, <3>3, <4>1, <4>2 DEF Before, Told
    <3>4. CASE Settled
      <4>1. \A q \in Run : seen[App][q] = <<>> /\ ~InRow(q)
        BY <3>1, <3>4 DEF Settled
      <4>2. r \notin DOMAIN row'
        BY <3>2, <4>1 DEF InRow
      <4> QED
        BY <2>1, <2>2, <4>2 DEF RowOf
    <3> QED
      BY <1>3, <3>3, <3>4 DEF RowInv
  <2>6. ASSUME NEW o \in Opener, Prune(o) PROVE Told(r)
    BY <2>4, <2>6, Prunes
  <2>7. ASSUME NEW q \in Run, NEW g \in Writer, Insert(q, g)
        PROVE  Told(r) \/ (q = r /\ pending[q][g].ev.kind = "run_start")
    <3>1. CASE q # r
      BY <2>4, <2>7, <3>1, Inserts
    <3>2. CASE q = r /\ pending[q][g].ev.kind # "run_start"
      <4>1. Added(r, g)
        BY <2>7, <3>2, Inserts
      <4>2. r \in DOMAIN row' /\ row'[r] = UpdateMeta(RowOf(r), r, pending[r][g].ev)
        BY <4>1 DEF Added, InRow
      <4>3. UpdateMeta(RowOf(r), r, pending[r][g].ev).started = RowOf(r).started
        BY <3>2 DEF UpdateMeta
      <4>4. RowOf(r)'.started = RowOf(r).started
        BY <4>2, <4>3 DEF RowOf
      <4> QED
        BY <2>1, <4>4 DEF Told, Intact
    <3> QED
      BY <3>1, <3>2
  <2>8. ASSUME NEW q \in Run, NEW g \in Writer, Number(q, g) \/ WriteLine(q, g) \/ WriteFails(q, g) PROVE Told(r)
    BY <2>3, <2>8 DEF Number, WriteLine, WriteFails, disk
  <2>9. ASSUME NEW q \in Run, Start(q) \/ (\E g \in Goroutine : AppendEvent(q, g)) \/ (\E s \in Outcomes : Finish(q, s)) PROVE Told(r)
    BY <2>3, <2>9 DEF Start, AppendEvent, Finish, disk
  <2>10. ASSUME NEW o \in Opener, Open(o) \/ Scan(o) PROVE Told(r)
    BY <2>3, <2>10 DEF Open, Scan, disk
  <2>11. CASE Close \/ Crash
    BY <2>3, <2>11 DEF Close, Crash, disk
  <2> QED
    BY <2>5, <2>6, <2>7, <2>8, <2>9, <2>10, <2>11, Steps
<1>4. backend \in {"jsonl", "sqlite"}
  BY JournalAssumption DEF Types, ControlTypes
<1> QED
  BY <1>0, <1>1, <1>2, <1>3, <1>4 DEF Told, Intact

LEMMA PastOfStart ==
    ASSUME NEW r \in Run, file'[r] = <<>>, \A g \in Goroutine : Free(r, g)' /\ done'[r][g] = 0,
           ~Free(r, Main)', Ev(r, Main)'.kind = "run_start", ~Numeral(r, Main)'
    PROVE  Past(r)'
<1>1. Readable(r)' = {}
  BY DEF Readable
<1>2. \A g \in Writer : ~Numeral(r, g)' /\ (Free(r, g)' \/ g = Main)
  BY DEF Writer, Numeral, Free
<1>3. Ev(r, Main)'.kind \notin Status
  BY DEF Status
<1>4. Numbering(r)' /\ InTurn(r)' /\ Opens(r)' /\ Ends(r)'
  BY <1>1, <1>2, <1>3 DEF Numbering, InTurn, Opens, Ends
<1>5. NoGap(r)'
  BY <1>1 DEF NoGap
<1> QED
  BY <1>4, <1>5 DEF Past

LEMMA PastNext ==
    ASSUME Reader = {}, Types, Control, RowInv, PastInv, [Next]_vars
    PROVE  PastInv'
<1> SUFFICES ASSUME NEW r \in Run, Told(r)' PROVE Past(r)'
  BY DEF PastInv
<1>0. Main \in Writer /\ App \in Opener /\ Opener = {App} /\ \A g \in Goroutine : g \in Writer /\ g # Main
  BY Names DEF Opener
<1>a. RunControl(r)
  BY DEF Control
<1>1. CASE UNCHANGED vars
  <2>1. UNCHANGED <<backend, file, next, pending, pc, done, row, handle, seen, entered, lost>>
    BY <1>1 DEF vars, memory, disk, openers, history
  <2>2. Told(r)
    BY <2>1 DEF Told, Intact, RowOf, Before
  <2>3. Past(r)
    BY <2>2 DEF PastInv
  <2> QED
    BY <2>1, <2>3, FileSame, PastKept
<1> SUFFICES ASSUME Next PROVE Past(r)'
  BY <1>1
<1>b. Past(r)
  <2>1. CASE Told(r)
    BY <2>1 DEF PastInv
  <2>2. ASSUME NEW g \in Writer, Insert(r, g), pending[r][g].ev.kind = "run_start" PROVE Past(r)
    <3>1. ~Free(r, g) /\ backend = "sqlite"
      BY <2>2 DEF Insert
    <3>2. pending[r][g].ev \in Said(g)
      BY <3>1 DEF Types, PendingTypes
    <3>3. g = Main
      BY <2>2, <3>2, Kinds
    <3>4. pc[r] = "running"
      <4>1. pc[r] \notin {"new", "dead"}
        BY <1>a, <3>1, <3>3 DEF RunControl
      <4>2. pc[r] # "end"
        BY <1>a, <2>2, <3>1, <3>3 DEF RunControl, Status
      <4> QED
        BY <4>1, <4>2 DEF Types, ControlTypes
    <3>5. Unwritten(r)
      BY <1>a, <3>1, <3>3, <3>4 DEF RunControl, Starting
    <3>6. ~Numeral(r, Main)
      BY <1>0, <3>1 DEF Types, PendingTypes, Numeral
    <3> QED
      BY <2>2, <3>1, <3>3, <3>5, <3>6, PastOfNone DEF Unwritten, Ev
  <2> QED
    BY <2>1, <2>2, ToldBack
<1>2. ASSUME UNCHANGED <<file, next, pending, pc, done>> PROVE Past(r)'
  BY <1>2, <1>b, FileSame, PastKept
<1>3. CASE Crash
  <2>1. \A g \in Writer : Free(r, g)'
    BY <1>3, Crashes
  <2>2. SameLines(r)
    <3>1. PICK torn : file' = [q \in Run |-> IF q \in torn THEN Append(file[q], Line(0, Torn)) ELSE file[q]]
      BY <1>3 DEF Crash
    <3>2. CASE r \notin torn
      <4>1. file'[r] = file[r]
        BY <3>1, <3>2
      <4> QED
        BY <4>1, FileSame
    <3>3. CASE r \in torn
      <4> DEFINE x == Line(0, Torn)
      <4>1. x \in SaidLines /\ x.ev = Torn
        BY SaidEvents DEF Line, SaidLines, Lines
      <4>2. file'[r] = Append(file[r], x)
        BY <3>1, <3>3
      <4>3. file[r] \in Seq(SaidLines)
        BY DEF Types, DiskTypes
      <4> HIDE DEF x
      <4>4. /\ file'[r] \in Seq(SaidLines) /\ Len(file'[r]) = Len(file[r]) + 1 /\ file'[r][Len(file[r]) + 1] = x
            /\ \A i \in 1..Len(file[r]) : file'[r][i] = file[r][i]
            /\ Len(file[r]) \in Nat /\ DOMAIN file[r] = 1..Len(file[r])
        BY <4>1, <4>2, <4>3, AppendProperties, LenProperties
      <4>5. DOMAIN file'[r] = 1..(Len(file[r]) + 1)
        BY <4>4, LenProperties
      <4>6. Readable(r) = {i \in 1..Len(file[r]) : file[r][i].ev # Torn}
        BY <4>4 DEF Readable
      <4>7. Readable(r)' = {i \in 1..(Len(file[r]) + 1) : file'[r][i].ev # Torn}
        BY <4>5 DEF Readable
      <4>8. Readable(r)' = Readable(r)
        BY <4>1, <4>4, <4>6, <4>7
      <4> QED
        BY <4>4, <4>6, <4>8 DEF SameLines
    <3> QED
      BY <3>2, <3>3
  <2>3. pc'[r] = IF pc[r] = "running" \/ ~Free(r, Main) THEN "dead" ELSE pc[r]
    BY <1>3 DEF Crash
  <2>4. next'[r] = next[r] /\ \A g \in Goroutine : done'[r][g] = 0
    BY <1>3 DEF Crash
  <2> QED
    BY <1>b, <2>1, <2>2, <2>3, <2>4, PastOfCrash
<1>4. ASSUME NEW o \in Opener, Open(o) \/ Scan(o) \/ Backfill(o) PROVE Past(r)'
  BY <1>2, <1>4 DEF Open, Scan, Backfill, disk
<1>5. CASE Close
  BY <1>2, <1>5 DEF Close, disk
<1>6. ASSUME backend = "sqlite", handle'[App] = "open", backend' = backend, Wiped(r) PROVE FALSE
  BY <1>6 DEF Told, Before, Wiped, RowOf, InRow, Blank
<1>7. ASSUME NEW o \in Opener, Prune(o) PROVE Past(r)'
  <2>1. o = App /\ handle[App] = "prune" /\ handle'[App] = "open" /\ backend' = backend
    BY <1>0, <1>7 DEF Prune, Types, ControlTypes
  <2>2. backend = "sqlite"
    BY <2>1, <1>0, JournalAssumption DEF Control, LinesOnly, Types, ControlTypes
  <2>3. Kept(r)
    BY <1>6, <1>7, <2>1, <2>2, Prunes
  <2> QED
    BY <1>b, <1>7, <2>3, FileSame, PastKept DEF Prune, Kept
<1>8. ASSUME NEW q \in Run, Start(q) PROVE Past(r)'
  <2>1. /\ \A p \in Run : p # q => pending'[p] = pending[p]
        /\ \A g \in Goroutine : pending'[q][g] = pending[q][g]
        /\ pending'[q][Main] = [at |-> "handed", ev |-> Event("run_start", Main, 0), seq |-> 0]
    BY <1>8, Starts
  <2>2. UNCHANGED <<done, file, next>> /\ pc[q] = "new"
    BY <1>8 DEF Start, disk
  <2>3. \A p \in Run : p # q => pc'[p] = pc[p]
    BY <1>8 DEF Start, Types, ControlTypes
  <2>4. CASE r # q
    BY <1>b, <2>1, <2>2, <2>3, <2>4, FileSame, PastKept
  <2>5. CASE r = q
    <3>1. Unwritten(r)
      BY <1>a, <2>2, <2>5 DEF RunControl
    <3>2. /\ file'[r] = <<>> /\ \A g \in Goroutine : Free(r, g)' /\ done'[r][g] = 0
          /\ ~Free(r, Main)' /\ Ev(r, Main)'.kind = "run_start" /\ ~Numeral(r, Main)'
      BY <2>1, <2>2, <2>5, <3>1 DEF Unwritten, Free, Ev, Numeral, Event
    <3> QED
      BY <3>2, PastOfStart
  <2> QED
    BY <2>4, <2>5
<1>9. ASSUME NEW q \in Run, NEW g \in Goroutine, AppendEvent(q, g) PROVE Past(r)'
  <2>1. /\ \A p \in Run : p # q => pending'[p] = pending[p]
        /\ \A h \in Writer : h # g => pending'[q][h] = pending[q][h]
        /\ pending'[q][g] = [at |-> "handed", ev |-> EventOf(q, g), seq |-> 0]
        /\ EventOf(q, g) \in Said(g) /\ EventOf(q, g).n = done[q][g] + 1
        /\ done' = [done EXCEPT ![q][g] = done[q][g] + 1]
    BY <1>9, Appends
  <2>2. UNCHANGED <<pc, file, next>> /\ pc[q] = "running" /\ Free(q, Main) /\ Free(q, g)
    BY <1>9 DEF AppendEvent, disk
  <2>3. /\ \A p \in Run : p # q => done'[p] = done[p]
        /\ done'[q][g] = done[q][g] + 1 /\ \A h \in Goroutine : h # g => done'[q][h] = done[q][h]
    BY <2>1 DEF Types, ControlTypes
  <2>4. CASE r # q
    BY <1>b, <2>1, <2>2, <2>3, <2>4, FileSame, PastKept
  <2>5. CASE r = q
    <3>1. SameLines(r)
      BY <2>2, FileSame
    <3>2. pending'[r][g].at = "handed" /\ pending'[r][g].ev = EventOf(r, g)
      BY <2>1, <2>5
    <3> QED
      BY <1>0, <1>b, <2>1, <2>2, <2>3, <2>5, <3>1, <3>2, PastOfHand
  <2> QED
    BY <2>4, <2>5
<1>10. ASSUME NEW q \in Run, NEW s \in Outcomes, Finish(q, s) PROVE Past(r)'
  <2>1. /\ \A p \in Run : p # q => pending'[p] = pending[p]
        /\ \A g \in Goroutine : pending'[q][g] = pending[q][g]
        /\ pending'[q][Main] = [at |-> "handed", ev |-> Event(s, Main, 1), seq |-> 0]
        /\ s \in Status
    BY <1>10, Finishes
  <2>2. UNCHANGED <<done, file, next>> /\ pc[q] = "running" /\ Free(q, Main)
    BY <1>0, <1>10 DEF Finish, disk
  <2>3. pc'[q] = "end" /\ \A p \in Run : p # q => pc'[p] = pc[p]
    BY <1>10 DEF Finish, Types, ControlTypes
  <2>4. CASE r # q
    BY <1>b, <2>1, <2>2, <2>3, <2>4, FileSame, PastKept
  <2>5. CASE r = q
    <3>1. SameLines(r)
      BY <2>2, FileSame
    <3>2. Event(s, Main, 1) \in Said(Main) /\ Event(s, Main, 1).n = 1
      BY <2>1, SaidEvents DEF Event
    <3>3. pending'[r][Main].at = "handed" /\ pending'[r][Main].ev = Event(s, Main, 1)
      BY <2>1, <2>5
    <3>4. \A h \in Writer : h # Main => pending'[r][h] = pending[r][h]
      BY <2>1, <2>5 DEF Writer
    <3> QED
      BY <1>0, <1>b, <2>2, <2>3, <2>5, <3>1, <3>2, <3>3, <3>4, PastOfHand
  <2> QED
    BY <2>4, <2>5
<1>11. ASSUME NEW q \in Run, NEW g \in Writer, Number(q, g) PROVE Past(r)'
  <2>1. /\ \A p \in Run : p # q => pending'[p] = pending[p]
        /\ \A h \in Writer : h # g => pending'[q][h] = pending[q][h]
        /\ pending'[q][g] = [at |-> "numbered", ev |-> pending[q][g].ev, seq |-> next[q]]
        /\ pending[q][g].at = "handed"
    BY <1>11, Numbers
  <2>2. UNCHANGED <<pc, done, file>>
    BY <1>11 DEF Number
  <2>3. next'[q] = next[q] + 1 /\ \A p \in Run : p # q => next'[p] = next[p]
    BY <1>11 DEF Number, Types, DiskTypes
  <2>4. CASE r # q
    BY <1>b, <2>1, <2>2, <2>3, <2>4, FileSame, PastKept
  <2>5. CASE r = q
    <3>1. SameLines(r)
      BY <2>2, FileSame
    <3> QED
      BY <1>b, <2>1, <2>2, <2>3, <2>5, <3>1, PastOfNumber
  <2> QED
    BY <2>4, <2>5
<1>12. ASSUME NEW q \in Run, NEW g \in Writer, WriteLine(q, g) PROVE Past(r)'
  <2>1. /\ \A p \in Run : p # q => pending'[p] = pending[p]
        /\ \A h \in Writer : h # g => pending'[q][h] = pending[q][h]
        /\ pending'[q][g] = Idle
    BY <1>12, Releases DEF WriteLine
  <2>2. UNCHANGED <<pc, done, next>> /\ Numeral(q, g)
    BY <1>12 DEF WriteLine, Numeral
  <2>3. /\ \A p \in Run : p # q => file'[p] = file[p]
        /\ file'[q] = Append(file[q], Line(pending[q][g].seq, Ev(q, g)))
    BY <1>12 DEF WriteLine, Types, DiskTypes, Ev
  <2>4. CASE r # q
    BY <1>b, <2>1, <2>2, <2>3, <2>4, FileSame, PastKept
  <2>5. CASE r = q
    <3>1. pending[r][g].seq \in Nat
      BY SlotParts DEF Types
    <3>2. ~Free(r, g)
      BY <2>2, <2>5 DEF Numeral, Free
    <3> QED
      BY <1>a, <1>b, <2>1, <2>2, <2>3, <2>5, <3>1, <3>2, PastOfWrite
  <2> QED
    BY <2>4, <2>5
<1>13. ASSUME NEW q \in Run, NEW g \in Writer, Insert(q, g) PROVE Past(r)'
  <2>1. /\ \A p \in Run : p # q => pending'[p] = pending[p]
        /\ \A h \in Writer : h # g => pending'[q][h] = pending[q][h]
        /\ pending'[q][g] = Idle
    BY <1>13, Releases DEF Insert
  <2>2. UNCHANGED <<pc, done, backend, handle>> /\ ~Free(q, g) /\ backend = "sqlite" /\ handle[App] = "open"
    BY <1>13 DEF Insert, openers
  <2>3. \A h \in Writer : ~Numeral(r, h)
    BY <2>2 DEF Numeral, Types, PendingTypes
  <2>4. /\ \A p \in Run : p # q => Kept(p) \/ Wiped(p)
        /\ Added(q, g) \/ Wiped(q)
    BY <1>13, Inserts
  <2>5. CASE r # q
    <3>1. Kept(r)
      BY <1>6, <2>2, <2>4, <2>5
    <3> QED
      BY <1>b, <2>1, <2>2, <2>5, <3>1, FileSame, PastKept DEF Kept
  <2>6. CASE r = q
    <3>1. Added(r, g)
      BY <1>6, <2>2, <2>4, <2>6
    <3>2. file'[r] = Append(file[r], Line(next[r], Ev(r, g))) /\ next'[r] = next[r] + 1
      BY <3>1 DEF Added, Ev
    <3>3. next[r] \in Nat
      BY DEF Types, DiskTypes
    <3> QED
      BY <1>a, <1>b, <2>1, <2>2, <2>3, <2>6, <3>2, <3>3, PastOfWrite
  <2> QED
    BY <2>5, <2>6
<1>14. ASSUME NEW q \in Run, NEW g \in Writer, WriteFails(q, g) PROVE Past(r)'
  <2>1. /\ \A p \in Run : p # q => pending'[p] = pending[p]
    BY <1>14, Releases DEF WriteFails
  <2>2. UNCHANGED <<pc, done, file, next, backend, row, handle, seen, entered>> /\ lost' = lost \cup {q}
    BY <1>14 DEF WriteFails, disk, openers
  <2>3. CASE r # q
    BY <1>b, <2>1, <2>2, <2>3, FileSame, PastKept
  <2>4. CASE r = q
    BY <2>2, <2>4 DEF Told
  <2> QED
    BY <2>3, <2>4
<1> QED
  BY <1>3, <1>4, <1>5, <1>7, <1>8, <1>9, <1>10, <1>11, <1>12, <1>13, <1>14, Steps

\* What is on disk of a run is its past, as long as no other process opens the database.
THEOREM ThePast == Reader = {} => (Spec => []DiskIsThePast)
<1> SUFFICES ASSUME Reader = {} PROVE Spec => []DiskIsThePast
  OBVIOUS
<1>1. Init => Control /\ RowInv /\ PastInv
  BY ControlInit, RowInit, PastInit
<1>2. Types /\ Control /\ RowInv /\ PastInv /\ [Next]_vars => (Control /\ RowInv /\ PastInv)'
  BY ControlNext, RowNext, PastNext
<1>3. Types /\ PastInv => DiskIsThePast
  <2> SUFFICES ASSUME Types, PastInv, NEW r \in Run, Intact(r)
               PROVE  /\ \A i \in Readable(r) : \E j \in Readable(r) : j <= i /\ LineEv(r, j).kind = "run_start"
                      /\ \A i, j \in Readable(r) : i < j => LineEv(r, i) # LineEv(r, j) /\ LineSeq(r, i) # LineSeq(r, j)
                      /\ \A i, j \in Readable(r) :
                            i # j /\ Follows(LineEv(r, i), LineEv(r, j)) /\ ~Follows(LineEv(r, j), LineEv(r, i))
                               => i < j /\ LineSeq(r, i) < LineSeq(r, j)
                      /\ \A i \in Readable(r) : LineEv(r, i).n > 1 => \E j \in Readable(r) :
                            j < i /\ LineEv(r, j).by = LineEv(r, i).by /\ LineEv(r, j).n = LineEv(r, i).n - 1
    BY DEF DiskIsThePast, LineEv, LineSeq
  <2>1. Past(r)
    BY DEF PastInv, Told, Intact
  <2>2. \A i \in Readable(r) : /\ LineEv(r, i).n \in Nat /\ LineSeq(r, i) \in Nat /\ i \in Nat \ {0}
                               /\ LineEv(r, i) \in Said(LineEv(r, i).by) /\ LineEv(r, i).by \in Writer
    BY LineParts
  <2>3. \A i \in Readable(r) : \E j \in Readable(r) : j <= i /\ LineEv(r, j).kind = "run_start"
    BY <2>1, <2>2 DEF Past, Opens
  <2>4. ASSUME NEW i \in Readable(r), NEW j \in Readable(r), i < j
        PROVE  LineEv(r, i) # LineEv(r, j) /\ LineSeq(r, i) # LineSeq(r, j)
    <3>1. i # j
      BY <2>2, <2>4
    <3>2. LineSeq(r, i) # LineSeq(r, j)
      BY <2>1, <3>1 DEF Past, Numbering
    <3>3. LineEv(r, i).by = LineEv(r, j).by => LineEv(r, i).n < LineEv(r, j).n
      BY <2>1, <2>4 DEF Past, InTurn
    <3> QED
      BY <2>2, <3>2, <3>3
  <2>5. ASSUME NEW i \in Readable(r), NEW j \in Readable(r), i # j,
               Follows(LineEv(r, i), LineEv(r, j)), ~Follows(LineEv(r, j), LineEv(r, i))
        PROVE  i < j /\ LineSeq(r, i) < LineSeq(r, j)
    <3>1. LineSeq(r, i) # LineSeq(r, j)
      BY <2>1, <2>5 DEF Past, Numbering
    <3>2. CASE LineEv(r, i).by = LineEv(r, j).by /\ LineEv(r, i).n < LineEv(r, j).n
      <4>1. j < i /\ LineEv(r, j).by = LineEv(r, i).by => LineEv(r, j).n < LineEv(r, i).n
        BY <2>1 DEF Past, InTurn
      <4>2. i < j
        BY <2>2, <2>5, <3>2, <4>1
      <4> QED
        BY <2>1, <3>2, <4>2 DEF Past, InTurn
    <3>3. CASE LineEv(r, i).kind = "run_start"
      <4>1. i = 1
        BY <2>1, <3>3 DEF Past, Opens
      <4>2. LineSeq(r, 1) < LineSeq(r, j)
        BY <2>1, <2>5, <4>1 DEF Past, Opens
      <4> QED
        BY <2>2, <2>5, <4>1, <4>2
    <3>4. CASE LineEv(r, j).kind \in Status
      <4>1. i <= j /\ LineSeq(r, i) <= LineSeq(r, j)
        BY <2>1, <3>4 DEF Past, Ends
      <4> QED
        BY <2>2, <2>5, <3>1, <4>1
    <3> QED
      BY <2>5, <3>2, <3>3, <3>4 DEF Follows
  <2>6. \A i \in Readable(r) : LineEv(r, i).n > 1 => \E j \in Readable(r) :
          j < i /\ LineEv(r, j).by = LineEv(r, i).by /\ LineEv(r, j).n = LineEv(r, i).n - 1
    BY <2>1 DEF Past, NoGap
  <2> QED
    BY <2>3, <2>4, <2>5, <2>6
<1> QED
  BY <1>1, <1>2, <1>3, TypesInvariant, PTL DEF Spec

-----------------------------------------------------------------------------
(* The memory and the disk, while nobody else opens the database.           *)

OnTheWay(r, k) == {g \in Goroutine : ~Free(r, g) /\ Ev(r, g).kind = k}

\* What the memory says of a run, the disk will say once its writers are done.
Ahead(r) ==
    /\ head[r].started = r
    /\ \A k \in Counted : head[r].count[k] = Get(r).count[k] + Cardinality(OnTheWay(r, k))
    /\ ~Starting(r) => Get(r).started = r
    /\ pc[r] = "running" => head[r].status = "running" /\ (~Starting(r) => Get(r).status = "running")
    /\ pc[r] = "end" => head[r].status = IF Free(r, Main) THEN Get(r).status ELSE Ev(r, Main).kind

Followed(r)   == InRing(r) /\ r \notin lost /\ (Starting(r) \/ Intact(r))
RingWhileOpen == handle[App] \notin {"open", "closed"} => \A r \in Run : ~InRing(r)
SinksInv      == RingWhileOpen /\ \A r \in Run : Followed(r) => Ahead(r)

LEMMA WaysAreFinite ==
    ASSUME NEW S \in SUBSET Goroutine
    PROVE  /\ IsFiniteSet(S) /\ Cardinality(S) \in Nat
           /\ \A g \in Goroutine : g \notin S => Cardinality(S \cup {g}) = Cardinality(S) + 1
           /\ \A g \in S : Cardinality(S \ {g}) = Cardinality(S) - 1
<1>1. IsFiniteSet(S)
  BY JournalAssumption, FS_Subset
<1>2. \A g \in Goroutine : g \notin S => Cardinality(S \cup {g}) = Cardinality(S) + 1
  BY <1>1, FS_AddElement
<1>3. \A g \in S : Cardinality(S \ {g}) = Cardinality(S) - 1
  BY <1>1, FS_RemoveElement
<1> QED
  BY <1>1, <1>2, <1>3, FS_CardinalityType

LEMMA GetIsAHeader ==
    ASSUME Types, NEW r \in Run
    PROVE  /\ Get(r) \in Header /\ Get(r).count \in [Counted -> Nat]
           /\ head[r] \in Header /\ head[r].count \in [Counted -> Nat]
           /\ file[r] \in Seq(Lines)
<1>1. file[r] \in Seq(Lines)
  BY SaidLinesAreLines DEF Types, DiskTypes
<1>2. Get(r) \in Header /\ head[r] \in Header
  BY <1>1, ReplayProperties DEF Get, Types, MemoryTypes
<1> QED
  BY <1>1, <1>2 DEF Header

\* The fields of a header after an event.
LEMMA Applied ==
    ASSUME NEW h \in Header, NEW r \in Run, NEW e \in Events
    PROVE  /\ Apply(h, r, e).started = IF e.kind = "run_start" /\ h.started = 0 THEN r ELSE h.started
           /\ e.kind = "run_start" => Apply(h, r, e).status = IF h.status = NoStatus THEN "running" ELSE h.status
           /\ e.kind \in Status => Apply(h, r, e).status = e.kind
           /\ e.kind \in Counted => Apply(h, r, e).status = h.status
           /\ \A k \in Counted : Apply(h, r, e).count[k] = h.count[k] + IF k = e.kind THEN 1 ELSE 0
<1>1. Apply(h, r, e) = UpdateMeta(h, r, e)
  BY ApplyProperties
<1>2. /\ UpdateMeta(h, r, e).started = IF e.kind = "run_start" /\ h.started = 0 THEN r ELSE h.started
      /\ UpdateMeta(h, r, e).status = CASE e.kind = "run_start" -> IF h.status = NoStatus THEN "running" ELSE h.status
                                        [] e.kind \in Status -> e.kind
                                        [] OTHER -> h.status
      /\ UpdateMeta(h, r, e).count = [k \in Counted |-> h.count[k] + IF k = e.kind THEN 1 ELSE 0]
  BY DEF UpdateMeta
<1>3. e.kind \in Status => e.kind # "run_start"
  BY DEF Status
<1>4. e.kind \in Counted => e.kind # "run_start" /\ e.kind \notin Status
  BY DEF Counted, Status
<1>5. \A k \in Counted : UpdateMeta(h, r, e).count[k] = h.count[k] + IF k = e.kind THEN 1 ELSE 0
  BY <1>2
<1> QED
  BY <1>1, <1>2, <1>3, <1>4, <1>5

LEMMA SinksInit == Init => SinksInv
<1> SUFFICES ASSUME Init, NEW r \in Run PROVE ~InRing(r)
  BY DEF SinksInv, RingWhileOpen, Followed
<1> QED
  BY DEF Init, InRing, Range

\* Nothing changes of the run but the numbers of what is on its way.
LEMMA AheadKept ==
    ASSUME NEW r \in Run, Ahead(r), head'[r] = head[r], file'[r] = file[r], pc'[r] = pc[r],
           \A g \in Writer : (Free(r, g)' <=> Free(r, g)) /\ Ev(r, g)' = Ev(r, g)
    PROVE  Ahead(r)'
<1>0. Main \in Writer /\ \A g \in Goroutine : g \in Writer
  BY Names
<1>1. Get(r)' = Get(r)
  BY DEF Get
<1>2. \A k \in Counted : OnTheWay(r, k)' = OnTheWay(r, k)
  BY <1>0 DEF OnTheWay
<1>3. Starting(r)' <=> Starting(r)
  BY <1>0 DEF Starting
<1> QED
  BY <1>0, <1>1, <1>2, <1>3 DEF Ahead

\* An event reaches the disk.
LEMMA AheadOfWrite ==
    ASSUME Types, NEW r \in Run, NEW g \in Writer, RunControl(r), Ahead(r), ~Free(r, g),
           file'[r] = Append(file[r], Line(next[r], Ev(r, g))) \/ file'[r] = Append(file[r], Line(pending[r][g].seq, Ev(r, g))),
           \A h \in Writer : h # g => pending'[r][h] = pending[r][h],
           pending'[r][g] = Idle, pc'[r] = pc[r], head'[r] = head[r]
    PROVE  Ahead(r)'
<1> DEFINE e == Ev(r, g)
<1>0. Main \in Writer /\ \A h \in Goroutine : h \in Writer /\ h # Main
  BY Names
<1>1. e \in Said(g)
  BY DEF Types, PendingTypes, Ev
<1>2. /\ e.by = g /\ e \in Events
      /\ (e.kind = "run_start" <=> g = Main /\ e.n = 0)
      /\ (e.kind \in Status <=> g = Main /\ e.n # 0)
      /\ (e.kind \in Counted <=> g # Main)
  BY <1>1, Kinds
<1>3. Get(r)' = Apply(Get(r), r, e)
  <2>1. PICK s \in Nat : file'[r] = Append(file[r], Line(s, e))
    <3>1. next[r] \in Nat /\ pending[r][g].seq \in Nat
      BY SlotParts DEF Types, DiskTypes
    <3> QED
      BY <3>1
  <2> DEFINE x == Line(s, e)
  <2>2. x \in SaidLines /\ x.ev = e
    BY <1>1, SaidLine
  <2>3. x \in Lines /\ file[r] \in Seq(Lines)
    BY <2>2, SaidLinesAreLines, GetIsAHeader
  <2>4. file'[r] = Append(file[r], x)
    BY <2>1
  <2> HIDE DEF x
  <2>5. Replay(r, Append(file[r], x)) = Apply(Replay(r, file[r]), r, x.ev)
    BY <2>3, ReplayProperties
  <2> QED
    BY <2>2, <2>4, <2>5 DEF Get
<1> HIDE DEF e
<1>4. /\ \A h \in Writer : h # g => (Free(r, h)' <=> Free(r, h)) /\ Ev(r, h)' = Ev(r, h)
      /\ Free(r, g)'
  BY DEF Free, Ev, Idle
<1>5. /\ Get(r) \in Header /\ \A k \in Counted : Get(r).count[k] \in Nat
      /\ \A k \in Counted : Get(r)'.count[k] = Get(r).count[k] + IF k = e.kind THEN 1 ELSE 0
      /\ Get(r)'.started = IF e.kind = "run_start" /\ Get(r).started = 0 THEN r ELSE Get(r).started
      /\ e.kind = "run_start" => Get(r)'.status = IF Get(r).status = NoStatus THEN "running" ELSE Get(r).status
      /\ e.kind \in Status => Get(r)'.status = e.kind
      /\ e.kind \in Counted => Get(r)'.status = Get(r).status
  BY <1>2, <1>3, GetIsAHeader, Applied
<1>6. CASE g # Main
  <2>1. g \in Goroutine /\ e.kind \in Counted /\ e.kind # "run_start"
    BY <1>2, <1>6 DEF Writer
  <2>2. pc[r] \notin {"new", "end", "dead"}
    BY <2>1 DEF RunControl, Unwritten, Drained
  <2>3. pc[r] = "running" /\ ~Starting(r) /\ ~Starting(r)'
    <3>1. pc[r] = "running"
      BY <2>2 DEF Types, ControlTypes
    <3>2. ~Starting(r)
      BY <2>1 DEF RunControl, Unwritten
    <3> QED
      BY <1>0, <1>4, <1>6, <3>1, <3>2 DEF Starting
  <2>4. ASSUME NEW k \in Counted
        PROVE  head[r].count[k] = Get(r)'.count[k] + Cardinality(OnTheWay(r, k)')
    <3> DEFINE S == OnTheWay(r, k)
               T == OnTheWay(r, k)'
    <3>1. S \in SUBSET Goroutine /\ head[r].count[k] = Get(r).count[k] + Cardinality(S)
      BY DEF OnTheWay, Ahead
    <3>2. T = S \ {g}
      BY <1>0, <1>4 DEF OnTheWay
    <3>3. g \in S <=> k = e.kind
      BY <2>1 DEF OnTheWay, e
    <3> HIDE DEF S, T
    <3>4. Cardinality(T) = Cardinality(S) - IF k = e.kind THEN 1 ELSE 0
      <4>1. CASE k = e.kind
        BY <3>1, <3>2, <3>3, <4>1, WaysAreFinite
      <4>2. CASE k # e.kind
        <5>1. T = S /\ Cardinality(S) \in Nat
          BY <3>1, <3>2, <3>3, <4>2, WaysAreFinite
        <5> QED
          BY <4>2, <5>1
      <4> QED
        BY <4>1, <4>2
    <3>5. Cardinality(S) \in Nat
      BY <3>1, WaysAreFinite
    <3>6. head[r].count[k] = Get(r)'.count[k] + Cardinality(T)
      BY <1>5, <3>1, <3>4, <3>5
    <3> QED
      BY <3>6 DEF T
  <2> QED
    BY <1>5, <2>1, <2>3, <2>4 DEF Ahead
<1>7. CASE g = Main
  <2>1. \A k \in Counted : k # e.kind
    BY <1>2, <1>7
  <2>2. \A k \in Counted : OnTheWay(r, k)' = OnTheWay(r, k)
    BY <1>0, <1>4, <1>7 DEF OnTheWay
  <2>3. \A k \in Counted : head'[r].count[k] = Get(r)'.count[k] + Cardinality(OnTheWay(r, k)')
    BY <1>5, <2>1, <2>2 DEF Ahead
  <2>4. pc[r] \in {"running", "end"} /\ ~Starting(r)' /\ Free(r, Main)'
    BY <1>4, <1>7 DEF RunControl, Types, ControlTypes, Starting
  <2>5. CASE pc[r] = "running"
    <3>1. Starting(r) /\ e.kind = "run_start" /\ file[r] = <<>>
      BY <1>7, <2>5 DEF Starting, RunControl, Unwritten, e, Ev
    <3>2. Get(r) = Blank
      BY <3>1, ReplayProperties DEF Get
    <3>3. Get(r)'.started = r /\ Get(r)'.status = "running"
      BY <1>5, <3>1, <3>2 DEF Blank
    <3> QED
      BY <2>3, <2>4, <2>5, <3>3 DEF Ahead
  <2>6. CASE pc[r] = "end"
    <3>1. e.kind \in Status /\ e.kind # "run_start"
      BY <1>7, <2>6 DEF RunControl, e, Ev, Status
    <3>2. ~Starting(r)
      BY <2>6 DEF Starting
    <3>3. head[r].status = e.kind
      BY <1>7, <2>6 DEF Ahead, e
    <3> QED
      BY <1>5, <2>3, <2>4, <2>6, <3>1, <3>2, <3>3 DEF Ahead
  <2> QED
    BY <2>4, <2>5, <2>6
<1> QED
  BY <1>6, <1>7

\* A goroutine has its next event counted in memory and on its way.
LEMMA AheadOfAppend ==
    ASSUME Types, NEW r \in Run, NEW g \in Goroutine, Ahead(r), AppendEvent(r, g), InRing(r)
    PROVE  Ahead(r)'
<1> DEFINE e == EventOf(r, g)
<1>0. Main \in Writer /\ \A h \in Goroutine : h \in Writer /\ h # Main
  BY Names
<1>1. /\ \A h \in Writer : h # g => pending'[r][h] = pending[r][h]
      /\ pending'[r][g] = [at |-> "handed", ev |-> e, seq |-> 0]
      /\ e \in Events /\ e.kind \in Counted
      /\ head' = IF InRing(r) THEN [head EXCEPT ![r] = Apply(@, r, e)] ELSE head
  BY Appends
<1>2. UNCHANGED <<pc, file>> /\ pc[r] = "running" /\ Free(r, Main) /\ Free(r, g)
  BY DEF AppendEvent, disk
<1>3. head'[r] = Apply(head[r], r, e)
  BY <1>1 DEF Types, MemoryTypes
<1>4. /\ \A h \in Writer : h # g => (Free(r, h)' <=> Free(r, h)) /\ Ev(r, h)' = Ev(r, h)
      /\ ~Free(r, g)' /\ Ev(r, g)' = e
  BY <1>1 DEF Free, Ev
<1>5. Get(r)' = Get(r) /\ ~Starting(r) /\ ~Starting(r)' /\ pc'[r] = "running"
  BY <1>0, <1>2, <1>4 DEF Get, Starting
<1> HIDE DEF e
<1>6. /\ head'[r].started = head[r].started /\ head'[r].status = head[r].status
      /\ \A k \in Counted : head'[r].count[k] = head[r].count[k] + IF k = e.kind THEN 1 ELSE 0
  <2>1. head[r] \in Header
    BY GetIsAHeader
  <2>2. e.kind # "run_start"
    BY <1>1 DEF Counted
  <2> QED
    BY <1>1, <1>3, <2>1, <2>2, Applied
<1>7. ASSUME NEW k \in Counted
      PROVE  head'[r].count[k] = Get(r)'.count[k] + Cardinality(OnTheWay(r, k)')
  <2> DEFINE S == OnTheWay(r, k)
             T == OnTheWay(r, k)'
  <2>1. S \in SUBSET Goroutine /\ head[r].count[k] = Get(r).count[k] + Cardinality(S) /\ g \notin S
    BY <1>2 DEF OnTheWay, Ahead
  <2>2. T = IF k = e.kind THEN S \cup {g} ELSE S
    BY <1>0, <1>2, <1>4 DEF OnTheWay
  <2> HIDE DEF S, T
  <2>3. Cardinality(T) = Cardinality(S) + IF k = e.kind THEN 1 ELSE 0
    <3>1. Cardinality(S) \in Nat /\ Cardinality(S \cup {g}) = Cardinality(S) + 1
      BY <2>1, WaysAreFinite
    <3> QED
      BY <2>2, <3>1
  <2>4. Cardinality(S) \in Nat /\ Get(r).count[k] \in Nat
    BY <2>1, WaysAreFinite, GetIsAHeader
  <2>5. head'[r].count[k] = Get(r)'.count[k] + Cardinality(T)
    BY <1>5, <1>6, <2>1, <2>3, <2>4
  <2> QED
    BY <2>5 DEF T
<1>8. /\ head'[r].started = r /\ head'[r].status = "running"
      /\ Get(r)'.started = r /\ Get(r)'.status = "running"
  BY <1>2, <1>5, <1>6 DEF Ahead
<1>9. \A k \in Counted : (head[r].count[k] = Get(r).count[k] + Cardinality(OnTheWay(r, k)))'
  BY <1>7
<1> QED
  BY <1>5, <1>8, <1>9 DEF Ahead


\* A run that starts: its memory is ahead of an empty disk.
LEMMA AheadOfStart ==
    ASSUME Types, Control, NEW r \in Run, Start(r)
    PROVE  Ahead(r)'
<1>0. Main \in Writer /\ \A g \in Goroutine : g \in Writer /\ g # Main
  BY Names
<1>1. /\ \A g \in Goroutine : pending'[r][g] = pending[r][g]
      /\ pending'[r][Main] = [at |-> "handed", ev |-> Event("run_start", Main, 0), seq |-> 0]
  BY Starts
<1>2. pc'[r] = "running" /\ Unwritten(r) /\ file' = file
  BY DEF Start, disk, Control, RunControl, Types, ControlTypes
<1>3. Starting(r)'
  BY <1>1, <1>2 DEF Starting, Free
<1>4. Get(r)' = Blank
  BY <1>2, ReplayProperties DEF Get, Unwritten
<1>5. \A k \in Counted : Cardinality(OnTheWay(r, k)') = 0
  <2>1. \A g \in Goroutine : Free(r, g)'
    BY <1>1, <1>2 DEF Unwritten, Free
  <2>2. \A k \in Counted : OnTheWay(r, k)' = {}
    BY <2>1 DEF OnTheWay
  <2> QED
    BY <2>2, FS_EmptySet
<1>6. head'[r].started = r /\ head'[r].status = "running" /\ head'[r].count = Blank.count
  <2> DEFINE h == [Blank EXCEPT !.started = r, !.status = "running"]
  <2>1. ASSUME NEW x, x = h PROVE x.started = r /\ x.status = "running" /\ x.count = Blank.count
    <3> DEFINE none == [k \in Counted |-> 0]
    <3>1. Blank = [started |-> 0, status |-> NoStatus, count |-> none]
      BY DEF Blank
    <3> HIDE DEF none
    <3>2. x = [started |-> r, status |-> "running", count |-> none]
      BY <2>1, <3>1
    <3> QED
      BY <3>1, <3>2
  <2>2. head' = [q \in Run |-> IF q \notin Range(ring') THEN Blank ELSE IF q = r THEN h ELSE head[q]]
    BY DEF Start
  <2>3. r \in Range(ring')
    BY Pushes DEF Start, Types
  <2> HIDE DEF h
  <2>4. head'[r] = h
    BY <2>2, <2>3
  <2> QED
    BY <2>1, <2>4
<1>7. \A k \in Counted : (head[r].count[k] = Get(r).count[k] + Cardinality(OnTheWay(r, k)))'
  BY <1>4, <1>5, <1>6 DEF Blank
<1> QED
  BY <1>2, <1>3, <1>6, <1>7 DEF Ahead

\* A run that ends: its status is on its way.
LEMMA AheadOfFinish ==
    ASSUME Types, NEW r \in Run, NEW s \in Outcomes, Ahead(r), Finish(r, s), InRing(r)
    PROVE  Ahead(r)'
<1>0. Main \in Writer /\ \A g \in Goroutine : g \in Writer /\ g # Main
  BY Names
<1>1. /\ \A g \in Goroutine : pending'[r][g] = pending[r][g]
      /\ pending'[r][Main] = [at |-> "handed", ev |-> Event(s, Main, 1), seq |-> 0]
      /\ s \in Status
  BY Finishes
<1>2. pc'[r] = "end" /\ pc[r] = "running" /\ Free(r, Main) /\ file' = file
  BY <1>0 DEF Finish, disk, Types, ControlTypes
<1>3. Get(r)' = Get(r) /\ ~Starting(r) /\ ~Starting(r)'
  BY <1>2 DEF Get, Starting
<1>4. \A k \in Counted : OnTheWay(r, k)' = OnTheWay(r, k)
  BY <1>1 DEF OnTheWay, Free, Ev
<1>5. head'[r].started = head[r].started /\ head'[r].count = head[r].count /\ head'[r].status = s
  <2>1. head'[r] = Finished(head[r], s) /\ head[r] \in Header
    BY DEF Finish, Types, MemoryTypes
  <2>2. ASSUME NEW h \in Header
        PROVE  LET f == Finished(h, s) IN f.started = h.started /\ f.count = h.count /\ f.status = s
    BY DEF Finished, Header
  <2> QED
    BY <2>1, <2>2
<1>6. ~Free(r, Main)' /\ Ev(r, Main)'.kind = s
  BY <1>1 DEF Free, Ev, Event
<1>7. \A k \in Counted : (head[r].count[k] = Get(r).count[k] + Cardinality(OnTheWay(r, k)))'
  BY <1>3, <1>4, <1>5 DEF Ahead
<1>8. head'[r].started = r /\ Get(r)'.started = r
  BY <1>3, <1>5, <1>2 DEF Ahead
<1> QED
  BY <1>2, <1>3, <1>5, <1>6, <1>7, <1>8 DEF Ahead

\* Nothing takes a run up that it does not start.
LEMMA FollowedBack ==
    ASSUME NEW r \in Run, Followed(r)', ring' = ring, backend' = backend, lost \subseteq lost',
           Starting(r)' => Starting(r), RowOf(r)' = RowOf(r)
    PROVE  Followed(r)
<1>1. InRing(r) /\ r \notin lost
  BY DEF Followed, InRing
<1>2. Intact(r)' => Intact(r)
  BY <1>1 DEF Intact
<1> QED
  BY <1>1, <1>2 DEF Followed

LEMMA SinksNext ==
    ASSUME Reader = {}, Types, Control, RowInv, SinksInv, [Next]_vars
    PROVE  SinksInv'
<1>0. Main \in Writer /\ App \in Opener /\ Opener = {App} /\ \A g \in Goroutine : g \in Writer /\ g # Main
  BY Names DEF Opener
<1>1. CASE UNCHANGED vars
  <2>1. UNCHANGED <<backend, ring, head, file, pc, pending, row, lost, handle>>
    BY <1>1 DEF vars, memory, disk, openers, history
  <2>2. RingWhileOpen'
    BY <2>1 DEF SinksInv, RingWhileOpen, InRing
  <2>3. ASSUME NEW r \in Run, Followed(r)' PROVE Ahead(r)'
    <3>1. Followed(r)
      BY <2>1, <2>3 DEF Followed, InRing, Starting, Free, Intact, RowOf
    <3>2. Ahead(r)
      BY <3>1 DEF SinksInv
    <3>3. \A g \in Writer : (Free(r, g)' <=> Free(r, g)) /\ Ev(r, g)' = Ev(r, g)
      BY <2>1 DEF Free, Ev
    <3> QED
      BY <2>1, <3>2, <3>3, AheadKept
  <2> QED
    BY <2>2, <2>3 DEF SinksInv
<1> SUFFICES ASSUME Next PROVE SinksInv'
  BY <1>1
<1>a. backend' = backend /\ lost \subseteq lost'
  <2>1. backend' = backend
    BY Steps DEF Close, Crash, Open, Scan, Backfill, Prune, Start, AppendEvent, Finish, Number, WriteLine, Insert, WriteFails
  <2>2. lost \subseteq lost'
    BY Steps DEF Close, Crash, Open, Scan, Backfill, Prune, Start, AppendEvent, Finish, Number, WriteLine, Insert, WriteFails, history
  <2> QED
    BY <2>1, <2>2
<1>b. ASSUME ring' = ring, handle' = handle PROVE RingWhileOpen'
  BY <1>b DEF SinksInv, RingWhileOpen, InRing
\* What an action does to a run that it leaves alone.
<1>c. ASSUME NEW r \in Run, Followed(r)', ring' = ring, head'[r] = head[r], file'[r] = file[r], pc'[r] = pc[r],
             \A g \in Writer : (Free(r, g)' <=> Free(r, g)) /\ Ev(r, g)' = Ev(r, g), RowOf(r)' = RowOf(r)
      PROVE  Ahead(r)'
  <2>1. Starting(r)' => Starting(r)
    BY <1>0, <1>c DEF Starting
  <2>2. Followed(r)
    BY <1>a, <1>c, <2>1, FollowedBack
  <2>3. Ahead(r)
    BY <2>2 DEF SinksInv
  <2> QED
    BY <1>c, <2>3, AheadKept
<1>2. CASE Crash
  <2>1. ring' = <<>>
    BY <1>2 DEF Crash
  <2>2. \A r \in Run : ~InRing(r)'
    BY <2>1 DEF InRing, Range
  <2> QED
    BY <2>2 DEF SinksInv, RingWhileOpen, Followed
<1>3. ASSUME NEW o \in Opener, Open(o) \/ Scan(o) \/ Backfill(o) \/ Prune(o) PROVE SinksInv'
  <2>1. handle[App] \notin {"open", "closed"}
    BY <1>0, <1>3 DEF Open, Scan, Backfill, Prune
  <2>2. ring' = ring
    BY <1>3 DEF Open, Scan, Backfill, Prune, memory
  <2>3. \A r \in Run : ~InRing(r)'
    BY <2>1, <2>2 DEF SinksInv, RingWhileOpen, InRing
  <2> QED
    BY <2>3 DEF SinksInv, RingWhileOpen, Followed
<1>4. CASE Close
  <2>1. handle'[App] = "closed" /\ UNCHANGED <<ring, head, file, pc, pending, row>>
    BY <1>0, <1>4 DEF Close, memory, disk, Types, ControlTypes
  <2>2. ASSUME NEW r \in Run, Followed(r)' PROVE Ahead(r)'
    <3>1. RowOf(r)' = RowOf(r) /\ \A g \in Writer : (Free(r, g)' <=> Free(r, g)) /\ Ev(r, g)' = Ev(r, g)
      BY <2>1 DEF RowOf, Free, Ev
    <3> QED
      BY <1>c, <2>1, <2>2, <3>1
  <2> QED
    BY <2>1, <2>2 DEF SinksInv, RingWhileOpen
<1>5. ASSUME NEW q \in Run, Start(q) PROVE SinksInv'
  <2>1. handle'[App] = "open" /\ row' = row /\ file' = file /\ ring' = Push(q)
    BY <1>5 DEF Start, openers, disk
  <2>2. RingWhileOpen'
    BY <2>1 DEF RingWhileOpen
  <2>3. ASSUME NEW r \in Run, Followed(r)', r # q PROVE Ahead(r)'
    <3>1. InRing(r)
      BY <2>1, <2>3, Pushes DEF Followed, InRing, Types
    <3>2. head'[r] = head[r]
      BY <1>5, <2>3 DEF Start, Followed, InRing
    <3>3. pending'[r] = pending[r] /\ pc'[r] = pc[r]
      BY <1>5, <2>3, Starts DEF Start, Types, ControlTypes
    <3>4. \A g \in Writer : (Free(r, g)' <=> Free(r, g)) /\ Ev(r, g)' = Ev(r, g)
      BY <3>3 DEF Free, Ev
    <3>5. RowOf(r)' = RowOf(r)
      BY <2>1 DEF RowOf
    <3>6. Followed(r)
      BY <1>0, <1>a, <2>3, <3>1, <3>3, <3>4, <3>5 DEF Followed, Starting, Intact
    <3>7. Ahead(r)
      BY <3>6 DEF SinksInv
    <3> QED
      BY <2>1, <3>2, <3>3, <3>4, <3>7, AheadKept
  <2>4. Ahead(q)'
    BY <1>5, AheadOfStart
  <2> QED
    BY <2>2, <2>3, <2>4 DEF SinksInv
<1>6. ASSUME NEW q \in Run, NEW g \in Goroutine, AppendEvent(q, g) PROVE SinksInv'
  <2>1. UNCHANGED <<ring, handle, file, row, pc>> /\ pc[q] = "running"
    BY <1>6 DEF AppendEvent, openers, disk
  <2>2. /\ \A p \in Run : p # q => pending'[p] = pending[p]
        /\ \A h \in Writer : h # g => pending'[q][h] = pending[q][h]
        /\ head' = IF InRing(q) THEN [head EXCEPT ![q] = Apply(@, q, EventOf(q, g))] ELSE head
    BY <1>6, Appends
  <2>3. ASSUME NEW r \in Run, Followed(r)' PROVE Ahead(r)'
    <3>1. RowOf(r)' = RowOf(r)
      BY <2>1 DEF RowOf
    <3>2. CASE r # q
      <4>1. \A h \in Writer : (Free(r, h)' <=> Free(r, h)) /\ Ev(r, h)' = Ev(r, h)
        BY <2>2, <3>2 DEF Free, Ev
      <4>2. head'[r] = head[r]
        BY <2>2, <3>2 DEF Types, MemoryTypes
      <4> QED
        BY <1>c, <2>1, <2>3, <3>1, <4>1, <4>2
    <3>3. CASE r = q
      <4>1. Starting(r)' => Starting(r)
        BY <1>0, <2>1, <2>2, <3>3 DEF Starting, Free
      <4>2. Followed(r)
        BY <1>a, <2>1, <2>3, <3>1, <4>1, FollowedBack
      <4>3. Ahead(r) /\ InRing(r)
        BY <4>2 DEF SinksInv, Followed
      <4> QED
        BY <1>6, <3>3, <4>3, AheadOfAppend
    <3> QED
      BY <3>2, <3>3
  <2> QED
    BY <1>b, <2>1, <2>3 DEF SinksInv
<1>7. ASSUME NEW q \in Run, NEW s \in Outcomes, Finish(q, s) PROVE SinksInv'
  <2>1. UNCHANGED <<ring, handle, file, row>> /\ pc'[q] = "end" /\ \A p \in Run : p # q => pc'[p] = pc[p]
    BY <1>7 DEF Finish, openers, disk, Types, ControlTypes
  <2>2. \A p \in Run : p # q => pending'[p] = pending[p]
    BY <1>7, Finishes
  <2>3. ASSUME NEW r \in Run, Followed(r)' PROVE Ahead(r)'
    <3>1. RowOf(r)' = RowOf(r)
      BY <2>1 DEF RowOf
    <3>2. CASE r # q
      <4>1. \A h \in Writer : (Free(r, h)' <=> Free(r, h)) /\ Ev(r, h)' = Ev(r, h)
        BY <2>2, <3>2 DEF Free, Ev
      <4>2. head'[r] = head[r]
        BY <1>7, <3>2 DEF Finish, Types, MemoryTypes
      <4> QED
        BY <1>c, <2>1, <2>3, <3>1, <3>2, <4>1, <4>2
    <3>3. CASE r = q
      <4>1. ~Starting(r)'
        BY <2>1, <3>3 DEF Starting
      <4>2. Followed(r)
        BY <1>a, <2>1, <2>3, <3>1, <4>1, FollowedBack
      <4>3. Ahead(r) /\ InRing(r)
        BY <4>2 DEF SinksInv, Followed
      <4> QED
        BY <1>7, <3>3, <4>3, AheadOfFinish
    <3> QED
      BY <3>2, <3>3
  <2> QED
    BY <1>b, <2>1, <2>3 DEF SinksInv
<1>8. ASSUME NEW q \in Run, NEW g \in Writer, Number(q, g) PROVE SinksInv'
  <2>1. UNCHANGED <<ring, head, handle, file, row, pc>>
    BY <1>8 DEF Number, openers, memory
  <2>2. /\ \A p \in Run : p # q => pending'[p] = pending[p]
        /\ \A h \in Writer : h # g => pending'[q][h] = pending[q][h]
        /\ pending'[q][g] = [at |-> "numbered", ev |-> pending[q][g].ev, seq |-> next[q]]
        /\ pending[q][g].at = "handed"
    BY <1>8, Numbers
  <2>3. ASSUME NEW r \in Run, NEW h \in Writer PROVE (Free(r, h)' <=> Free(r, h)) /\ Ev(r, h)' = Ev(r, h)
    BY <2>2 DEF Free, Ev
  <2>4. ASSUME NEW r \in Run, Followed(r)' PROVE Ahead(r)'
    <3>1. RowOf(r)' = RowOf(r)
      BY <2>1 DEF RowOf
    <3> QED
      BY <1>c, <2>1, <2>3, <2>4, <3>1
  <2> QED
    BY <1>b, <2>1, <2>4 DEF SinksInv
<1>9. ASSUME NEW q \in Run, NEW g \in Writer, WriteLine(q, g) PROVE SinksInv'
  <2>1. UNCHANGED <<ring, head, handle, row, pc>> /\ ~Free(q, g)
    BY <1>9 DEF WriteLine, openers, memory, Free
  <2>2. /\ \A p \in Run : p # q => pending'[p] = pending[p]
        /\ \A h \in Writer : h # g => pending'[q][h] = pending[q][h]
        /\ pending'[q][g] = Idle
    BY <1>9, Releases DEF WriteLine
  <2>3. /\ \A p \in Run : p # q => file'[p] = file[p]
        /\ file'[q] = Append(file[q], Line(pending[q][g].seq, Ev(q, g)))
    BY <1>9 DEF WriteLine, Types, DiskTypes, Ev
  <2>4. ASSUME NEW r \in Run, Followed(r)' PROVE Ahead(r)'
    <3>1. RowOf(r)' = RowOf(r)
      BY <2>1 DEF RowOf
    <3>2. CASE r # q
      <4>1. \A h \in Writer : (Free(r, h)' <=> Free(r, h)) /\ Ev(r, h)' = Ev(r, h)
        BY <2>2, <3>2 DEF Free, Ev
      <4> QED
        BY <1>c, <2>1, <2>3, <2>4, <3>1, <3>2, <4>1
    <3>3. CASE r = q
      <4>1. Starting(r)' => Starting(r)
        BY <1>0, <2>1, <2>2, <3>3 DEF Starting, Free, Idle
      <4>2. Followed(r)
        BY <1>a, <2>1, <2>4, <3>1, <4>1, FollowedBack
      <4>3. Ahead(r) /\ RunControl(r)
        BY <4>2 DEF SinksInv, Control
      <4> QED
        BY <2>1, <2>2, <2>3, <3>3, <4>3, AheadOfWrite
    <3> QED
      BY <3>2, <3>3
  <2> QED
    BY <1>b, <2>1, <2>4 DEF SinksInv
<1>10. ASSUME NEW q \in Run, NEW g \in Writer, Insert(q, g) PROVE SinksInv'
  <2>1. UNCHANGED <<ring, head, handle, pc>> /\ ~Free(q, g) /\ backend = "sqlite"
    BY <1>10 DEF Insert, openers, memory
  <2>2. /\ \A p \in Run : p # q => pending'[p] = pending[p]
        /\ \A h \in Writer : h # g => pending'[q][h] = pending[q][h]
        /\ pending'[q][g] = Idle
    BY <1>10, Releases DEF Insert
  <2>3. /\ \A p \in Run : p # q => Kept(p) \/ Wiped(p)
        /\ Added(q, g) \/ Wiped(q)
    BY <1>10, Inserts
  <2>4. ASSUME NEW r \in Run, Followed(r)' PROVE Ahead(r)'
    <3>0. RunControl(r)
      BY DEF Control
    <3>1. Starting(r)' => Starting(r) /\ Free(r, Main)' = Free(r, Main) /\ (r = q => g # Main)
      BY <1>0, <2>1, <2>2 DEF Starting, Free, Idle
    <3>2. Wiped(r) => Starting(r)'
      BY <1>a, <2>1, <2>4 DEF Followed, Intact, RowOf, Wiped, InRow, Blank
    <3>3. CASE r # q
      <4>1. \A h \in Writer : (Free(r, h)' <=> Free(r, h)) /\ Ev(r, h)' = Ev(r, h)
        BY <2>2, <3>3 DEF Free, Ev
      <4>2. file'[r] = file[r] /\ RowOf(r)' = RowOf(r)
        <5>1. CASE Kept(r)
          BY <5>1 DEF Kept, RowOf, InRow
        <5>2. CASE Wiped(r)
          <6>1. Unwritten(r)
            BY <3>0, <3>1, <3>2, <5>2 DEF RunControl
          <6> QED
            BY <5>2, <6>1 DEF Unwritten, Wiped, RowOf, InRow
        <5> QED
          BY <2>3, <3>3, <5>1, <5>2
      <4> QED
        BY <1>c, <2>1, <2>4, <3>3, <4>1, <4>2
    <3>4. CASE r = q
      <4>1. ~Starting(r)'
        <5>1. ASSUME Starting(r)' PROVE FALSE
          <6>1. Unwritten(r) /\ g \in Goroutine
            BY <3>0, <3>1, <3>4, <5>1 DEF RunControl, Writer
          <6> QED
            BY <2>1, <3>4, <6>1 DEF Unwritten
        <5> QED
          BY <5>1
      <4>2. Added(r, g)
        BY <2>3, <3>2, <3>4, <4>1
      <4>3. file'[r] = Append(file[r], Line(next[r], Ev(r, g)))
        BY <4>2 DEF Added, Ev
      <4>4. Followed(r)
        <5>1. InRing(r) /\ r \notin lost /\ Intact(r)'
          BY <1>a, <2>1, <2>4, <4>1 DEF Followed, InRing
        <5>2. CASE Ev(r, g).kind = "run_start"
          <6>1. Ev(r, g) \in Said(g)
            BY <2>1, <3>4 DEF Types, PendingTypes, Ev
          <6>2. g = Main
            BY <5>2, <6>1, Kinds
          <6>3. pc[r] = "running"
            BY <2>1, <3>0, <3>4, <5>1, <5>2, <6>2 DEF RunControl, Ev, Status
          <6> QED
            BY <2>1, <3>4, <5>1, <6>2, <6>3 DEF Followed, Starting
        <5>3. CASE Ev(r, g).kind # "run_start"
          <6>1. r \in DOMAIN row' /\ row'[r] = UpdateMeta(RowOf(r), r, Ev(r, g))
            BY <4>2 DEF Added, InRow, Ev
          <6>2. UpdateMeta(RowOf(r), r, Ev(r, g)).started = RowOf(r).started
            BY <5>3 DEF UpdateMeta
          <6>3. RowOf(r)'.started = RowOf(r).started
            BY <6>1, <6>2 DEF RowOf
          <6> QED
            BY <1>a, <5>1, <6>3 DEF Followed, Intact
        <5> QED
          BY <5>2, <5>3
      <4>5. Ahead(r)
        BY <4>4 DEF SinksInv
      <4> QED
        BY <2>1, <2>2, <3>0, <3>4, <4>3, <4>5, AheadOfWrite
    <3> QED
      BY <3>3, <3>4
  <2> QED
    BY <1>b, <2>1, <2>4 DEF SinksInv
<1>11. ASSUME NEW q \in Run, NEW g \in Writer, WriteFails(q, g) PROVE SinksInv'
  <2>1. UNCHANGED <<ring, head, handle, row, pc, file>> /\ lost' = lost \cup {q}
    BY <1>11 DEF WriteFails, openers, memory, disk
  <2>2. \A p \in Run : p # q => pending'[p] = pending[p]
    BY <1>11, Releases DEF WriteFails
  <2>3. ASSUME NEW r \in Run, Followed(r)' PROVE Ahead(r)'
    <3>1. r # q
      BY <2>1, <2>3 DEF Followed
    <3>2. RowOf(r)' = RowOf(r) /\ \A h \in Writer : (Free(r, h)' <=> Free(r, h)) /\ Ev(r, h)' = Ev(r, h)
      BY <2>1, <2>2, <3>1 DEF RowOf, Free, Ev
    <3> QED
      BY <1>c, <2>1, <2>3, <3>2
  <2> QED
    BY <1>b, <2>1, <2>3 DEF SinksInv
<1> QED
  BY <1>2, <1>3, <1>4, <1>5, <1>6, <1>7, <1>8, <1>9, <1>10, <1>11, Steps

\* A run that is in memory and whose writers are done is listed from disk as it is from
\* memory, as long as no other process opens the database.
THEOREM SinksAreOne == Reader = {} => (Spec => []SinksAgree)
<1> SUFFICES ASSUME Reader = {} PROVE Spec => []SinksAgree
  OBVIOUS
<1> DEFINE IInv == Control /\ RowInv /\ PastInv /\ SinksInv
<1>1. Init => IInv
  BY ControlInit, RowInit, PastInit, SinksInit
<1>2. Types /\ IInv /\ [Next]_vars => IInv'
  BY ControlNext, RowNext, PastNext, SinksNext
<1>3. Types /\ IInv => SinksAgree
  <2> SUFFICES ASSUME Types, IInv PROVE SinksAgree
    OBVIOUS
  <2> SUFFICES ASSUME NEW r \in Run, InRing(r), Quiet(r), Intact(r)
               PROVE  r \in DOMAIN Listed /\ Listed[r] = head[r]
    <3>1. DOMAIN ListedInMemory = Range(ring) /\ \A r \in Range(ring) : ListedInMemory[r] = head[r]
      BY DEF ListedInMemory
    <3>2. Range(ring) \subseteq Run
      <4>1. ring \in Seq(Run)
        BY DEF Types, MemoryTypes
      <4>2. DOMAIN ring = 1..Len(ring) /\ \A i \in 1..Len(ring) : ring[i] \in Run
        BY <4>1, LenProperties, ElementOfSeq
      <4> QED
        BY <4>2 DEF Range
    <3> QED
      BY <3>1, <3>2 DEF SinksAgree, InRing
  <2>0. Main \in Writer /\ \A g \in Goroutine : g \in Writer
    BY Names
  <2>1. pc[r] \in {"running", "end"} /\ Free(r, Main) /\ ~Starting(r)
    BY <2>0 DEF Control, RunControl, Quiet, Starting
  <2>2. Ahead(r)
    BY DEF SinksInv, Followed, Intact
  <2>3. \A k \in Counted : Cardinality(OnTheWay(r, k)) = 0
    <3>1. \A k \in Counted : OnTheWay(r, k) = {}
      BY <2>0 DEF OnTheWay, Quiet
    <3> QED
      BY <3>1, FS_EmptySet
  <2>4. Get(r) = head[r]
    <3>1. /\ Get(r) \in Header /\ Get(r).count \in [Counted -> Nat]
          /\ head[r] \in Header /\ head[r].count \in [Counted -> Nat]
      BY GetIsAHeader
    <3>2. \A k \in Counted : head[r].count[k] = Get(r).count[k]
      BY <2>2, <2>3, <3>1 DEF Ahead
    <3>3. head[r].count = Get(r).count
      BY <3>1, <3>2
    <3>4. head[r].started = Get(r).started /\ head[r].status = Get(r).status
      BY <2>1, <2>2 DEF Ahead
    <3> QED
      BY <3>1, <3>3, <3>4 DEF Header
  <2>5. CASE backend = "sqlite"
    <3>1. RowOf(r).started # 0
      BY <2>5 DEF Intact
    <3>2. r \in DOMAIN row
      BY <3>1 DEF RowOf, Blank
    <3>3. Settled
      BY <2>5, <3>2 DEF RowInv, Before
    <3>4. row[r] = Get(r)
      BY <3>2, <3>3 DEF Settled, InRow
    <3> QED
      BY <2>4, <2>5, <3>2, <3>4 DEF Listed
  <2>6. CASE backend # "sqlite"
    <3>1. Past(r)
      BY DEF PastInv, Told, Intact
    <3>2. 1 \in Readable(r)
      BY <2>1, <3>1 DEF Past, Opens
    <3>3. Listed = [p \in {q \in Run : Readable(q) # {}} |-> Get(p)]
      BY <2>6 DEF Listed
    <3>4. r \in {q \in Run : Readable(q) # {}}
      BY <3>2
    <3> QED
      BY <2>4, <3>3, <3>4
  <2> QED
    BY <2>5, <2>6
<1> QED
  BY <1>1, <1>2, <1>3, TypesInvariant, PTL DEF Spec

=========================
