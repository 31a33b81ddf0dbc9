--------------------------- MODULE FuzzSearchProof ---------------------------
(***************************************************************************)
(* What a run's answer is worth, for any target, any set of configurations *)
(* and any shrinker: the search of FuzzSearch is implemented, the journal  *)
(* in a report describes its minimal case, and the tally of a run that     *)
(* passed counts every action it executed.                                 *)
(***************************************************************************)
EXTENDS FuzzRunProof

-----------------------------------------------------------------------------
(* The invariant of a case *)

SetUp(t, case) == Setup(t, case.initial) = "ready"

Result(t, case, i) == Execute(t, Upto(case, i)).result

\* The record of the i-th action, once it has been executed.
StepOf(t, case, i) ==
  [index   |-> i - 1,
   action  |-> case.actions[i],
   outcome |-> IF Result(t, case, i) = "panics" THEN "pending" ELSE Result(t, case, i),
   breach  |-> Execute(t, Upto(case, i)).breach]

\* The steps are those of the case's first k actions.
Records(t, steps, case, k) ==
  /\ Len(steps) = k
  /\ \A i \in 1..k : steps[i] = StepOf(t, case, i)

\* Nothing went wrong before the k-th action.
CalmBefore(t, case, k) == \A l \in 0..(k - 1) : ~BadAt(t, case, l)

\* The k-th action, or a check after it, is the first thing to go wrong.
FailsAt(t, case, k) ==
  /\ k \in 0..Len(case.actions)
  /\ CalmBefore(t, case, k)
  /\ BadAt(t, case, k)

\* The note a failure at the k-th action leaves; a panic leaves none.
Noted(t, j, case, k) ==
  IF k > 0 /\ BadEffect(t, case, k)
  THEN IF Result(t, case, k) = "panics" THEN j.failure = None
       ELSE j.failure # None /\ j.failure.kind = "unexpected-error"
  ELSE IF Check(t, Upto(case, k)) = "panics" THEN j.failure = None
       ELSE j.failure # None /\ j.failure.kind = "invariant"

\* The journal is that of the case, which failed at its k-th action.
Describes(t, j, case, k) ==
  FailsAt(t, case, k) /\ Records(t, j.steps, case, k) /\ Noted(t, j, case, k)

\* While a case runs the journal holds the actions executed and no failure.
InFlight ==
  phase \in {"check", "act", "return"} =>
    /\ SetUp(target, current)
    /\ journal.failure = None
    /\ Records(target, journal.steps, current, pos)
    /\ CalmBefore(target, current, pos)
    /\ pos > 0 => ~BadEffect(target, current, pos)
    /\ phase # "check" => ~BadCheck(target, current, pos)
    /\ phase = "return" => pos = Len(current.actions)

\* When it has failed the journal says where and how.
Failed ==
  phase = "failed" =>
    \/ Setup(target, current.initial) = "panics"
    \/ /\ SetUp(target, current)
       /\ Describes(target, journal, current, pos)
       /\ ~shrinking => seen = pos

-----------------------------------------------------------------------------
(* The invariant of the search *)

\* The smallest case known to fail.
LastFailing == IF undo = None THEN current ELSE undo

\* The shrinker has a failing case reduced from the one drawn, and stays
\* below that one.  A replay runs none of its candidates, so its journal
\* stays that of the failing case.
Shrunk ==
  shrinking =>
    /\ generated # <<>>
    /\ Search!FailureAt(Len(generated))
    /\ current \in CaseSpace
    /\ CaseFails(target, LastFailing)
    /\ Search!Reduces(LastFailing, generated[Len(generated)])
    /\ Search!Reduces(current, generated[Len(generated)])
    /\ config.replay # None /\ SetUp(target, LastFailing) =>
         \E k \in 0..Len(LastFailing.actions) :
           Describes(target, journal, LastFailing, k)
    /\ config.replay = None /\ undo = None => phase # "passed"

\* No case drawn and run before the one in flight fails.
Drawn ==
  ~shrinking =>
    /\ phase \in {"start", "generate", "passed"} =>
         \A k \in 1..Len(generated) : ~Search!FailureAt(k)
    /\ phase \in {"invoke", "check", "act", "return", "failed"} =>
         /\ generated # <<>>
         /\ \A k \in 1..(Len(generated) - 1) : ~Search!FailureAt(k)

Over == outcome = None <=> phase # "done"

SearchInv == InFlight /\ Failed /\ Shrunk /\ Drawn /\ Over

-----------------------------------------------------------------------------
(* The invariant of the tally *)

RefusedUpto(t, case, k) == {i \in 1..k : RefusedIn(t, case, i)}

OfKind(t, case, steps, kind) == {i \in steps : Kind(t, case.actions[i]) = kind}

\* The tally of the case in flight counts the actions it has executed.
CaseCounts ==
  phase \in {"check", "act", "return"} =>
    /\ Total(caseTally.stats) = pos
    /\ caseTally.stats.unexpected = Cardinality(RefusedUpto(target, current, pos))
    /\ \A kind \in Ranks :
         Cardinality({i \in 1..Len(caseTally.kinds) : caseTally.kinds[i] = kind})
           = Cardinality(OfKind(target, current, RefusedUpto(target, current, pos), kind))

\* The cases whose end has been seen.
Ran ==
  IF phase \in {"start", "generate", "passed"} THEN generated
  ELSE SubSeq(generated, 1, Len(generated) - 1)

\* The run's tally counts those of the cases run so far.
Counts(g) ==
  /\ Total(tally.stats) = Cardinality(ActionsOf(config, g))
  /\ tally.stats.unexpected = Cardinality(RefusedOf(target, config, g))
  /\ \A kind \in Ranks :
       tally.byKind[kind] = Cardinality(RefusedOfKind(target, config, g, kind))

\* Until a case fails, that is what the tally holds.
TallyOfRan == ~shrinking /\ phase # "done" => Counts(Ran)

\* What OnlyCompletedCasesCount says of a run that passed.
AllCounted ==
  Ended("passed") =>
    Total(outcome.stats) = Cardinality(ActionsOf(config, generated))

TallyInv ==
  /\ CaseCounts
  /\ TallyOfRan
  /\ AllCounted
  /\ WarningIsDeserved

-----------------------------------------------------------------------------
(* A case cut short *)

LEMMA UptoFields ==
  ASSUME NEW case \in CaseSpace, NEW k \in 0..Len(case.actions)
  PROVE  /\ Upto(case, k).initial = case.initial
         /\ Upto(case, k).actions = SubSeq(case.actions, 1, k)
         /\ \A i \in 1..k : Upto(case, k).actions[i] = case.actions[i]
         /\ Upto(case, k) = [initial |-> case.initial,
                             actions |-> SubSeq(case.actions, 1, k)]
<1>1. /\ case.actions \in Seq(Actions)
      /\ Len(case.actions) \in 0..MaxActions
      /\ case = [initial |-> case.initial, actions |-> case.actions]
  BY CaseFields
<1>2. Upto(case, k) = [initial |-> case.initial, actions |-> SubSeq(case.actions, 1, k)]
  <2>1. \A f : [case EXCEPT !.actions = f] = [initial |-> case.initial, actions |-> f]
    BY DEF CaseSpace
  <2>2. Upto(case, k) = [case EXCEPT !.actions = SubSeq(case.actions, 1, k)]
    BY Zenon DEF Upto
  <2>3. QED
    BY <2>1, <2>2
<1>3. \A i \in 1..k : SubSeq(case.actions, 1, k)[i] = case.actions[i]
  BY <1>1
<1>4. QED
  BY <1>2, <1>3

LEMMA UptoUpto ==
  ASSUME NEW case \in CaseSpace, NEW k \in 0..Len(case.actions), NEW l \in 0..k
  PROVE  Upto(Upto(case, k), l) = Upto(case, l)
<1>1. /\ case.actions \in Seq(Actions)
      /\ Len(case.actions) \in 0..MaxActions
  BY CaseFields
<1>2. Upto(case, k) \in CaseSpace /\ Len(Upto(case, k).actions) = k
  BY UptoIsACase
<1>3. l \in 0..Len(case.actions) /\ l \in 0..Len(Upto(case, k).actions)
  BY <1>1, <1>2, MaxActionsAssumption
<1>4. /\ Upto(Upto(case, k), l)
           = [initial |-> Upto(case, k).initial,
              actions |-> SubSeq(Upto(case, k).actions, 1, l)]
      /\ Upto(case, l) = [initial |-> case.initial, actions |-> SubSeq(case.actions, 1, l)]
      /\ Upto(case, k).initial = case.initial
      /\ Upto(case, k).actions = SubSeq(case.actions, 1, k)
  <2>1. /\ Upto(case, k).initial = case.initial
        /\ Upto(case, k).actions = SubSeq(case.actions, 1, k)
    BY UptoFields
  <2>2. Upto(case, l) = [initial |-> case.initial, actions |-> SubSeq(case.actions, 1, l)]
    BY <1>3, UptoFields
  <2>3. Upto(Upto(case, k), l)
           = [initial |-> Upto(case, k).initial,
              actions |-> SubSeq(Upto(case, k).actions, 1, l)]
    BY <1>2, <1>3, UptoFields
  <2>4. QED
    BY <2>1, <2>2, <2>3
<1>5. SubSeq(SubSeq(case.actions, 1, k), 1, l) = SubSeq(case.actions, 1, l)
  BY <1>1
<1>6. QED
  BY <1>4, <1>5

LEMMA UptoAll ==
  ASSUME NEW case \in CaseSpace
  PROVE  Upto(case, Len(case.actions)) = case
<1>1. /\ case.actions \in Seq(Actions)
      /\ Len(case.actions) \in 0..MaxActions
      /\ case = [initial |-> case.initial, actions |-> case.actions]
  BY CaseFields
<1>2. Len(case.actions) \in 0..Len(case.actions)
  BY <1>1, MaxActionsAssumption
<1>3. Upto(case, Len(case.actions))
        = [initial |-> case.initial,
           actions |-> SubSeq(case.actions, 1, Len(case.actions))]
  BY <1>2, UptoFields
<1>4. SubSeq(case.actions, 1, Len(case.actions)) = case.actions
  BY <1>1
<1>5. QED
  BY <1>1, <1>3, <1>4

\* What happens up to a case's k-th action is decided by its first k actions.
LEMMA UptoDecides ==
  ASSUME NEW t, NEW case \in CaseSpace, NEW k \in 0..Len(case.actions), NEW l \in 0..k
  PROVE  /\ BadEffect(t, Upto(case, k), l) <=> BadEffect(t, case, l)
         /\ BadCheck(t, Upto(case, k), l) <=> BadCheck(t, case, l)
         /\ BadAt(t, Upto(case, k), l) <=> BadAt(t, case, l)
         /\ Result(t, Upto(case, k), l) = Result(t, case, l)
         /\ l > 0 => StepOf(t, Upto(case, k), l) = StepOf(t, case, l)
<1>1. Upto(Upto(case, k), l) = Upto(case, l)
  BY UptoUpto
<1>2. l > 0 => Upto(case, k).actions[l] = case.actions[l]
  BY UptoFields
<1>3. QED
  BY <1>1, <1>2 DEF BadEffect, BadCheck, BadAt, Result, StepOf

\* A journal that describes a case up to where it failed describes the case
\* that ends there.
LEMMA DescribesUpto ==
  ASSUME NEW t, NEW j, NEW case \in CaseSpace, NEW k, Describes(t, j, case, k)
  PROVE  /\ k \in 0..Len(case.actions)
         /\ Upto(case, k) \in CaseSpace
         /\ k \in 0..Len(Upto(case, k).actions)
         /\ Describes(t, j, Upto(case, k), k)
<1>1. k \in 0..Len(case.actions) /\ FailsAt(t, case, k)
  BY DEF Describes, FailsAt
<1>2. Upto(case, k) \in CaseSpace /\ Len(Upto(case, k).actions) = k
  BY <1>1, UptoIsACase
<1>3. Len(case.actions) \in Nat /\ k \in 0..k /\ k \in Nat
  BY <1>1, CaseFields, MaxActionsAssumption
<1>4. \A l \in 0..k : /\ BadAt(t, Upto(case, k), l) <=> BadAt(t, case, l)
                      /\ l > 0 => StepOf(t, Upto(case, k), l) = StepOf(t, case, l)
  BY <1>1, UptoDecides
<1>5. FailsAt(t, Upto(case, k), k)
  BY <1>1, <1>2, <1>3, <1>4 DEF FailsAt, CalmBefore
<1>6. Records(t, j.steps, Upto(case, k), k)
  BY <1>3, <1>4 DEF Describes, Records
<1>7. Noted(t, j, Upto(case, k), k)
  <2>1. /\ BadEffect(t, Upto(case, k), k) <=> BadEffect(t, case, k)
        /\ Result(t, Upto(case, k), k) = Result(t, case, k)
    BY <1>1, <1>3, UptoDecides
  <2>2. Upto(Upto(case, k), k) = Upto(case, k)
    BY <1>1, <1>3, UptoUpto
  <2>3. Noted(t, j, case, k)
    BY DEF Describes
  <2>4. QED
    BY <2>1, <2>2, <2>3 DEF Noted
<1>8. QED
  BY <1>1, <1>2, <1>3, <1>5, <1>6, <1>7 DEF Describes

\* A case that fails at its k-th action fails, and so does what is left when
\* the actions after it are dropped.
LEMMA FailsAtFails ==
  ASSUME NEW t, NEW case \in CaseSpace, NEW k, FailsAt(t, case, k)
  PROVE  CaseFails(t, case)
BY DEF FailsAt, CaseFails

-----------------------------------------------------------------------------
(* Reducing a case *)

LEMMA UnderTrans ==
  ASSUME NEW z \in Actions \cup Initials, NEW y, NEW x,
         Search!Under(x, y), Search!Under(y, z)
  PROVE  Search!Under(x, z)
BY SimplerAssumption DEF Search!Under

LEMMA ReducesTrans ==
  ASSUME NEW c \in CaseSpace, NEW d \in CaseSpace, NEW e \in CaseSpace,
         Search!Reduces(c, d), Search!Reduces(d, e)
  PROVE  Search!Reduces(c, e)
<1> DEFINE C == 1..Len(c.actions)
           D == 1..Len(d.actions)
           E == 1..Len(e.actions)
<1>1. PICK f \in [C -> D] :
        /\ \A i, j \in C : i < j => f[i] < f[j]
        /\ \A i \in C : Search!Under(c.actions[i], d.actions[f[i]])
  BY DEF Search!Reduces
<1>2. PICK g \in [D -> E] :
        /\ \A i, j \in D : i < j => g[i] < g[j]
        /\ \A i \in D : Search!Under(d.actions[i], e.actions[g[i]])
  BY DEF Search!Reduces
<1>3. /\ e.initial \in Initials
      /\ e.actions \in Seq(Actions)
  BY CaseFields
<1> DEFINE h == [i \in C |-> g[f[i]]]
<1>4. h \in [C -> E]
  BY <1>1, <1>2
<1>5. ASSUME NEW i \in C, NEW j \in C, i < j
      PROVE  h[i] < h[j]
  <2>1. f[i] \in D /\ f[j] \in D /\ f[i] < f[j]
    BY <1>1, <1>5
  <2>2. g[f[i]] < g[f[j]]
    BY <1>2, <2>1
  <2>3. QED
    BY <2>2
<1>6. ASSUME NEW i \in C
      PROVE  Search!Under(c.actions[i], e.actions[h[i]])
  <2>1. f[i] \in D /\ Search!Under(c.actions[i], d.actions[f[i]])
    BY <1>1
  <2>2. Search!Under(d.actions[f[i]], e.actions[g[f[i]]])
    BY <1>2, <2>1
  <2>3. e.actions[g[f[i]]] \in Actions
    BY <1>2, <1>3, <2>1
  <2>4. QED
    BY <2>1, <2>2, <2>3, UnderTrans
<1>7. Search!Under(c.initial, e.initial)
  <2>1. Search!Under(c.initial, d.initial) /\ Search!Under(d.initial, e.initial)
    BY DEF Search!Reduces
  <2>2. QED
    BY <1>3, <2>1, UnderTrans
<1> HIDE DEF h
<1>8. QED
  BY <1>4, <1>5, <1>6, <1>7 DEF Search!Reduces

\* An embedding that keeps the actions as they are.
LEMMA ReducesByIdentity ==
  ASSUME NEW c \in CaseSpace, NEW d \in CaseSpace,
         Len(c.actions) <= Len(d.actions),
         Search!Under(c.initial, d.initial),
         \A i \in 1..Len(c.actions) : Search!Under(c.actions[i], d.actions[i])
  PROVE  Search!Reduces(c, d)
<1> DEFINE h == [i \in 1..Len(c.actions) |-> i]
<1>1. Len(c.actions) \in Nat /\ Len(d.actions) \in Nat
  BY CaseFields, MaxActionsAssumption
<1>2. /\ h \in [1..Len(c.actions) -> 1..Len(d.actions)]
      /\ \A i, j \in 1..Len(c.actions) : i < j => h[i] < h[j]
      /\ \A i \in 1..Len(c.actions) : Search!Under(c.actions[i], d.actions[h[i]])
  BY <1>1
<1> HIDE DEF h
<1>3. QED
  BY <1>2 DEF Search!Reduces

LEMMA UptoReduces ==
  ASSUME NEW case \in CaseSpace, NEW k \in 0..Len(case.actions)
  PROVE  Search!Reduces(Upto(case, k), case)
<1>1. Upto(case, k) \in CaseSpace /\ Len(Upto(case, k).actions) = k
  BY UptoIsACase
<1>2. /\ Upto(case, k).initial = case.initial
      /\ \A i \in 1..k : Upto(case, k).actions[i] = case.actions[i]
  BY UptoFields
<1>3. k <= Len(case.actions)
  BY CaseFields, MaxActionsAssumption
<1>4. QED
  BY <1>1, <1>2, <1>3, ReducesByIdentity DEF Search!Under

LEMMA ReducesRefl ==
  ASSUME NEW case \in CaseSpace
  PROVE  Search!Reduces(case, case)
<1>1. Len(case.actions) \in Nat
  BY CaseFields, MaxActionsAssumption
<1>2. QED
  BY <1>1, ReducesByIdentity DEF Search!Under

LEMMA ConcatLength ==
  ASSUME NEW left \in Seq(Actions), NEW right \in Seq(Actions)
  PROVE  Len(left \o right) = Len(left) + Len(right)
OBVIOUS

LEMMA WithoutElements ==
  ASSUME NEW s \in Seq(Actions), NEW i \in 1..Len(s)
  PROVE  /\ Len(Without(s, i)) = Len(s) - 1
         /\ \A k \in 1..(Len(s) - 1) :
              Without(s, i)[k] = IF k < i THEN s[k] ELSE s[k + 1]
<1> DEFINE left  == SubSeq(s, 1, i - 1)
           right == SubSeq(s, i + 1, Len(s))
<1>1. /\ left \in Seq(Actions) /\ Len(left) = i - 1
      /\ \A k \in 1..(i - 1) : left[k] = s[k]
  OBVIOUS
<1>2. /\ right \in Seq(Actions) /\ Len(right) = Len(s) - i
      /\ \A k \in 1..(Len(s) - i) : right[k] = s[i + k]
  OBVIOUS
<1>3. Without(s, i) = left \o right
  BY DEF Without
<1> HIDE DEF left, right
<1>4. Len(Without(s, i)) = Len(s) - 1
  <2>1. Len(left \o right) = Len(left) + Len(right)
    BY <1>1, <1>2, ConcatLength
  <2>2. Len(s) \in Nat
    OBVIOUS
  <2>3. QED
    BY <1>1, <1>2, <1>3, <2>1, <2>2
<1>5. ASSUME NEW k \in 1..(Len(s) - 1)
      PROVE  Without(s, i)[k] = IF k < i THEN s[k] ELSE s[k + 1]
  <2>1. Without(s, i)[k] = IF k <= Len(left) THEN left[k] ELSE right[k - Len(left)]
    BY <1>1, <1>2, <1>3
  <2>2. CASE k < i
    BY <1>1, <2>1, <2>2
  <2>3. CASE ~(k < i)
    <3>1. k - (i - 1) \in 1..(Len(s) - i) /\ i + (k - (i - 1)) = k + 1
      BY <2>3
    <3>2. right[k - (i - 1)] = s[k + 1]
      BY <1>2, <3>1
    <3>3. QED
      BY <1>1, <2>1, <2>3, <3>2
  <2>4. QED
    BY <2>2, <2>3
<1>6. QED
  BY <1>4, <1>5

LEMMA DeletionsReduce ==
  ASSUME NEW case \in CaseSpace, NEW c \in Deletions(case)
  PROVE  Search!Reduces(c, case)
<1>1. /\ case.initial \in Initials
      /\ case.actions \in Seq(Actions)
      /\ case = [initial |-> case.initial, actions |-> case.actions]
      /\ Len(case.actions) \in Nat
  BY CaseFields, MaxActionsAssumption
<1>2. PICK k \in 1..Len(case.actions) : c = [case EXCEPT !.actions = Without(@, k)]
  BY DEF Deletions
<1>3. /\ c.initial = case.initial
      /\ c.actions = Without(case.actions, k)
  BY <1>1, <1>2
<1>4. /\ Len(c.actions) = Len(case.actions) - 1
      /\ \A i \in 1..Len(c.actions) :
           c.actions[i] = IF i < k THEN case.actions[i] ELSE case.actions[i + 1]
  BY <1>1, <1>3, WithoutElements
<1> DEFINE h == [i \in 1..Len(c.actions) |-> IF i < k THEN i ELSE i + 1]
<1>5. /\ h \in [1..Len(c.actions) -> 1..Len(case.actions)]
      /\ \A i, j \in 1..Len(c.actions) : i < j => h[i] < h[j]
      /\ \A i \in 1..Len(c.actions) : c.actions[i] = case.actions[h[i]]
  BY <1>1, <1>4
<1> HIDE DEF h
<1>6. QED
  BY <1>3, <1>5 DEF Search!Reduces, Search!Under

LEMMA ReplacementsReduce ==
  ASSUME NEW case \in CaseSpace, NEW c \in Replacements(case)
  PROVE  Search!Reduces(c, case)
<1>1. /\ case.actions \in Seq(Actions)
      /\ case = [initial |-> case.initial, actions |-> case.actions]
      /\ Len(case.actions) \in Nat
      /\ c \in CaseSpace
  BY CaseFields, MaxActionsAssumption, ReplacementsAreCases
<1>2. CASE c \in {[case EXCEPT !.initial = x] : x \in Simpler(case.initial)}
  <2>1. PICK x \in Simpler(case.initial) : c = [case EXCEPT !.initial = x]
    BY <1>2
  <2>2. c.initial = x /\ c.actions = case.actions
    BY <1>1, <2>1
  <2>3. QED
    BY <1>1, <2>2, ReducesByIdentity DEF Search!Under
<1>3. CASE \E i \in 1..Len(case.actions) :
             c \in {[case EXCEPT !.actions[i] = x] : x \in Simpler(case.actions[i])}
  <2>1. PICK i \in 1..Len(case.actions) :
          \E x \in Simpler(case.actions[i]) : c = [case EXCEPT !.actions[i] = x]
    BY <1>3
  <2> PICK x \in Simpler(case.actions[i]) : c = [case EXCEPT !.actions[i] = x]
    BY <2>1
  <2>2. c.initial = case.initial /\ c.actions = [case.actions EXCEPT ![i] = x]
    BY <1>1, <2>1
  <2>3. /\ Len(c.actions) = Len(case.actions)
        /\ \A k \in 1..Len(case.actions) :
             c.actions[k] = IF k = i THEN x ELSE case.actions[k]
    BY <1>1, <2>2
  <2>4. QED
    BY <1>1, <2>2, <2>3, ReducesByIdentity DEF Search!Under
<1>4. QED
  BY <1>2, <1>3 DEF Replacements

-----------------------------------------------------------------------------
(* The report *)

LEMMA FirstBadIs ==
  ASSUME NEW t, NEW case \in CaseSpace, NEW k, FailsAt(t, case, k)
  PROVE  FirstBad(t, case) = k
<1> DEFINE First(l) == BadAt(t, case, l) /\ \A m \in 0..(l - 1) : ~BadAt(t, case, m)
<1>1. k \in 0..Len(case.actions) /\ First(k)
  BY DEF FailsAt, CalmBefore
<1>2. ASSUME NEW l \in 0..Len(case.actions), First(l)
      PROVE  l = k
  <2>1. k \in Int /\ l \in Int /\ 0 <= k /\ 0 <= l
    BY <1>1, <1>2, CaseFields, MaxActionsAssumption
  <2>2. ~(l < k)
    BY <1>1, <1>2, <2>1
  <2>3. ~(k < l)
    BY <1>1, <1>2, <2>1
  <2>4. QED
    BY <2>1, <2>2, <2>3
<1>3. FirstBad(t, case) = CHOOSE l \in 0..Len(case.actions) : First(l)
  BY Zenon DEF FirstBad
<1> HIDE DEF First
<1>4. QED
  BY <1>1, <1>2, <1>3

\* Actions before the first failure were carried out or refused.
LEMMA CalmResults ==
  ASSUME NEW t \in Targets, NEW case \in CaseSpace, NEW k \in 0..Len(case.actions),
         CalmBefore(t, case, k), NEW i \in 1..(k - 1)
  PROVE  Result(t, case, i) \in {"ok", "rejected"}
<1>1. Len(case.actions) \in Nat
  BY CaseFields, MaxActionsAssumption
<1>2. i \in 0..Len(case.actions) /\ i \in 0..(k - 1) /\ i > 0
  BY <1>1
<1>3. ~BadEffect(t, case, i)
  BY <1>2 DEF CalmBefore, BadAt
<1>4. Upto(case, i) \in CaseSpace
  BY <1>2, UptoIsACase
<1>5. Execute(t, Upto(case, i)) \in Effects
  BY <1>4, TargetsAssumption
<1>6. QED
  BY <1>3, <1>5 DEF Result, BadEffect, Effects

\* What the steps of a report say once the step pending is marked.
LEMMA MarkedSteps ==
  ASSUME NEW t \in Targets, NEW case \in CaseSpace, NEW k \in 0..Len(case.actions),
         NEW steps \in Seq(StepRecords(Actions)),
         CalmBefore(t, case, k), Records(t, steps, case, k)
  PROVE  /\ Len(MarkPanicked(steps)) = k
         /\ \A i \in 1..k :
              /\ MarkPanicked(steps)[i].index = i - 1
              /\ MarkPanicked(steps)[i].action = case.actions[i]
              /\ MarkPanicked(steps)[i].breach = Execute(t, Upto(case, i)).breach
              /\ MarkPanicked(steps)[i].outcome =
                   IF Result(t, case, i) = "panics" THEN "<panicked>"
                   ELSE Result(t, case, i)
<1>1. Len(steps) = k /\ k \in Nat /\ \A i \in 1..k : steps[i] = StepOf(t, case, i)
  BY CaseFields, MaxActionsAssumption DEF Records
<1>2. \A i \in 1..(k - 1) : Result(t, case, i) \in {"ok", "rejected"}
  BY CalmResults
<1>3. \A i \in 1..k :
        /\ steps[i].index = i - 1
        /\ steps[i].action = case.actions[i]
        /\ steps[i].breach = Execute(t, Upto(case, i)).breach
        /\ steps[i].outcome =
             IF Result(t, case, i) = "panics" THEN "pending" ELSE Result(t, case, i)
  BY <1>1 DEF StepOf
<1>4. CASE /\ \A i \in 1..k : steps[i].outcome # "pending"
           /\ MarkPanicked(steps) = steps
  BY <1>1, <1>3, <1>4
<1>5. CASE \E first \in 1..k :
             /\ steps[first].outcome = "pending"
             /\ MarkPanicked(steps) = [steps EXCEPT ![first].outcome = "<panicked>"]
  <2>1. PICK first \in 1..k :
          /\ steps[first].outcome = "pending"
          /\ MarkPanicked(steps) = [steps EXCEPT ![first].outcome = "<panicked>"]
    BY <1>5
  <2>2. first = k
    <3>1. CASE first \in 1..(k - 1)
      BY <1>2, <1>3, <2>1, <3>1
    <3>2. QED
      BY <1>1, <3>1
  <2>3. /\ Len(MarkPanicked(steps)) = k
        /\ \A i \in 1..k :
             MarkPanicked(steps)[i] =
               IF i = k THEN [steps[k] EXCEPT !.outcome = "<panicked>"] ELSE steps[i]
    BY <1>1, <2>1, <2>2
  <2>4. steps[k] \in StepRecords(Actions)
    BY <1>1
  <2>5. Result(t, case, k) = "panics"
    <3>1. k \in 1..k
      BY <1>1, <2>2
    <3>2. k \in 0..Len(case.actions)
      OBVIOUS
    <3>3. Upto(case, k) \in CaseSpace
      BY <3>2, UptoIsACase
    <3>4. Execute(t, Upto(case, k)) \in Effects
      BY <3>3, TargetsAssumption
    <3>5. Result(t, case, k) # "pending"
      BY <3>4 DEF Result, Effects
    <3>6. QED
      BY <1>3, <2>1, <2>2, <3>1, <3>5
  <2>6. ASSUME NEW i \in 1..k
        PROVE  /\ MarkPanicked(steps)[i].index = i - 1
               /\ MarkPanicked(steps)[i].action = case.actions[i]
               /\ MarkPanicked(steps)[i].breach = Execute(t, Upto(case, i)).breach
               /\ MarkPanicked(steps)[i].outcome =
                    IF Result(t, case, i) = "panics" THEN "<panicked>"
                    ELSE Result(t, case, i)
    <3>1. CASE i = k
      <4> DEFINE marked == [steps[k] EXCEPT !.outcome = "<panicked>"]
      <4>1. /\ marked.index = steps[k].index /\ marked.action = steps[k].action
            /\ marked.breach = steps[k].breach /\ marked.outcome = "<panicked>"
        BY <2>4 DEF StepRecords
      <4>2. MarkPanicked(steps)[i] = marked
        BY <2>3, <3>1
      <4> HIDE DEF marked
      <4>3. QED
        BY <1>3, <2>5, <3>1, <4>1, <4>2
    <3>2. CASE i # k
      <4>1. Result(t, case, i) # "panics"
        BY <1>1, <1>2, <3>2
      <4>2. QED
        BY <1>3, <2>3, <3>2, <4>1
    <3>3. QED
      BY <3>1, <3>2
  <2>7. QED
    BY <2>3, <2>6
<1>6. QED
  <2>1. Len(steps) \in Nat
    BY <1>1
  <2>2. QED
    BY <1>1, <1>4, <1>5, <2>1, MarkPanickedPicks

\* The report built from a case and the journal that describes it.
LEMMA ReportDescribes ==
  ASSUME NEW t \in Targets, NEW case \in CaseSpace, NEW j \in Journals(Actions),
         NEW k, NEW stats, Describes(t, j, case, k)
  PROVE  StepsDescribeMinimal(t, NewReport(case, j, stats))
<1> DEFINE report == NewReport(case, j, stats)
<1>1. k \in 0..Len(case.actions) /\ FailsAt(t, case, k) /\ CalmBefore(t, case, k)
  BY DEF Describes, FailsAt
<1>2. j.steps \in Seq(StepRecords(Actions)) /\ j.failure \in FailureNotes \cup {None}
  BY JournalFields
<1>3. FirstBad(t, case) = k
  BY <1>1, FirstBadIs
<1>4. /\ report.minimal = case
      /\ report.steps = MarkPanicked(j.steps)
      /\ report.kind = IF j.failure = None THEN "panic" ELSE j.failure.kind
  BY DEF NewReport
<1> HIDE DEF report
<1>5. Records(t, j.steps, case, k)
  BY DEF Describes
<1>6. /\ Len(report.steps) = k
      /\ \A i \in 1..k :
           /\ report.steps[i].index = i - 1
           /\ report.steps[i].action = case.actions[i]
           /\ report.steps[i].outcome =
                IF Result(t, case, i) = "panics" THEN "<panicked>" ELSE Result(t, case, i)
  BY <1>1, <1>2, <1>4, <1>5, MarkedSteps
<1> DEFINE last == Upto(case, k)
<1>7. /\ \A i \in 1..k : last.actions[i] = case.actions[i]
      /\ \A i \in 0..k : Upto(last, i) = Upto(case, i)
  BY <1>1, UptoFields, UptoUpto
<1>8. k \in Nat /\ k \in 0..k
  BY <1>1, CaseFields, MaxActionsAssumption
<1>9. BadEffect(t, last, k) <=> BadEffect(t, case, k)
  BY <1>7, <1>8 DEF BadEffect
<1>10. report.kind =
         IF k > 0 /\ BadEffect(t, last, k)
         THEN IF Execute(t, last).result = "panics"
              THEN "panic" ELSE "unexpected-error"
         ELSE IF Check(t, last) = "panics"
              THEN "panic" ELSE "invariant"
  <2>1. Noted(t, j, case, k)
    BY DEF Describes
  <2>2. QED
    BY <1>4, <1>9, <2>1 DEF Noted, Result
<1>11. \A i \in 1..k :
         LET result == Execute(t, Upto(last, i)).result
         IN  /\ report.steps[i].index = i - 1
             /\ report.steps[i].action = last.actions[i]
             /\ report.steps[i].outcome =
                  IF result = "panics" THEN "<panicked>" ELSE result
  BY <1>6, <1>7, <1>8 DEF Result
<1> HIDE DEF last
<1>12. StepsDescribeMinimal(t, report)
  BY <1>3, <1>4, <1>6, <1>10, <1>11 DEF StepsDescribeMinimal, last
<1>13. QED
  BY <1>12 DEF report

\* And the step it names.
LEMMA FailingStepIsFound ==
  ASSUME NEW t \in Targets, NEW case \in CaseSpace, NEW j \in Journals(Actions),
         NEW k, NEW stats, Describes(t, j, case, k)
  PROVE  FailingStepFound(t, NewReport(case, j, stats))
<1> DEFINE steps  == MarkPanicked(j.steps)
           Marked == {i \in 1..Len(steps) : \/ steps[i].outcome = "violation"
                                            \/ steps[i].breach}
<1>1. k \in 0..Len(case.actions) /\ FailsAt(t, case, k) /\ CalmBefore(t, case, k)
  BY DEF Describes, FailsAt
<1>2. j.steps \in Seq(StepRecords(Actions)) /\ Records(t, j.steps, case, k)
  BY JournalFields DEF Describes
<1>3. FirstBad(t, case) = k
  BY <1>1, FirstBadIs
<1>4. k \in Nat
  BY <1>1, CaseFields, MaxActionsAssumption
<1>5. /\ Len(steps) = k
      /\ \A i \in 1..k :
           /\ steps[i].breach = Execute(t, Upto(case, i)).breach
           /\ steps[i].outcome =
                IF Result(t, case, i) = "panics" THEN "<panicked>" ELSE Result(t, case, i)
  BY <1>1, <1>2, MarkedSteps
<1>6. \A i \in 1..(k - 1) : Result(t, case, i) \in {"ok", "rejected"}
  BY <1>1, CalmResults
<1>7. ASSUME \A i \in 1..(k - 1) : ~Execute(t, Upto(case, i)).breach
      PROVE  FailingStep(steps) = IF k = 0 THEN None ELSE k
  <2>1. ASSUME NEW i \in Marked
        PROVE  i = k
    <3>1. i \in 1..k
      BY <1>5
    <3>2. CASE i \in 1..(k - 1)
      BY <1>5, <1>6, <1>7, <3>1, <3>2
    <3>3. QED
      BY <1>4, <3>1, <3>2
  <2>2. CASE Marked # {}
    <3>1. Marked = {k} /\ k \in 1..k
      BY <1>5, <2>1, <2>2
    <3>2. FailingStep(steps) = CHOOSE i \in Marked : \A l \in Marked : i <= l
      BY <2>2, Zenon DEF FailingStep
    <3> HIDE DEF Marked
    <3>3. FailingStep(steps) = k
      BY <1>4, <3>1, <3>2
    <3>4. QED
      BY <1>4, <3>1, <3>3
  <2>3. CASE Marked = {}
    <3>1. FailingStep(steps) = IF steps # <<>> THEN Len(steps) ELSE None
      BY <2>3, Zenon DEF FailingStep
    <3>2. steps # <<>> <=> k # 0
      <4>1. steps \in Seq(StepRecords(Actions))
        BY <1>2, MarkPanickedType
      <4>2. QED
        BY <1>5, <4>1
    <3>3. QED
      BY <1>5, <3>1, <3>2
  <2>4. QED
    BY <2>2, <2>3
<1>8. /\ NewReport(case, j, stats).minimal = case
      /\ NewReport(case, j, stats).steps = steps
  BY DEF NewReport
<1> HIDE DEF steps
<1>9. QED
  BY <1>3, <1>7, <1>8 DEF FailingStepFound

-----------------------------------------------------------------------------
(* The journal of the case in flight *)

\* The sequence is s with one element more.
Extends(longer, s, last) ==
  /\ Len(longer) = Len(s) + 1
  /\ \A i \in 1..Len(s) : longer[i] = s[i]
  /\ longer[Len(s) + 1] = last

LEMMA ExtendsAppend ==
  ASSUME NEW S, NEW s \in Seq(S), NEW x \in S
  PROVE  /\ Append(s, x) \in Seq(S)
         /\ Append(s, x) # <<>>
         /\ Extends(Append(s, x), s, x)
BY DEF Extends

LEMMA ExtendsReplace ==
  ASSUME NEW S, NEW s \in Seq(S), NEW longer \in Seq(S), NEW x, Extends(longer, s, x),
         NEW y \in S, NEW new, new = [longer EXCEPT ![Len(longer)] = y]
  PROVE  /\ new \in Seq(S)
         /\ new # <<>>
         /\ Extends(new, s, y)
<1>1. /\ Len(longer) = Len(s) + 1 /\ Len(s) \in Nat
      /\ \A i \in 1..Len(s) : longer[i] = s[i]
  BY DEF Extends
<1>2. Len(longer) \in 1..Len(longer)
  BY <1>1
<1>3. /\ new \in Seq(S) /\ Len(new) = Len(longer)
      /\ \A i \in 1..Len(longer) : new[i] = IF i = Len(longer) THEN y ELSE longer[i]
  BY <1>2
<1>4. QED
  BY <1>1, <1>3 DEF Extends

LEMMA JournalChange ==
  ASSUME NEW j \in Journals(Actions), NEW steps, NEW new, new = [j EXCEPT !.steps = steps]
  PROVE  new.steps = steps /\ new.failure = j.failure
BY DEF Journals

\* The record an action leaves in the journal as it was: begun, with the
\* calls made, and finished.
LEMMA StepTaken ==
  ASSUME NEW j \in Journals(Actions), NEW i \in Nat, NEW action \in Actions,
         NEW breach \in BOOLEAN, NEW result \in Outcomes,
         NEW begun, begun = PushCall(BeginStep(j, i, action), breach)
  PROVE  /\ Extends(begun.steps, j.steps, [index |-> i, action |-> action,
                                           outcome |-> "pending", breach |-> breach])
         /\ begun.failure = j.failure
         /\ Extends(FinishStep(begun, result).steps, j.steps,
                    [index |-> i, action |-> action,
                     outcome |-> result, breach |-> breach])
         /\ FinishStep(begun, result).failure = j.failure
<1> DEFINE opened == [index |-> i, action |-> action, outcome |-> "pending",
                      breach |-> FALSE]
           called == [index |-> i, action |-> action, outcome |-> "pending",
                      breach |-> breach]
           closed == [index |-> i, action |-> action, outcome |-> result,
                      breach |-> breach]
           first == BeginStep(j, i, action)
           ended == FinishStep(begun, result)
<1>1. /\ opened \in StepRecords(Actions)
      /\ called \in StepRecords(Actions)
      /\ closed \in StepRecords(Actions)
  BY DEF StepRecords, Outcomes
<1>2. /\ [opened EXCEPT !.breach = @ \/ breach] = called
      /\ [called EXCEPT !.outcome = result] = closed
  OBVIOUS
<1>3. first = [j EXCEPT !.steps = Append(j.steps, opened)]
  BY DEF BeginStep
<1>4. first \in Journals(Actions) /\ first.steps # <<>>
  BY BeginStepType
<1>5. begun \in Journals(Actions)
  BY <1>4, PushCallType
<1> HIDE DEF opened, first
<1>6. /\ first.steps = Append(j.steps, opened)
      /\ first.failure = j.failure
  BY <1>3, JournalChange
<1>7. j.steps \in Seq(StepRecords(Actions)) /\ first.steps \in Seq(StepRecords(Actions))
  BY <1>4, JournalFields
<1>8. Extends(first.steps, j.steps, opened)
  BY <1>1, <1>6, <1>7, ExtendsAppend
<1>9. first.steps[Len(first.steps)] = opened
  BY <1>8 DEF Extends
<1>10. begun = [first EXCEPT !.steps =
                  [first.steps EXCEPT ![Len(first.steps)] = called]]
  <2>1. begun = [first EXCEPT !.steps[Len(first.steps)].breach = @ \/ breach]
    BY <1>4, Zenon DEF PushCall, first
  <2>2. QED
    BY <1>2, <1>9, <2>1
<1> HIDE DEF called
<1>11. /\ begun.steps = [first.steps EXCEPT ![Len(first.steps)] = called]
       /\ begun.failure = first.failure
  BY <1>4, <1>10, JournalChange
<1>12. /\ begun.steps \in Seq(StepRecords(Actions))
       /\ begun.steps # <<>>
       /\ Extends(begun.steps, j.steps, called)
  BY <1>1, <1>7, <1>8, <1>11, ExtendsReplace
<1>13. begun.steps[Len(begun.steps)] = called
  BY <1>12 DEF Extends
<1>14. ended = [begun EXCEPT !.steps =
                  [begun.steps EXCEPT ![Len(begun.steps)] = closed]]
  <2>1. ended = [begun EXCEPT !.steps[Len(begun.steps)].outcome = result]
    BY <1>12, Zenon DEF FinishStep
  <2>2. QED
    BY <1>2, <1>13, <2>1
<1> HIDE DEF ended, closed
<1>15. /\ ended.steps = [begun.steps EXCEPT ![Len(begun.steps)] = closed]
       /\ ended.failure = begun.failure
  BY <1>5, <1>14, JournalChange
<1>16. Extends(ended.steps, j.steps, closed)
  BY <1>1, <1>7, <1>12, <1>15, ExtendsReplace
<1>17. QED
  BY <1>6, <1>11, <1>12, <1>15, <1>16 DEF called, closed, ended

\* One more action, one more record.
LEMMA RecordsExtend ==
  ASSUME NEW t, NEW case, NEW steps, NEW k \in Nat, Records(t, steps, case, k),
         NEW longer, Extends(longer, steps, StepOf(t, case, k + 1))
  PROVE  Records(t, longer, case, k + 1)
<1>1. \A i \in 1..(k + 1) : i \in 1..k \/ i = k + 1
  OBVIOUS
<1>2. QED
  BY <1>1 DEF Records, Extends

LEMMA FailNote ==
  ASSUME NEW j \in Journals(Actions), NEW kind \in Kinds
  PROVE  /\ Fail(j, kind).steps = j.steps
         /\ Fail(j, kind).failure # None
         /\ Fail(j, kind).failure.kind = kind
<1> DEFINE note == [kind |-> kind, step |-> LastIndex(j.steps)]
<1>1. Fail(j, kind) = [j EXCEPT !.failure = note]
  BY DEF Fail
<1>2. note.kind = kind
  OBVIOUS
<1> HIDE DEF note
<1>3. Fail(j, kind).steps = j.steps /\ Fail(j, kind).failure = note
  BY <1>1 DEF Journals
<1>4. Fail(j, kind).failure \in FailureNotes
  <2>1. Fail(j, kind) \in Journals(Actions)
    BY FailType
  <2>2. LastIndex(j.steps) \in Nat \cup {None}
    <3>1. CASE j.steps # <<>>
      <4>1. j.steps[Len(j.steps)] \in StepRecords(Actions)
        BY <3>1, JournalFields
      <4>2. QED
        BY <3>1, <4>1 DEF LastIndex, StepRecords
    <3>2. QED
      BY <3>1 DEF LastIndex
  <2>3. QED
    BY <1>3, <2>2 DEF FailureNotes, note
<1>5. QED
  BY <1>2, <1>3, <1>4, NoneAssumption

\* The case in flight, and what its next action does.
LEMMA ActFacts ==
  ASSUME IInv, InFlight, Act
  PROVE  /\ target \in Targets /\ current \in CaseSpace /\ journal \in Journals(Actions)
         /\ pos \in Nat /\ pos + 1 \in 1..Len(current.actions)
         /\ current.actions[pos + 1] \in Actions
         /\ Execute(target, Upto(current, pos + 1)) \in Effects
         /\ SetUp(target, current) /\ journal.failure = None
         /\ Records(target, journal.steps, current, pos)
         /\ CalmBefore(target, current, pos + 1)
         /\ (~shrinking => seen' = pos + 1)
<1>1. phase = "act" /\ current \in CaseSpace /\ pos < Len(current.actions)
  BY DEF Act, IInv, Progress
<1>2. /\ target \in Targets /\ journal \in Journals(Actions)
      /\ pos \in Nat /\ seen \in Nat
  BY MaxActionsAssumption DEF IInv, TypeOK
<1>3. current.actions \in Seq(Actions) /\ Len(current.actions) \in Nat
  BY <1>1, CaseFields, MaxActionsAssumption
<1>4. pos + 1 \in 1..Len(current.actions) /\ pos + 1 \in 0..Len(current.actions)
  BY <1>1, <1>2, <1>3
<1>5. current.actions[pos + 1] \in Actions
  BY <1>3, <1>4
<1>6. Execute(target, Upto(current, pos + 1)) \in Effects
  <2>1. Upto(current, pos + 1) \in CaseSpace
    BY <1>1, <1>4, UptoIsACase
  <2>2. QED
    BY <1>2, <2>1, TargetsAssumption
<1>7. /\ SetUp(target, current) /\ journal.failure = None
      /\ Records(target, journal.steps, current, pos)
      /\ CalmBefore(target, current, pos)
      /\ pos > 0 => ~BadEffect(target, current, pos)
      /\ ~BadCheck(target, current, pos)
  BY <1>1 DEF InFlight
<1>8. CalmBefore(target, current, pos + 1)
  <2>1. ASSUME NEW l \in 0..pos
        PROVE  ~BadAt(target, current, l)
    <3>1. CASE l = pos
      BY <1>7, <3>1 DEF BadAt
    <3>2. CASE l # pos
      BY <1>2, <1>7, <3>2 DEF CalmBefore
    <3>3. QED
      BY <3>1, <3>2
  <2>2. QED
    BY <1>2, <2>1 DEF CalmBefore
<1>9. ~shrinking => seen' = pos + 1
  BY <1>1 DEF Act, IInv, Progress
<1>10. QED
  BY <1>1, <1>2, <1>4, <1>5, <1>6, <1>7, <1>8, <1>9

\* An action keeps the journal in step with the case.
LEMMA ActCase == IInv /\ InFlight /\ Act => InFlight' /\ Failed'
<1> SUFFICES ASSUME IInv, InFlight, Act
             PROVE  InFlight' /\ Failed'
  OBVIOUS
<1> DEFINE k      == pos + 1
           action == current.actions[k]
           effect == Execute(target, Upto(current, k))
           begun  == PushCall(BeginStep(journal, pos, action), effect.breach)
<1>1. /\ target \in Targets /\ current \in CaseSpace /\ journal \in Journals(Actions)
      /\ pos \in Nat /\ k \in 1..Len(current.actions)
      /\ action \in Actions
      /\ effect \in Effects
      /\ SetUp(target, current) /\ journal.failure = None
      /\ Records(target, journal.steps, current, pos)
      /\ CalmBefore(target, current, k)
      /\ (~shrinking => seen' = k)
  BY ActFacts
<1>2. /\ target' = target /\ current' = current /\ shrinking' = shrinking
      /\ pos' = k
      /\ journal' = CASE effect.result = "panics" -> begun
                      [] effect.result = "violation" ->
                           Fail(FinishStep(begun, "violation"), "unexpected-error")
                      [] OTHER -> FinishStep(begun, effect.result)
      /\ phase' = IF effect.result \in {"violation", "panics"}
                  THEN "failed" ELSE "check"
  BY Zenon DEF Act, inputs, driver
<1>3. /\ effect.breach \in BOOLEAN
      /\ effect.result \in {"ok", "rejected", "violation", "panics"}
  BY <1>1 DEF Effects
<1>4. /\ Result(target, current, k) = effect.result
      /\ StepOf(target, current, k)
           = [index |-> pos, action |-> action,
              outcome |-> IF effect.result = "panics" THEN "pending" ELSE effect.result,
              breach |-> effect.breach]
      /\ BadEffect(target, current, k) <=> effect.result \in {"violation", "panics"}
  BY <1>1 DEF Result, StepOf, BadEffect
<1>5. k \in 0..Len(current.actions) /\ k > 0 /\ k \in Nat
  BY <1>1
<1>6. BeginStep(journal, pos, action) \in Journals(Actions)
      /\ BeginStep(journal, pos, action).steps # <<>>
  BY <1>1, BeginStepType
<1>7. begun \in Journals(Actions)
  BY <1>3, <1>6, PushCallType
<1> HIDE DEF k, action, effect
<1>8. ASSUME NEW result \in Outcomes
      PROVE  /\ Extends(begun.steps, journal.steps,
                        [index |-> pos, action |-> action,
                         outcome |-> "pending", breach |-> effect.breach])
             /\ begun.failure = journal.failure
             /\ Extends(FinishStep(begun, result).steps, journal.steps,
                        [index |-> pos, action |-> action,
                         outcome |-> result, breach |-> effect.breach])
             /\ FinishStep(begun, result).failure = journal.failure
  BY <1>1, <1>3, <1>8, StepTaken
<1> HIDE DEF begun
<1>9. CASE effect.result = "panics"
  <2>1. journal' = begun /\ phase' = "failed"
    BY <1>2, <1>9
  <2>2. Extends(begun.steps, journal.steps, StepOf(target, current, k))
        /\ begun.failure = None
    BY <1>1, <1>4, <1>8, <1>9 DEF Outcomes
  <2>3. Records(target, begun.steps, current, k)
    BY <1>1, <2>2, RecordsExtend DEF k
  <2>4. FailsAt(target, current, k)
    BY <1>1, <1>4, <1>5, <1>9 DEF FailsAt, BadAt
  <2>5. Noted(target, begun, current, k)
    BY <1>4, <1>5, <1>9, <2>2 DEF Noted
  <2>6. Describes(target, begun, current, k)
    BY <2>3, <2>4, <2>5 DEF Describes
  <2>7. QED
    BY <1>1, <1>2, <2>1, <2>6 DEF InFlight, Failed
<1>10. CASE effect.result = "violation"
  <2> DEFINE ended == FinishStep(begun, "violation")
  <2>1. journal' = Fail(ended, "unexpected-error") /\ phase' = "failed"
    BY <1>2, <1>10
  <2>2. "violation" \in Outcomes /\ "unexpected-error" \in Kinds
    BY DEF Outcomes, Kinds
  <2>3. ended \in Journals(Actions)
    BY <1>7, <2>2, FinishStepType
  <2>4. Extends(ended.steps, journal.steps, StepOf(target, current, k))
    BY <1>4, <1>8, <1>10, <2>2
  <2> HIDE DEF ended
  <2>5. /\ journal'.steps = ended.steps /\ journal'.failure # None
        /\ journal'.failure.kind = "unexpected-error"
    BY <2>1, <2>2, <2>3, FailNote
  <2>6. Records(target, journal'.steps, current, k)
    BY <1>1, <2>4, <2>5, RecordsExtend DEF k
  <2>7. FailsAt(target, current, k)
    BY <1>1, <1>4, <1>5, <1>10 DEF FailsAt, BadAt
  <2>8. Noted(target, journal', current, k)
    BY <1>4, <1>5, <1>10, <2>5 DEF Noted
  <2>9. Describes(target, journal', current, k)
    BY <2>6, <2>7, <2>8 DEF Describes
  <2>10. QED
    BY <1>1, <1>2, <2>1, <2>9 DEF InFlight, Failed
<1>11. CASE effect.result \in {"ok", "rejected"}
  <2> DEFINE ended == FinishStep(begun, effect.result)
  <2>1. journal' = ended /\ phase' = "check"
    BY <1>2, <1>11
  <2>2. effect.result \in Outcomes
    BY <1>11 DEF Outcomes
  <2>3. Extends(ended.steps, journal.steps, StepOf(target, current, k))
        /\ ended.failure = None
    BY <1>1, <1>4, <1>8, <1>11, <2>2
  <2> HIDE DEF ended
  <2>4. Records(target, ended.steps, current, k)
    BY <1>1, <2>3, RecordsExtend DEF k
  <2>5. ~BadEffect(target, current, k)
    BY <1>4, <1>11
  <2>6. QED
    BY <1>1, <1>2, <2>1, <2>3, <2>4, <2>5 DEF InFlight, Failed
<1>12. QED
  BY <1>3, <1>9, <1>10, <1>11

\* So does a pass over the invariants.
LEMMA CheckCase == IInv /\ InFlight /\ CheckInvariants => InFlight' /\ Failed'
<1> SUFFICES ASSUME IInv, InFlight, CheckInvariants
             PROVE  InFlight' /\ Failed'
  OBVIOUS
<1> DEFINE check == Check(target, Upto(current, pos))
<1>1. /\ phase = "check" /\ current \in CaseSpace /\ pos <= Len(current.actions)
      /\ ~shrinking => seen = pos
      /\ target \in Targets /\ journal \in Journals(Actions)
      /\ pos \in Nat
  BY MaxActionsAssumption DEF CheckInvariants, IInv, Progress, TypeOK
<1>2. Len(current.actions) \in Nat /\ pos \in 0..Len(current.actions)
  BY <1>1, CaseFields, MaxActionsAssumption
<1>3. /\ SetUp(target, current) /\ journal.failure = None
      /\ Records(target, journal.steps, current, pos)
      /\ CalmBefore(target, current, pos)
      /\ pos > 0 => ~BadEffect(target, current, pos)
  BY <1>1 DEF InFlight
<1>4. check \in Checks
  <2>1. Upto(current, pos) \in CaseSpace
    BY <1>1, <1>2, UptoIsACase
  <2>2. QED
    BY <1>1, <2>1, TargetsAssumption
<1>5. BadCheck(target, current, pos) <=> check \in {"broken", "writes", "panics"}
  BY DEF BadCheck
<1>6. /\ target' = target /\ current' = current /\ shrinking' = shrinking
      /\ pos' = pos /\ seen' = seen
      /\ journal' = IF Breaks(check) THEN Fail(journal, "invariant") ELSE journal
      /\ phase' = AfterCheck(check)
  BY Zenon DEF CheckInvariants, inputs, driver
<1>7. check = Check(target, Upto(current, pos))
  OBVIOUS
<1> HIDE DEF check
<1>8. CASE check \in {"broken", "writes", "panics"}
  <2>1. phase' = "failed"
    BY <1>6, <1>8 DEF AfterCheck, Breaks
  <2>2. FailsAt(target, current, pos)
    BY <1>2, <1>3, <1>5, <1>8 DEF FailsAt, BadAt
  <2>3. journal'.steps = journal.steps /\ Noted(target, journal', current, pos)
    <3>1. CASE check = "panics"
      BY <1>3, <1>6, <1>7, <3>1 DEF Breaks, Noted
    <3>2. CASE check # "panics"
      <4>1. "invariant" \in Kinds /\ journal' = Fail(journal, "invariant")
        BY <1>6, <1>8, <3>2 DEF Breaks, Kinds
      <4>2. /\ journal'.steps = journal.steps /\ journal'.failure # None
            /\ journal'.failure.kind = "invariant"
        BY <1>1, <4>1, FailNote
      <4>3. QED
        BY <1>3, <1>7, <3>2, <4>2 DEF Noted
    <3>3. QED
      BY <3>1, <3>2
  <2>4. Describes(target, journal', current, pos)
    BY <1>3, <2>2, <2>3 DEF Describes
  <2>5. QED
    BY <1>1, <1>3, <1>6, <2>1, <2>4 DEF InFlight, Failed
<1>9. CASE check \notin {"broken", "writes", "panics"}
  <2>1. journal' = journal /\ phase' \in {"act", "return"}
        /\ (phase' = "return" => ~(pos < Len(current.actions)))
    BY <1>6, <1>9 DEF AfterCheck, Breaks
  <2>2. phase' = "return" => pos = Len(current.actions)
    BY <1>1, <1>2, <2>1
  <2>3. ~BadCheck(target, current, pos)
    BY <1>5, <1>9
  <2>4. QED
    BY <1>3, <1>6, <2>1, <2>2, <2>3 DEF InFlight, Failed
<1>10. QED
  BY <1>8, <1>9

LEMMA CaseStep == IInv /\ InFlight /\ Failed /\ [Next]_vars => InFlight' /\ Failed'
<1> SUFFICES ASSUME IInv, InFlight, Failed, [Next]_vars
             PROVE  InFlight' /\ Failed'
  OBVIOUS
<1>1. ASSUME phase' \notin {"check", "act", "return", "failed"}
      PROVE  InFlight' /\ Failed'
  BY <1>1 DEF InFlight, Failed
<1>2. CASE Start \/ Generate \/ AbortGeneration \/ Finish \/ SkipCase
           \/ ReturnCase \/ NextCase \/ Minimal \/ GiveUp
  BY <1>1, <1>2 DEF Start, Generate, AbortGeneration, Finish, SkipCase, ReturnCase,
     NextCase, Minimal, GiveUp, Report
<1>3. CASE DropUnseen \/ Simplify \/ Complicate
  BY <1>1, <1>3, RerunFacts DEF DropUnseen, Simplify, Complicate
<1>4. CASE SetupPanics
  BY <1>4 DEF SetupPanics, InFlight, Failed, inputs
<1>5. CASE BeginCase
  <2>1. /\ phase' = "check" /\ target' = target /\ current' = current
        /\ SetUp(target, current)
        /\ journal' = EmptyJournal /\ pos' = 0
    BY <1>5 DEF BeginCase, inputs, Reset, SetUp
  <2>2. /\ journal'.failure = None
        /\ Records(target, journal'.steps, current, 0)
        /\ CalmBefore(target, current, 0)
    BY <2>1 DEF EmptyJournal, Records, CalmBefore
  <2>3. QED
    BY <2>1, <2>2 DEF InFlight, Failed
<1>6. CASE CheckInvariants
  BY <1>6, CheckCase
<1>7. CASE Act
  BY <1>7, ActCase
<1>8. CASE UNCHANGED vars
  BY <1>8 DEF vars, InFlight, Failed
<1>9. QED
  BY <1>2, <1>3, <1>4, <1>5, <1>6, <1>7, <1>8 DEF Next

-----------------------------------------------------------------------------
(* The failing case *)

\* A case that runs to its end does not fail.
LEMMA ReturnedHolds ==
  ASSUME IInv, InFlight, phase = "return"
  PROVE  ~CaseFails(target, current)
<1>1. /\ SetUp(target, current) /\ pos = Len(current.actions)
      /\ CalmBefore(target, current, pos)
      /\ pos > 0 => ~BadEffect(target, current, pos)
      /\ ~BadCheck(target, current, pos)
  BY DEF InFlight
<1>2. current \in CaseSpace
  BY DEF IInv, Progress
<1>3. Len(current.actions) \in Nat
  BY <1>2, CaseFields, MaxActionsAssumption
<1>4. ASSUME NEW l \in 0..Len(current.actions)
      PROVE  ~BadAt(target, current, l)
  <2>1. CASE l = pos
    BY <1>1, <2>1 DEF BadAt
  <2>2. CASE l # pos
    BY <1>1, <1>3, <2>2 DEF CalmBefore
  <2>3. QED
    BY <2>1, <2>2
<1>5. QED
  BY <1>1, <1>4 DEF CaseFails, SetUp

\* What the shrinker starts from when a case has failed: it fails, is
\* reduced from that case, and the journal is its own.
LEMMA ExecutedFacts ==
  ASSUME IInv, Failed, phase = "failed"
  PROVE  /\ current \in CaseSpace /\ Executed \in CaseSpace
         /\ CaseFails(target, current)
         /\ CaseFails(target, Executed)
         /\ Search!Reduces(Executed, current)
         /\ SetUp(target, Executed) =>
              \E k \in 0..Len(Executed.actions) : Describes(target, journal, Executed, k)
<1>1. current \in CaseSpace /\ Executed \in CaseSpace
  BY ExecutedType DEF IInv
<1>2. CASE Setup(target, current.initial) = "panics"
  <2>1. CaseFails(target, current) /\ ~SetUp(target, current)
    BY <1>2 DEF CaseFails, SetUp
  <2>2. CASE shrinking
    BY <1>1, <2>1, <2>2, ReducesRefl DEF Executed
  <2>3. CASE ~shrinking
    <3>1. seen \in 0..Len(current.actions)
      BY <2>3, MaxActionsAssumption DEF IInv, Progress, TypeOK
    <3>2. Executed = Upto(current, seen) /\ Executed.initial = current.initial
      BY <1>1, <2>3, <3>1, UptoFields DEF Executed
    <3>3. CaseFails(target, Executed) /\ ~SetUp(target, Executed)
      BY <1>2, <3>2 DEF CaseFails, SetUp
    <3>4. Search!Reduces(Executed, current)
      BY <1>1, <3>1, <3>2, UptoReduces
    <3>5. QED
      BY <1>1, <2>1, <3>3, <3>4
  <2>4. QED
    BY <2>2, <2>3
<1>3. CASE /\ Describes(target, journal, current, pos)
           /\ ~shrinking => seen = pos
  <2>1. FailsAt(target, current, pos) /\ pos \in 0..Len(current.actions)
    BY <1>3 DEF Describes, FailsAt
  <2>2. CaseFails(target, current)
    BY <1>1, <2>1, FailsAtFails
  <2>3. CASE shrinking
    BY <1>1, <1>3, <2>1, <2>2, <2>3, ReducesRefl DEF Executed
  <2>4. CASE ~shrinking
    <3>1. Executed = Upto(current, pos)
      BY <1>3, <2>4 DEF Executed
    <3>2. /\ pos \in 0..Len(Executed.actions)
          /\ Describes(target, journal, Executed, pos)
      BY <1>1, <1>3, <3>1, DescribesUpto
    <3>3. CaseFails(target, Executed)
      BY <1>1, <3>2, FailsAtFails DEF Describes
    <3>4. Search!Reduces(Executed, current)
      BY <1>1, <2>1, <3>1, UptoReduces
    <3>5. QED
      BY <1>1, <2>2, <3>2, <3>3, <3>4
  <2>5. QED
    BY <2>3, <2>4
<1>4. QED
  BY <1>2, <1>3 DEF Failed

-----------------------------------------------------------------------------
(* The search *)

\* The shrinker's first candidates come from the failing case.
LEMMA FromTheFailure ==
  ASSUME IInv, Failed, DropUnseen \/ Simplify
  PROVE  /\ phase = "failed"
         /\ Rerun(current', undo')
         /\ shrinking'
         /\ current' \in CaseSpace
         /\ undo' \in CaseSpace \cup {None}
         /\ LastFailing' = Executed
         /\ Search!Reduces(current', Executed)
         /\ UNCHANGED <<target, config, generated, index, seen, pos, journal, tally>>
<1>1. phase = "failed"
  BY DEF DropUnseen, Simplify
<1>2. current \in CaseSpace /\ Executed \in CaseSpace
  BY <1>1, ExecutedFacts
<1>3. UNCHANGED <<target, config, generated, index, seen, pos, journal, tally>>
  BY DEF DropUnseen, Simplify, inputs
<1>4. CASE DropUnseen
  <2>1. Rerun(Executed, None)
    BY <1>4 DEF DropUnseen
  <2>2. current' = Executed /\ undo' = None /\ shrinking'
    BY <2>1 DEF Rerun
  <2>3. Search!Reduces(Executed, Executed)
    BY <1>2, ReducesRefl
  <2>4. QED
    BY <1>1, <1>2, <1>3, <2>1, <2>2, <2>3 DEF LastFailing
<1>5. CASE Simplify
  <2>1. PICK c \in Deletions(Executed) \cup Replacements(Executed) : Rerun(c, Executed)
    BY <1>5 DEF Simplify
  <2>2. current' = c /\ undo' = Executed /\ shrinking'
    BY <2>1 DEF Rerun
  <2>3. c \in CaseSpace /\ Search!Reduces(c, Executed)
    BY <1>2, <2>1, DeletionsAreCases, ReplacementsAreCases, DeletionsReduce,
       ReplacementsReduce
  <2>4. Executed # None
    BY <1>2, NoneAssumption
  <2>5. QED
    BY <1>1, <1>2, <1>3, <2>1, <2>2, <2>3, <2>4 DEF LastFailing
<1>6. QED
  BY <1>4, <1>5

\* And the later ones from the last that failed.
LEMMA BackToTheFailure ==
  ASSUME IInv, Complicate
  PROVE  /\ phase = "passed" /\ shrinking
         /\ undo \in CaseSpace
         /\ Rerun(current', undo')
         /\ shrinking'
         /\ current' \in CaseSpace
         /\ undo' \in CaseSpace \cup {None}
         /\ LastFailing = undo
         /\ LastFailing' = undo
         /\ Search!Reduces(current', undo)
         /\ UNCHANGED <<target, config, generated, index, seen, pos, journal, tally>>
<1>1. phase = "passed" /\ shrinking /\ undo \in CaseSpace /\ undo # None
  BY DEF Complicate, IInv, TypeOK
<1>2. UNCHANGED <<target, config, generated, index, seen, pos, journal, tally>>
  BY DEF Complicate, inputs
<1>3. PICK c \in {undo} \cup {d \in Replacements(undo) : current \in Replacements(d)} :
        Rerun(c, IF c = undo THEN None ELSE undo)
  BY DEF Complicate
<1>4. current' = c /\ undo' = (IF c = undo THEN None ELSE undo) /\ shrinking'
  BY <1>3 DEF Rerun
<1>5. c \in CaseSpace /\ Search!Reduces(c, undo)
  BY <1>1, <1>3, ReplacementsAreCases, ReplacementsReduce, ReducesRefl
<1>6. QED
  BY <1>1, <1>2, <1>3, <1>4, <1>5 DEF LastFailing


\* The run has an outcome once it is over, and not before.
LEMMA OverStep == IInv /\ Failed /\ Over /\ [Next]_vars => Over'
<1> SUFFICES ASSUME IInv, Failed, Over, [Next]_vars
             PROVE  Over'
  OBVIOUS
<1>1. ASSUME outcome' \in FuzzOutcomes, phase' = "done"
      PROVE  Over'
  BY <1>1, NoneAssumption DEF Over
<1>2. ASSUME outcome' = outcome, phase # "done", phase' # "done"
      PROVE  Over'
  BY <1>2 DEF Over
<1>3. ASSUME NEW case \in CaseSpace, Report(case)
      PROVE  Over'
  BY <1>1, <1>3, ReportType DEF Report, IInv
<1>4. CASE Start
  BY <1>1, <1>2, <1>4 DEF Start, FuzzOutcomes
<1>5. CASE AbortGeneration
  BY <1>1, <1>5 DEF AbortGeneration, FuzzOutcomes
<1>6. CASE Finish
  <2>1. Warning(tally, config.warnAbove) \in Ranks \cup {None}
    BY WorstKindExists DEF Warning, IInv, TypeOK
  <2>2. (IF config.replay = None THEN config.cases ELSE 1) \in Nat /\ tally.stats \in Stats
    BY ConfigsAssumption DEF IInv, TypeOK
  <2>3. outcome' \in FuzzOutcomes
    BY <1>6, <2>1, <2>2 DEF Finish, FuzzOutcomes
  <2>4. QED
    BY <1>1, <1>6, <2>3 DEF Finish
<1>7. CASE Minimal \/ GiveUp
  BY <1>3, <1>7 DEF Minimal, GiveUp, IInv, Progress
<1>8. CASE DropUnseen \/ Simplify \/ Complicate
  <2>1. /\ phase # "done" /\ Rerun(current', undo')
        /\ current' \in CaseSpace /\ undo' \in CaseSpace \cup {None}
    BY <1>8, FromTheFailure, BackToTheFailure
  <2>2. CASE BudgetSpent
    BY <1>3, <2>1, <2>2 DEF Rerun
  <2>3. CASE ~BudgetSpent
    BY <1>2, <2>1, <2>3 DEF Rerun
  <2>4. QED
    BY <2>2, <2>3
<1>9. CASE Generate \/ SkipCase \/ SetupPanics \/ BeginCase \/ CheckInvariants \/ Act
           \/ ReturnCase \/ NextCase
  BY <1>2, <1>9 DEF Generate, SkipCase, SetupPanics, BeginCase, CheckInvariants, AfterCheck,
     Act, ReturnCase, NextCase
<1>10. CASE UNCHANGED vars
  BY <1>10 DEF vars, Over
<1>11. QED
  BY <1>4, <1>5, <1>6, <1>7, <1>8, <1>9, <1>10 DEF Next

\* A case the closure skips is not one the run was to run.
LEMMA SkippedIsNotRun ==
  ASSUME IInv, SkipCase, ~shrinking
  PROVE  /\ config.replay # None
         /\ ~Search!Runs(Len(generated))
<1>1. config.replay # None /\ index # config.replay
  BY DEF SkipCase, Skips
<1>2. Len(generated) = index + 1
  BY DEF SkipCase, IInv, Indexing
<1>3. config.replay \in Nat /\ index \in Nat
  BY <1>1, ConfigsAssumption DEF IInv, TypeOK
<1>4. QED
  BY <1>1, <1>2, <1>3 DEF Search!Runs

\* The cases drawn before the one in flight were run and hold, or were not
\* to be run.
LEMMA DrawnStep ==
  IInv /\ InFlight /\ Drawn /\ [Next]_vars => Drawn'
<1> SUFFICES ASSUME IInv, InFlight, Drawn, [Next]_vars, ~shrinking'
             PROVE  Drawn'
  BY DEF Drawn
<1>1. ASSUME UNCHANGED <<target, config, generated, shrinking>>,
             \/ /\ phase \in {"start", "generate", "passed"}
                /\ phase' \in {"start", "generate", "passed"}
             \/ /\ phase \in {"invoke", "check", "act", "return", "failed"}
                /\ phase' \in {"invoke", "check", "act", "return", "failed"}
             \/ phase' = "done"
      PROVE  Drawn'
  BY <1>1 DEF Drawn, Search!FailureAt, Search!Runs
<1>2. ASSUME UNCHANGED <<target, config, generated, shrinking>>,
             phase \in {"invoke", "return"}, phase' = "passed",
             ~Search!FailureAt(Len(generated))
      PROVE  Drawn'
  <2>1. generated # <<>> /\ \A k \in 1..(Len(generated) - 1) : ~Search!FailureAt(k)
    BY <1>2 DEF Drawn
  <2>2. \A k \in 1..Len(generated) : ~Search!FailureAt(k)
    <3>1. Len(generated) \in Nat
      BY DEF IInv, TypeOK
    <3>2. ASSUME NEW k \in 1..Len(generated)
          PROVE  ~Search!FailureAt(k)
      <4>1. CASE k = Len(generated)
        BY <1>2, <4>1
      <4>2. CASE k # Len(generated)
        BY <2>1, <3>1, <4>2
      <4>3. QED
        BY <4>1, <4>2
    <3>3. QED
      BY <3>2
  <2>3. QED
    BY <1>2, <2>2 DEF Drawn, Search!FailureAt, Search!Runs
<1>3. CASE Start
  BY <1>1, <1>3 DEF Start, inputs, driver
<1>4. CASE Generate
  <2>1. PICK case \in CaseSpace : generated' = Append(generated, case)
    BY <1>4 DEF Generate
  <2>2. /\ phase = "generate" /\ phase' = "invoke"
        /\ UNCHANGED <<target, config, shrinking>>
    BY <1>4 DEF Generate, inputs
  <2>3. generated \in Seq(CaseSpace)
    BY DEF IInv, TypeOK
  <2>4. /\ generated' # <<>> /\ Len(generated') - 1 = Len(generated)
        /\ \A k \in 1..Len(generated) : generated'[k] = generated[k]
    BY <2>1, <2>3
  <2>5. \A k \in 1..Len(generated) : ~Search!FailureAt(k)
    BY <2>2 DEF Drawn
  <2>6. QED
    BY <2>2, <2>4, <2>5 DEF Drawn, Search!FailureAt, Search!Runs
<1>5. CASE SkipCase
  <2>1. /\ phase = "invoke" /\ phase' = "passed"
        /\ UNCHANGED <<target, config, generated, shrinking>>
    BY <1>5 DEF SkipCase, inputs, driver
  <2>2. ~Search!FailureAt(Len(generated))
    BY <1>5, <2>1, SkippedIsNotRun DEF Search!FailureAt
  <2>3. QED
    BY <1>2, <2>1, <2>2
<1>6. CASE ReturnCase
  <2>1. /\ phase = "return" /\ phase' = "passed"
        /\ UNCHANGED <<target, config, generated, shrinking>>
    BY <1>6 DEF ReturnCase, inputs, driver
  <2>2. current = generated[Len(generated)]
    BY <2>1 DEF IInv, Indexing
  <2>3. ~Search!FailureAt(Len(generated))
    BY <2>1, <2>2, ReturnedHolds DEF Search!FailureAt
  <2>4. QED
    BY <1>2, <2>1, <2>3
<1>7. CASE AbortGeneration \/ Finish \/ SetupPanics \/ BeginCase \/ CheckInvariants \/ Act
           \/ NextCase \/ Minimal \/ GiveUp
  <2>1. UNCHANGED <<target, config, generated, shrinking>>
    BY <1>7 DEF AbortGeneration, Finish, SetupPanics, BeginCase, CheckInvariants, Act,
       NextCase, Minimal, GiveUp, inputs, driver
  <2>2. \/ /\ phase \in {"start", "generate", "passed"}
           /\ phase' \in {"start", "generate", "passed"}
        \/ /\ phase \in {"invoke", "check", "act", "return", "failed"}
           /\ phase' \in {"invoke", "check", "act", "return", "failed"}
        \/ phase' = "done"
    BY <1>7 DEF AbortGeneration, Finish, SetupPanics, BeginCase, CheckInvariants,
       AfterCheck, Act, NextCase, Minimal, GiveUp, Report
  <2>3. QED
    BY <1>1, <2>1, <2>2
<1>8. CASE DropUnseen \/ Simplify \/ Complicate
  BY <1>8, RerunFacts DEF DropUnseen, Simplify, Complicate
<1>9. CASE UNCHANGED vars
  BY <1>9 DEF vars, Drawn, Search!FailureAt, Search!Runs
<1>10. QED
  BY <1>3, <1>4, <1>5, <1>6, <1>7, <1>8, <1>9 DEF Next

\* While nothing the shrinker has found changes.
LEMMA StaysShrunk ==
  ASSUME Shrunk, UNCHANGED <<target, config, generated, shrinking, current, undo>>,
         config.replay = None \/ journal' = journal,
         config.replay = None /\ phase' = "passed" => undo # None
  PROVE  Shrunk'
<1>1. LastFailing' = LastFailing
  BY DEF LastFailing
<1>2. shrinking =>
        /\ generated # <<>>
        /\ Search!FailureAt(Len(generated))
        /\ current \in CaseSpace
        /\ CaseFails(target, LastFailing)
        /\ Search!Reduces(LastFailing, generated[Len(generated)])
        /\ Search!Reduces(current, generated[Len(generated)])
        /\ config.replay # None /\ SetUp(target, LastFailing) =>
             \E k \in 0..Len(LastFailing.actions) :
               Describes(target, journal, LastFailing, k)
  BY DEF Shrunk
<1>3. QED
  BY <1>1, <1>2 DEF Shrunk, Search!FailureAt, Search!Runs

\* A failing case is the one drawn last, or reduced from it.
LEMMA FailedIsReduced ==
  ASSUME IInv, Failed, Shrunk, Drawn, phase = "failed"
  PROVE  /\ generated # <<>> /\ generated[Len(generated)] \in CaseSpace
         /\ Search!FailureAt(Len(generated))
         /\ Search!Reduces(current, generated[Len(generated)])
<1>1. generated # <<>> /\ generated[Len(generated)] \in CaseSpace
  <2>1. generated # <<>>
    BY DEF Shrunk, Drawn
  <2>2. QED
    BY <2>1 DEF IInv, TypeOK
<1>2. CASE shrinking
  BY <1>1, <1>2 DEF Shrunk
<1>3. CASE ~shrinking
  <2>1. current = generated[Len(generated)] /\ index = Len(generated)
    BY <1>3 DEF IInv, Indexing
  <2>2. config.replay # None => Len(generated) = config.replay + 1
    BY <2>1 DEF IInv, Indexing
  <2>3. CaseFails(target, current)
    BY ExecutedFacts
  <2>4. QED
    BY <1>1, <2>1, <2>2, <2>3, ReducesRefl DEF Search!FailureAt, Search!Runs
<1>4. QED
  BY <1>2, <1>3

\* The first candidate is reduced from the case that failed, which is the
\* one drawn last; later ones from what was left of it.
LEMMA ShrinksFurther ==
  ASSUME IInv, Failed, Shrunk, Drawn, DropUnseen \/ Simplify
  PROVE  Shrunk'
<1>1. /\ phase = "failed"
      /\ shrinking'
      /\ current' \in CaseSpace
      /\ LastFailing' = Executed
      /\ Search!Reduces(current', Executed)
      /\ Rerun(current', undo')
      /\ UNCHANGED <<target, config, generated, journal>>
  BY FromTheFailure
<1>2. /\ current \in CaseSpace /\ Executed \in CaseSpace
      /\ CaseFails(target, current)
      /\ CaseFails(target, Executed)
      /\ Search!Reduces(Executed, current)
      /\ SetUp(target, Executed) =>
           \E k \in 0..Len(Executed.actions) : Describes(target, journal, Executed, k)
  BY <1>1, ExecutedFacts
<1>3. /\ generated # <<>> /\ generated[Len(generated)] \in CaseSpace
      /\ Search!FailureAt(Len(generated))
      /\ Search!Reduces(current, generated[Len(generated)])
  BY <1>1, FailedIsReduced
<1>4. Search!Reduces(Executed, generated[Len(generated)])
  BY <1>2, <1>3, ReducesTrans
<1>5. Search!Reduces(current', generated[Len(generated)])
  BY <1>1, <1>2, <1>3, <1>4, ReducesTrans
<1>6. phase' # "passed"
  BY <1>1 DEF Rerun, Report
<1>7. QED
  BY <1>1, <1>2, <1>3, <1>4, <1>5, <1>6
  DEF Shrunk, Search!FailureAt, Search!Runs

LEMMA GoesBack ==
  ASSUME IInv, Shrunk, Complicate
  PROVE  Shrunk'
<1>1. /\ shrinking /\ shrinking'
      /\ undo \in CaseSpace
      /\ current' \in CaseSpace
      /\ LastFailing = undo
      /\ LastFailing' = LastFailing
      /\ Search!Reduces(current', undo)
      /\ Rerun(current', undo')
      /\ UNCHANGED <<target, config, generated, journal>>
  BY BackToTheFailure
<1>2. /\ generated # <<>>
      /\ Search!FailureAt(Len(generated))
      /\ CaseFails(target, LastFailing)
      /\ Search!Reduces(LastFailing, generated[Len(generated)])
      /\ config.replay # None /\ SetUp(target, LastFailing) =>
           \E k \in 0..Len(LastFailing.actions) :
             Describes(target, journal, LastFailing, k)
  BY <1>1 DEF Shrunk
<1>3. generated[Len(generated)] \in CaseSpace
  BY <1>2 DEF IInv, TypeOK
<1>4. Search!Reduces(current', generated[Len(generated)])
  BY <1>1, <1>2, <1>3, ReducesTrans
<1>5. phase' # "passed"
  BY <1>1 DEF Rerun, Report
<1>6. QED
  BY <1>1, <1>2, <1>4, <1>5 DEF Shrunk, Search!FailureAt, Search!Runs

LEMMA ShrunkStep ==
  IInv /\ InFlight /\ Failed /\ Shrunk /\ Drawn /\ [Next]_vars => Shrunk'
<1> SUFFICES ASSUME IInv, InFlight, Failed, Shrunk, Drawn, [Next]_vars
             PROVE  Shrunk'
  OBVIOUS
<1>1. ASSUME ~shrinking, UNCHANGED shrinking
      PROVE  Shrunk'
  BY <1>1 DEF Shrunk
<1>2. CASE Start \/ Generate \/ AbortGeneration \/ Finish \/ NextCase
  BY <1>1, <1>2 DEF Start, Generate, AbortGeneration, Finish, NextCase, driver,
     IInv, Indexing
<1>3. CASE SkipCase
  <2>1. config.replay # None /\ journal' = journal
        /\ UNCHANGED <<target, config, generated, shrinking, current, undo>>
    BY <1>3 DEF SkipCase, Skips, inputs, driver
  <2>2. QED
    BY <2>1, StaysShrunk
<1>4. CASE SetupPanics \/ Minimal \/ GiveUp
  <2>1. phase' # "passed" /\ journal' = journal
        /\ UNCHANGED <<target, config, generated, shrinking, current, undo>>
    BY <1>4 DEF SetupPanics, Minimal, GiveUp, Report, inputs, driver
  <2>2. QED
    BY <2>1, StaysShrunk
<1>5. CASE BeginCase \/ CheckInvariants \/ Act
  <2>1. /\ phase' # "passed"
        /\ UNCHANGED <<target, config, generated, shrinking, current, undo>>
    BY <1>5 DEF BeginCase, CheckInvariants, AfterCheck, Act, inputs, driver
  <2>2. config.replay # None => ~shrinking
    <3>1. CASE BeginCase
      BY <3>1, NotSkipped DEF BeginCase, IInv
    <3>2. CASE CheckInvariants \/ Act
      BY <3>2 DEF CheckInvariants, Act, IInv, Indexing
    <3>3. QED
      BY <1>5, <3>1, <3>2
  <2>3. QED
    BY <1>1, <2>1, <2>2, StaysShrunk
<1>6. CASE ReturnCase
  <2>1. phase = "return" /\ journal' = journal
        /\ UNCHANGED <<target, config, generated, shrinking, current, undo>>
    BY <1>6 DEF ReturnCase, inputs, driver
  <2>2. ~CaseFails(target, current)
    BY <2>1, ReturnedHolds
  <2>3. shrinking => undo # None
    BY <2>2 DEF Shrunk, LastFailing
  <2>4. QED
    BY <1>1, <2>1, <2>3, StaysShrunk
<1>7. CASE DropUnseen \/ Simplify
  BY <1>7, ShrinksFurther
<1>8. CASE Complicate
  BY <1>8, GoesBack
<1>9. CASE UNCHANGED vars
  <2>1. UNCHANGED <<target, config, generated, shrinking, current, undo, journal, phase>>
    BY <1>9 DEF vars
  <2>2. (shrinking /\ config.replay = None /\ phase' = "passed") => undo # None
    BY <2>1 DEF Shrunk
  <2>3. QED
    BY <1>1, <2>1, <2>2, StaysShrunk
<1>10. QED
  BY <1>2, <1>3, <1>4, <1>5, <1>6, <1>7, <1>8, <1>9 DEF Next

LEMMA InitSearchInv == Init => SearchInv
BY DEF Init, SearchInv, InFlight, Failed, Shrunk, Drawn, Over

LEMMA SearchStep == IInv /\ SearchInv /\ [Next]_vars => SearchInv'
BY CaseStep, OverStep, DrawnStep, ShrunkStep DEF SearchInv

\* What a run knows of the case in flight, of the failing case and of the
\* cases drawn before it.
THEOREM RunSearches == Spec => [](IInv /\ SearchInv)
<1>1. IInv /\ SearchInv /\ [Next]_vars => (IInv /\ SearchInv)'
  BY TypeStep, ProgressStep, IndexingStep, SearchStep DEF IInv
<1>2. QED
  BY InitIInv, InitSearchInv, <1>1, PTL DEF Spec

-----------------------------------------------------------------------------
(* The answer and the report *)

\* The answer the search has been given so far.
Answer ==
  IF outcome = None THEN None
  ELSE IF outcome.kind = "failed" THEN <<"failed", outcome.report.minimal>>
  ELSE <<outcome.kind>>

\* A report is about the case handed to it.
LEMMA Answers ==
  ASSUME IInv, NEW case \in CaseSpace, Report(case)
  PROVE  Answer' = <<"failed", case>>
<1>1. outcome' = [kind |-> "failed", report |-> NewReport(case, journal, tally.stats)]
  BY DEF Report
<1>2. outcome' \in FuzzOutcomes
  BY ReportType DEF IInv
<1>3. outcome' # None /\ outcome'.kind = "failed" /\ outcome'.report.minimal = case
  BY <1>1, <1>2, NoneAssumption DEF NewReport
<1>4. QED
  BY <1>3 DEF Answer

\* The case reported fails and is reduced from the last one drawn.
LEMMA Finds ==
  ASSUME IInv, outcome = None, generated # <<>>,
         Search!FailureAt(Len(generated)),
         NEW case \in CaseSpace, Report(case), CaseFails(target, case),
         Search!Reduces(case, generated[Len(generated)]),
         UNCHANGED <<target, config, generated>>
  PROVE  Search!Find
<1>1. Answer' = <<"failed", case>>
  BY Answers
<1>2. QED
  BY <1>1 DEF Answer, Search!Find

\* Whatever step reports a case, the case fails, is reduced from the one the
\* run stopped at, and the journal is its own; only a shrinker that ran out
\* of budget after a candidate had passed leaves the journal of that one.
LEMMA WhatIsReported ==
  ASSUME IInv, SearchInv, Next, outcome = None, outcome' # None, outcome'.kind = "failed"
  PROVE  /\ phase # "done" /\ generated # <<>>
         /\ Search!FailureAt(Len(generated))
         /\ UNCHANGED <<target, config, generated, journal>>
         /\ \E case \in CaseSpace :
              /\ Report(case)
              /\ CaseFails(target, case)
              /\ Search!Reduces(case, generated[Len(generated)])
              /\ (phase = "failed" \/ ~BudgetSpent) /\ SetUp(target, case) =>
                   \E k \in 0..Len(case.actions) : Describes(target, journal, case, k)
<1>1. phase # "done"
  BY DEF SearchInv, Over
<1>2. SearchInv' /\ IInv'
  BY TypeStep, ProgressStep, IndexingStep, SearchStep DEF IInv
<1>3. ASSUME phase = "failed"
      PROVE  /\ current \in CaseSpace /\ Executed \in CaseSpace
             /\ CaseFails(target, current) /\ CaseFails(target, Executed)
             /\ generated # <<>>
             /\ Search!FailureAt(Len(generated))
             /\ Search!Reduces(current, generated[Len(generated)])
             /\ Search!Reduces(Executed, generated[Len(generated)])
             /\ SetUp(target, Executed) =>
                  \E k \in 0..Len(Executed.actions) : Describes(target, journal, Executed, k)
  <2>1. /\ current \in CaseSpace /\ Executed \in CaseSpace
        /\ CaseFails(target, current) /\ CaseFails(target, Executed)
        /\ Search!Reduces(Executed, current)
        /\ SetUp(target, Executed) =>
             \E k \in 0..Len(Executed.actions) : Describes(target, journal, Executed, k)
    BY <1>3, ExecutedFacts DEF SearchInv
  <2>2. /\ generated # <<>> /\ generated[Len(generated)] \in CaseSpace
        /\ Search!FailureAt(Len(generated))
        /\ Search!Reduces(current, generated[Len(generated)])
    BY <1>3, FailedIsReduced DEF SearchInv
  <2>3. QED
    BY <2>1, <2>2, ReducesTrans
<1>4. CASE Minimal
  <2>1. /\ phase = "failed" /\ Executed = current /\ Report(current)
        /\ UNCHANGED <<target, config, generated, journal>>
    BY <1>4 DEF Minimal, inputs, driver
  <2>2. QED
    BY <1>1, <1>3, <2>1
<1>5. CASE DropUnseen \/ Simplify
  <2>1. /\ phase = "failed" /\ Rerun(current', undo')
        /\ undo' \in CaseSpace \cup {None}
        /\ LastFailing' = Executed
        /\ UNCHANGED <<target, config, generated, journal>>
    BY <1>5, FromTheFailure DEF SearchInv
  <2>2. Report(Executed)
    <3>1. Report(IF undo' = None THEN current' ELSE undo')
      BY <2>1 DEF Rerun
    <3>2. QED
      BY <2>1, <3>1 DEF LastFailing
  <2>3. QED
    BY <1>1, <1>3, <2>1, <2>2
<1>6. CASE Complicate
  <2>1. /\ phase = "passed" /\ shrinking /\ undo \in CaseSpace
        /\ Rerun(current', undo')
        /\ LastFailing = undo /\ LastFailing' = undo
        /\ UNCHANGED <<target, config, generated, journal>>
    BY <1>6, BackToTheFailure
  <2>2. BudgetSpent /\ Report(undo)
    <3>1. BudgetSpent /\ Report(IF undo' = None THEN current' ELSE undo')
      BY <2>1 DEF Rerun
    <3>2. QED
      BY <2>1, <3>1 DEF LastFailing
  <2>3. /\ generated # <<>>
        /\ Search!FailureAt(Len(generated))
        /\ CaseFails(target, undo)
        /\ Search!Reduces(undo, generated[Len(generated)])
    BY <2>1 DEF SearchInv, Shrunk
  <2>4. QED
    BY <1>1, <2>1, <2>2, <2>3
<1>7. CASE GiveUp
  <2>1. /\ phase = "passed" /\ shrinking /\ undo = None /\ Report(current)
        /\ UNCHANGED <<target, config, generated, journal>>
    BY <1>7 DEF GiveUp, inputs, driver
  <2>2. /\ generated # <<>> /\ current \in CaseSpace
        /\ Search!FailureAt(Len(generated))
        /\ CaseFails(target, current)
        /\ Search!Reduces(current, generated[Len(generated)])
        /\ config.replay # None
        /\ SetUp(target, current) =>
             \E k \in 0..Len(current.actions) : Describes(target, journal, current, k)
    BY <2>1 DEF SearchInv, Shrunk, LastFailing
  <2>3. QED
    BY <1>1, <2>1, <2>2
<1>8. CASE Start \/ AbortGeneration \/ Finish
  BY <1>8 DEF Start, AbortGeneration, Finish
<1>9. CASE Generate \/ SkipCase \/ SetupPanics \/ BeginCase \/ CheckInvariants \/ Act
           \/ ReturnCase \/ NextCase
  BY <1>9 DEF Generate, SkipCase, SetupPanics, BeginCase, CheckInvariants, Act,
     ReturnCase, NextCase
<1>10. QED
  BY <1>4, <1>5, <1>6, <1>7, <1>8, <1>9 DEF Next

LEMMA InitSearches == Init => Search!Init
BY DEF Init, Search!Init

LEMMA StepSearches == IInv /\ SearchInv /\ [Next]_vars => [Search!Next]_(Search!vars)
<1> SUFFICES ASSUME IInv, SearchInv, [Next]_vars
             PROVE  Search!Next \/ UNCHANGED (Search!vars)
  OBVIOUS
<1>0. SearchInv' /\ IInv'
  BY TypeStep, ProgressStep, IndexingStep, SearchStep DEF IInv
<1>1. /\ phase # "done" <=> outcome = None
      /\ phase' # "done" <=> outcome' = None
  BY <1>0 DEF SearchInv, Over
<1>2. ASSUME UNCHANGED <<target, config, generated, outcome>>
      PROVE  UNCHANGED (Search!vars)
  BY <1>2 DEF Search!vars
<1>3. ASSUME outcome = None, outcome' # None, outcome' = [kind |-> "aborted"],
             UNCHANGED <<target, config, generated>>
      PROVE  Search!Next
  BY <1>3 DEF Search!Next, Search!Abort
<1>4. CASE Start
  <2>1. UNCHANGED <<target, config, generated>> /\ phase = "start"
        /\ \/ phase' = "done" /\ outcome' = [kind |-> "aborted"]
           \/ outcome' = outcome
    BY <1>4 DEF Start, inputs, driver
  <2>2. QED
    BY <1>1, <1>2, <1>3, <2>1
<1>5. CASE AbortGeneration
  <2>1. UNCHANGED <<target, config, generated>> /\ phase = "generate"
        /\ phase' = "done" /\ outcome' = [kind |-> "aborted"]
    BY <1>5 DEF AbortGeneration, inputs, driver
  <2>2. QED
    BY <1>1, <1>3, <2>1
<1>6. CASE Generate
  <2>1. /\ outcome = None /\ outcome' = None
        /\ phase = "generate"
        /\ Len(generated) < CasesToGenerate
        /\ \E case \in CaseSpace : generated' = Append(generated, case)
        /\ UNCHANGED <<target, config>>
    BY <1>1, <1>6 DEF Generate, inputs
  <2>2. \A k \in 1..Len(generated) : ~Search!FailureAt(k)
    BY <2>1 DEF SearchInv, Drawn, IInv, Indexing
  <2>3. QED
    BY <2>1, <2>2 DEF Search!Next, Search!Draw, Search!Budget, CasesToGenerate
<1>7. CASE Finish
  <2>1. /\ outcome = None /\ outcome' # None
        /\ outcome'.kind = "passed"
        /\ phase = "generate"
        /\ Len(generated) = CasesToGenerate
        /\ UNCHANGED <<target, config, generated>>
    BY <1>1, <1>7 DEF Finish, inputs, driver
  <2>2. \A k \in 1..Len(generated) : ~Search!FailureAt(k)
    BY <2>1 DEF SearchInv, Drawn, IInv, Indexing
  <2>3. QED
    BY <2>1, <2>2 DEF Search!Next, Search!Pass, Search!Budget, CasesToGenerate
<1>8. CASE outcome = None /\ outcome' # None /\ outcome'.kind = "failed"
  BY <1>8, WhatIsReported, Finds DEF Search!Next, vars
<1>9. CASE SkipCase \/ SetupPanics \/ BeginCase \/ CheckInvariants \/ Act \/ ReturnCase
           \/ NextCase
  <2>1. UNCHANGED <<target, config, generated, outcome>>
    BY <1>9 DEF SkipCase, SetupPanics, BeginCase, CheckInvariants, Act, ReturnCase,
       NextCase, inputs, driver
  <2>2. QED
    BY <1>2, <2>1
<1>10. CASE DropUnseen \/ Simplify \/ Minimal \/ Complicate \/ GiveUp
  <2>1. /\ phase # "done"
        /\ UNCHANGED <<target, config, generated>>
        /\ \/ UNCHANGED outcome
           \/ outcome'.kind = "failed" /\ phase' = "done"
    BY <1>10 DEF DropUnseen, Simplify, Minimal, Complicate, GiveUp, Rerun, Report, inputs,
       driver
  <2>2. QED
    BY <1>1, <1>2, <1>8, <2>1
<1>11. CASE UNCHANGED vars
  BY <1>2, <1>11 DEF vars
<1>12. QED
  BY <1>4, <1>5, <1>6, <1>7, <1>9, <1>10, <1>11 DEF Next

\* A run implements the search of FuzzSearch, whatever the target does and
\* whichever way the shrinker takes: it never draws past a case that fails,
\* never passes with one, and answers with a failing case that has nothing
\* the drawn one had not.
THEOREM RunImplementsSearch == Spec => ImplementsSearch
<1>1. Spec => [](IInv /\ SearchInv)
  BY RunSearches
<1>2. QED
  BY <1>1, InitSearches, StepSearches, PTL DEF Spec, ImplementsSearch, Search!Spec

\* A failing case that got through its setup is reported with its own
\* journal: nothing but the report's text is left to the report.
LEMMA ReportIsDescribed ==
  ASSUME IInv, SearchInv, Next, Reported', phase = "failed" \/ ~BudgetSpent,
         outcome = None
  PROVE  /\ target' = target
         /\ StepsDescribeMinimal(target, outcome'.report)
         /\ FailingStepFound(target, outcome'.report)
<1>1. outcome' # None /\ outcome'.kind = "failed"
      /\ Setup(target', outcome'.report.minimal.initial) = "ready"
  BY DEF Reported, Ended
<1>2. target' = target /\ journal \in Journals(Actions) /\ target \in Targets
  BY <1>1, WhatIsReported DEF IInv, TypeOK
<1>3. PICK case \in CaseSpace :
        /\ Report(case)
        /\ SetUp(target, case) =>
             \E k \in 0..Len(case.actions) : Describes(target, journal, case, k)
  BY <1>1, WhatIsReported
<1>4. outcome'.report = NewReport(case, journal, tally.stats)
  BY <1>3 DEF Report
<1>5. outcome'.report.minimal = case
  BY <1>4 DEF NewReport
<1>6. PICK k \in 0..Len(case.actions) : Describes(target, journal, case, k)
  BY <1>1, <1>2, <1>3, <1>5 DEF SetUp
<1>7. QED
  BY <1>2, <1>4, <1>6, ReportDescribes, FailingStepIsFound

LEMMA ReportedStep ==
  ASSUME IInv, SearchInv, [Next]_vars, Reported',
         phase = "failed" \/ ~BudgetSpent
  PROVE  \/ UNCHANGED vars
         \/ /\ StepsDescribeMinimal(target, outcome'.report)
            /\ FailingStepFound(target, outcome'.report)
<1>1. CASE UNCHANGED vars
  BY <1>1
<1>2. CASE Next /\ outcome = None
  BY <1>2, ReportIsDescribed
<1>3. CASE Next /\ outcome # None
  <2>1. phase = "done"
    BY <1>3 DEF SearchInv, Over
  <2>2. FALSE
    BY <1>3, <2>1 DEF Next, Start, Generate, AbortGeneration, Finish, SkipCase,
       SetupPanics, BeginCase, CheckInvariants, Act, ReturnCase, NextCase, DropUnseen,
       Simplify, Minimal, Complicate, GiveUp
  <2>3. QED
    BY <2>2
<1>4. QED
  BY <1>1, <1>2, <1>3

\* The steps and the kind of a report are those of the failing case it
\* names, whichever way the shrinker took, except when it ran out of budget
\* after a candidate had passed.
THEOREM JournalDescribes == Spec => JournalDescribesMinimal
<1>1. IInv /\ SearchInv /\ [Next]_vars =>
        [Reported' /\ (phase = "failed" \/ ~BudgetSpent)
           => StepsDescribeMinimal(target, outcome'.report)]_vars
  BY ReportedStep
<1>2. QED
  BY <1>1, RunSearches, PTL DEF Spec, JournalDescribesMinimal

\* And the step it points at is the one the case fails at.
THEOREM FailingStepIsRight == Spec => FailingStepIsTheFailure
<1>1. IInv /\ SearchInv /\ [Next]_vars =>
        [Reported' /\ (phase = "failed" \/ ~BudgetSpent)
           => FailingStepFound(target, outcome'.report)]_vars
  BY ReportedStep
<1>2. QED
  BY <1>1, RunSearches, PTL DEF Spec, FailingStepIsTheFailure

-----------------------------------------------------------------------------
(* Counting *)

\* The steps of the n-th case, as actions of the stream.
Tagged(n, steps) == {<<n, i>> : i \in steps}

LEMMA TaggedCount ==
  ASSUME NEW n, NEW S, IsFiniteSet(S)
  PROVE  /\ IsFiniteSet(Tagged(n, S))
         /\ Cardinality(Tagged(n, S)) = Cardinality(S)
<1> DEFINE f == [i \in S |-> <<n, i>>]
<1>1. f \in [S -> Tagged(n, S)]
  BY DEF Tagged
<1>2. \A i, j \in S : f[i] = f[j] => i = j
  OBVIOUS
<1>3. \A a \in Tagged(n, S) : \E i \in S : f[i] = a
  BY DEF Tagged
<1> HIDE DEF f
<1>4. ExistsBijection(S, Tagged(n, S))
  BY <1>1, <1>2, <1>3 DEF ExistsBijection, Bijection, Injection, Surjection, IsInjective
<1>5. QED
  BY <1>4, FS_Bijection

\* Counting on with the steps of one more case.
LEMMA CountOn ==
  ASSUME NEW A, IsFiniteSet(A), NEW n, NEW S, IsFiniteSet(S),
         \A a \in A : a[1] # n
  PROVE  /\ IsFiniteSet(A \cup Tagged(n, S))
         /\ Cardinality(A \cup Tagged(n, S)) = Cardinality(A) + Cardinality(S)
<1>1. IsFiniteSet(Tagged(n, S)) /\ Cardinality(Tagged(n, S)) = Cardinality(S)
  BY TaggedCount
<1>2. A \cap Tagged(n, S) = {}
  BY DEF Tagged
<1>3. /\ IsFiniteSet(A \cup Tagged(n, S))
      /\ Cardinality(A \cup Tagged(n, S))
           = Cardinality(A) + Cardinality(Tagged(n, S)) - Cardinality({})
  BY <1>1, <1>2, FS_Union
<1>4. Cardinality({}) = 0 /\ Cardinality(A) \in Nat /\ Cardinality(S) \in Nat
  BY FS_EmptySet, FS_CardinalityType
<1>5. QED
  BY <1>1, <1>3, <1>4

LEMMA ActionOfStream ==
  ASSUME NEW c, NEW g, NEW a
  PROVE  a \in ActionsOf(c, g) <=>
           \E k \in 1..Len(g) : /\ RanAt(c, k)
                                /\ \E i \in 1..Len(g[k].actions) : a = <<k, i>>
BY DEF ActionsOf

\* The stream without its last case.
Front(g) == SubSeq(g, 1, Len(g) - 1)

LEMMA FrontFields ==
  ASSUME NEW g \in Seq(CaseSpace), g # <<>>
  PROVE  /\ Front(g) \in Seq(CaseSpace)
         /\ Len(g) \in 1..Len(g) /\ Len(g) \in Nat
         /\ Len(Front(g)) = Len(g) - 1
         /\ \A k \in 1..(Len(g) - 1) : k \in 1..Len(g) /\ Front(g)[k] = g[k]
         /\ g[Len(g)] \in CaseSpace
<1>1. /\ Len(g) \in 1..Len(g) /\ Len(g) \in Nat
      /\ g[Len(g)] \in CaseSpace
  OBVIOUS
<1>2. /\ SubSeq(g, 1, Len(g) - 1) \in Seq(CaseSpace)
      /\ Len(SubSeq(g, 1, Len(g) - 1)) = Len(g) - 1
  <2>1. \A k \in 0..Len(g) :
          SubSeq(g, 1, k) \in Seq(CaseSpace) /\ Len(SubSeq(g, 1, k)) = k
    BY <1>1
  <2>2. Len(g) - 1 \in 0..Len(g)
    BY <1>1
  <2>3. QED
    BY <2>1, <2>2
<1>3. \A k \in 1..(Len(g) - 1) : k \in 1..Len(g) /\ SubSeq(g, 1, Len(g) - 1)[k] = g[k]
  BY <1>1
<1>4. QED
  BY <1>1, <1>2, <1>3 DEF Front

\* An action of the stream.
LEMMA ActionFields ==
  ASSUME NEW c, NEW g \in Seq(CaseSpace), NEW a \in ActionsOf(c, g)
  PROVE  /\ a[1] \in 1..Len(g) /\ RanAt(c, a[1])
         /\ a[2] \in 1..Len(g[a[1]].actions)
         /\ a = <<a[1], a[2]>>
BY ActionOfStream

LEMMA StreamIsFinite ==
  ASSUME NEW c, NEW g \in Seq(CaseSpace)
  PROVE  IsFiniteSet(ActionsOf(c, g))
<1>1. IsFiniteSet((1..Len(g)) \X (1..MaxActions))
  <2>1. Len(g) \in Nat /\ MaxActions \in Nat
    BY MaxActionsAssumption
  <2>2. IsFiniteSet(1..Len(g)) /\ IsFiniteSet(1..MaxActions)
    BY <2>1, FS_Interval
  <2>3. QED
    BY <2>2, FS_Product
<1>2. ASSUME NEW a \in ActionsOf(c, g)
      PROVE  a \in (1..Len(g)) \X (1..MaxActions)
  <2>1. /\ a[1] \in 1..Len(g) /\ a[2] \in 1..Len(g[a[1]].actions)
        /\ a = <<a[1], a[2]>>
    BY ActionFields
  <2>2. g[a[1]] \in CaseSpace
    BY <2>1
  <2>3. Len(g[a[1]].actions) \in 0..MaxActions
    BY <2>2, CaseFields
  <2>4. a[2] \in 1..MaxActions
    BY <2>1, <2>3, MaxActionsAssumption
  <2>5. QED
    BY <2>1, <2>4
<1>3. ActionsOf(c, g) \subseteq (1..Len(g)) \X (1..MaxActions)
  BY <1>2
<1>4. QED
  BY <1>1, <1>3, FS_Subset

\* The steps of the last case, and those refused, when it was run.
StepsRun(c, g) == IF RanAt(c, Len(g)) THEN 1..Len(g[Len(g)].actions) ELSE {}

RefusedRun(t, c, g) == {i \in StepsRun(c, g) : RefusedIn(t, g[Len(g)], i)}

\* What the last case of the stream adds to it.
LEMMA LastCaseAdds ==
  ASSUME NEW t, NEW c, NEW g \in Seq(CaseSpace), g # <<>>
  PROVE  /\ ActionsOf(c, g) = ActionsOf(c, Front(g)) \cup Tagged(Len(g), StepsRun(c, g))
         /\ RefusedOf(t, c, g)
              = RefusedOf(t, c, Front(g)) \cup Tagged(Len(g), RefusedRun(t, c, g))
         /\ \A kind : RefusedOfKind(t, c, g, kind)
              = RefusedOfKind(t, c, Front(g), kind)
                \cup Tagged(Len(g), OfKind(t, g[Len(g)], RefusedRun(t, c, g), kind))
         /\ \A a \in ActionsOf(c, Front(g)) : a[1] # Len(g)
<1> DEFINE n       == Len(g)
           steps   == StepsRun(c, g)
           refused == RefusedRun(t, c, g)
<1>0. /\ steps = IF RanAt(c, n) THEN 1..Len(g[n].actions) ELSE {}
      /\ refused = {i \in steps : RefusedIn(t, g[n], i)}
      /\ n = Len(g)
  BY DEF StepsRun, RefusedRun
<1>1. /\ Front(g) \in Seq(CaseSpace)
      /\ n \in 1..n /\ n \in Nat
      /\ Len(Front(g)) = n - 1
      /\ \A k \in 1..(n - 1) : k \in 1..n /\ Front(g)[k] = g[k]
  BY FrontFields
<1> HIDE DEF n, steps, refused
<1>2. \A a \in ActionsOf(c, Front(g)) :
        /\ a[1] \in 1..(n - 1) /\ Front(g)[a[1]] = g[a[1]] /\ a[1] # n
  BY <1>0, <1>1, ActionFields
<1>3. \A a \in Tagged(n, steps) : a[1] = n /\ a[2] \in steps /\ a = <<n, a[2]>>
  BY DEF Tagged
<1>4. ActionsOf(c, g) = ActionsOf(c, Front(g)) \cup Tagged(n, steps)
  <2>1. ASSUME NEW a \in ActionsOf(c, g)
        PROVE  a \in ActionsOf(c, Front(g)) \cup Tagged(n, steps)
    <3>1. PICK k \in 1..n :
            RanAt(c, k) /\ \E i \in 1..Len(g[k].actions) : a = <<k, i>>
      BY <1>0, ActionOfStream
    <3>2. CASE k = n
      BY <1>0, <3>1, <3>2 DEF Tagged
    <3>3. CASE k # n
      <4>1. k \in 1..(n - 1)
        BY <1>1, <3>3
      <4>2. QED
        BY <1>0, <1>1, <3>1, <4>1, ActionOfStream
    <3>4. QED
      BY <3>2, <3>3
  <2>2. ASSUME NEW a \in ActionsOf(c, Front(g))
        PROVE  a \in ActionsOf(c, g)
    <3>1. PICK k \in 1..Len(Front(g)) :
            RanAt(c, k) /\ \E i \in 1..Len(Front(g)[k].actions) : a = <<k, i>>
      BY ActionOfStream
    <3>2. k \in 1..n /\ Front(g)[k] = g[k]
      BY <1>1
    <3>3. QED
      BY <1>0, <3>1, <3>2, ActionOfStream
  <2>3. ASSUME NEW a \in Tagged(n, steps)
        PROVE  a \in ActionsOf(c, g)
    BY <1>0, <1>1, <1>3, ActionOfStream
  <2>4. QED
    BY <2>1, <2>2, <2>3
<1>5. RefusedOf(t, c, g) = RefusedOf(t, c, Front(g)) \cup Tagged(n, refused)
  <2>1. \A a \in Tagged(n, steps) :
          RefusedIn(t, g[a[1]], a[2]) <=> a \in Tagged(n, refused)
    BY <1>0, <1>3 DEF Tagged
  <2>2. \A a \in ActionsOf(c, Front(g)) :
          RefusedIn(t, g[a[1]], a[2]) <=> RefusedIn(t, Front(g)[a[1]], a[2])
    BY <1>2
  <2>3. Tagged(n, refused) \subseteq Tagged(n, steps)
    BY <1>0 DEF Tagged
  <2>4. QED
    BY <1>4, <2>1, <2>2, <2>3 DEF RefusedOf
<1>6. ASSUME NEW kind
      PROVE  RefusedOfKind(t, c, g, kind)
               = RefusedOfKind(t, c, Front(g), kind)
                 \cup Tagged(n, OfKind(t, g[n], refused, kind))
  <2>1. \A a \in Tagged(n, refused) : a[1] = n /\ a[2] \in refused /\ a = <<n, a[2]>>
    BY DEF Tagged
  <2>2. \A a \in Tagged(n, refused) :
          Kind(t, g[a[1]].actions[a[2]]) = kind <=>
            a \in Tagged(n, OfKind(t, g[n], refused, kind))
    BY <2>1 DEF Tagged, OfKind
  <2>3. \A a \in RefusedOf(t, c, Front(g)) : g[a[1]] = Front(g)[a[1]]
    BY <1>2 DEF RefusedOf
  <2>4. Tagged(n, OfKind(t, g[n], refused, kind)) \subseteq Tagged(n, refused)
    BY DEF Tagged, OfKind
  <2>5. QED
    BY <1>5, <2>2, <2>3, <2>4 DEF RefusedOfKind
<1>7. QED
  BY <1>2, <1>4, <1>5, <1>6 DEF n, steps, refused

-----------------------------------------------------------------------------
(* The tally of a case *)

LEMMA RefusedUptoType ==
  ASSUME NEW t, NEW case, NEW k \in Nat
  PROVE  /\ RefusedUpto(t, case, k) \subseteq 1..k
         /\ IsFiniteSet(RefusedUpto(t, case, k))
         /\ \A kind : /\ OfKind(t, case, RefusedUpto(t, case, k), kind) \subseteq 1..k
                      /\ IsFiniteSet(OfKind(t, case, RefusedUpto(t, case, k), kind))
<1>1. IsFiniteSet(1..k)
  BY FS_Interval
<1>2. RefusedUpto(t, case, k) \subseteq 1..k
  BY DEF RefusedUpto
<1>3. \A kind : OfKind(t, case, RefusedUpto(t, case, k), kind) \subseteq 1..k
  BY <1>2 DEF OfKind
<1>4. QED
  BY <1>1, <1>2, <1>3, FS_Subset

\* One more refusal, or none.
LEMMA RefusedNext ==
  ASSUME NEW t, NEW case, NEW before \in Nat, NEW k, k = before + 1
  PROVE  /\ RefusedIn(t, case, k) =>
              /\ RefusedUpto(t, case, k) = RefusedUpto(t, case, before) \cup {k}
              /\ \A kind : OfKind(t, case, RefusedUpto(t, case, k), kind)
                   = IF Kind(t, case.actions[k]) = kind
                     THEN OfKind(t, case, RefusedUpto(t, case, before), kind) \cup {k}
                     ELSE OfKind(t, case, RefusedUpto(t, case, before), kind)
         /\ ~RefusedIn(t, case, k) => RefusedUpto(t, case, k) = RefusedUpto(t, case, before)
         /\ k \notin RefusedUpto(t, case, before)
         /\ \A kind : k \notin OfKind(t, case, RefusedUpto(t, case, before), kind)
<1>1. /\ k \in 1..k /\ k \notin 1..before
      /\ \A i : i \in 1..k <=> i \in 1..before \/ i = k
  OBVIOUS
<1>2. /\ RefusedIn(t, case, k) =>
           RefusedUpto(t, case, k) = RefusedUpto(t, case, before) \cup {k}
      /\ ~RefusedIn(t, case, k) => RefusedUpto(t, case, k) = RefusedUpto(t, case, before)
      /\ k \notin RefusedUpto(t, case, before)
  BY <1>1 DEF RefusedUpto
<1>3. QED
  BY <1>2 DEF OfKind

\* Of the kinds noted, those that are the given one.
KindsNoted(kinds, kind) == {i \in 1..Len(kinds) : kinds[i] = kind}

LEMMA KindNoted ==
  ASSUME NEW kinds \in Seq(Ranks), NEW new \in Ranks, NEW kind
  PROVE  /\ IsFiniteSet(KindsNoted(kinds, kind))
         /\ Cardinality(KindsNoted(Append(kinds, new), kind))
              = IF new = kind THEN Cardinality(KindsNoted(kinds, kind)) + 1
                ELSE Cardinality(KindsNoted(kinds, kind))
<1>1. /\ Len(Append(kinds, new)) = Len(kinds) + 1 /\ Len(kinds) \in Nat
      /\ \A i \in 1..Len(kinds) : Append(kinds, new)[i] = kinds[i]
      /\ Append(kinds, new)[Len(kinds) + 1] = new
  OBVIOUS
<1>2. IsFiniteSet(KindsNoted(kinds, kind))
  <2>1. IsFiniteSet(1..Len(kinds))
    BY <1>1, FS_Interval
  <2>2. KindsNoted(kinds, kind) \subseteq 1..Len(kinds)
    BY DEF KindsNoted
  <2>3. QED
    BY <2>1, <2>2, FS_Subset
<1>3. KindsNoted(Append(kinds, new), kind)
        = IF new = kind THEN KindsNoted(kinds, kind) \cup {Len(kinds) + 1}
          ELSE KindsNoted(kinds, kind)
  <2>1. \A i : i \in 1..(Len(kinds) + 1) <=> i \in 1..Len(kinds) \/ i = Len(kinds) + 1
    BY <1>1
  <2>2. QED
    BY <1>1, <2>1 DEF KindsNoted
<1>4. Len(kinds) + 1 \notin KindsNoted(kinds, kind)
  BY <1>1 DEF KindsNoted
<1>5. QED
  BY <1>2, <1>3, <1>4, FS_AddElement

\* One more action in a case's tally.
LEMMA ClassifyCounts ==
  ASSUME NEW t \in CaseTallies, NEW action \in Actions, target \in Targets,
         NEW result \in {"ok", "rejected"},
         NEW new, new = Classify(t, action, result)
  PROVE  /\ Total(new.stats) = Total(t.stats) + 1
         /\ IF result = "rejected" /\ ~Expects(target, action)
            THEN /\ new.stats.unexpected = t.stats.unexpected + 1
                 /\ new.kinds = Append(t.kinds, Kind(target, action))
            ELSE /\ new.stats.unexpected = t.stats.unexpected
                 /\ new.kinds = t.kinds
<1>1. /\ t = [stats |-> t.stats, kinds |-> t.kinds]
      /\ t.stats = [accepted   |-> t.stats.accepted,
                    expected   |-> t.stats.expected,
                    unexpected |-> t.stats.unexpected]
      /\ t.stats.accepted \in Nat /\ t.stats.expected \in Nat /\ t.stats.unexpected \in Nat
  BY DEF CaseTallies, Stats
<1>2. Expects(target, action) \in BOOLEAN
  BY TargetsAssumption
<1>3. CASE result = "ok"
  <2>1. new = [stats |-> [t.stats EXCEPT !.accepted = @ + 1], kinds |-> t.kinds]
    BY <1>1, <1>3 DEF Classify
  <2>2. /\ new.stats.accepted = t.stats.accepted + 1
        /\ new.stats.expected = t.stats.expected
        /\ new.stats.unexpected = t.stats.unexpected
        /\ new.kinds = t.kinds
    BY <1>1, <2>1
  <2>3. QED
    BY <1>1, <1>3, <2>2 DEF Total
<1>4. CASE result = "rejected" /\ Expects(target, action)
  <2>1. new = [stats |-> [t.stats EXCEPT !.expected = @ + 1], kinds |-> t.kinds]
    BY <1>1, <1>4 DEF Classify
  <2>2. /\ new.stats.accepted = t.stats.accepted
        /\ new.stats.expected = t.stats.expected + 1
        /\ new.stats.unexpected = t.stats.unexpected
        /\ new.kinds = t.kinds
    BY <1>1, <2>1
  <2>3. QED
    BY <1>1, <1>4, <2>2 DEF Total
<1>5. CASE result = "rejected" /\ ~Expects(target, action)
  <2>1. new = [stats |-> [t.stats EXCEPT !.unexpected = @ + 1],
               kinds |-> Append(t.kinds, Kind(target, action))]
    BY <1>1, <1>5 DEF Classify
  <2>2. /\ new.stats.accepted = t.stats.accepted
        /\ new.stats.expected = t.stats.expected
        /\ new.stats.unexpected = t.stats.unexpected + 1
        /\ new.kinds = Append(t.kinds, Kind(target, action))
    BY <1>1, <2>1
  <2>3. QED
    BY <1>1, <1>5, <2>2 DEF Total
<1>6. QED
  BY <1>2, <1>3, <1>4, <1>5

LEMMA ActCounts ==
  ASSUME IInv, InFlight, CaseCounts, Act, phase' = "check"
  PROVE  CaseCounts'
<1> DEFINE k      == pos + 1
           action == current.actions[k]
           result == Execute(target, Upto(current, k)).result
<1>1. /\ target \in Targets /\ pos \in Nat /\ action \in Actions
  BY ActFacts
<1>2. /\ target' = target /\ current' = current /\ pos' = k
      /\ result \in {"ok", "rejected"}
      /\ caseTally' = Classify(caseTally, action, result)
  <2>1. Execute(target, Upto(current, k)) \in Effects
    BY ActFacts
  <2>2. result \in {"ok", "rejected", "violation", "panics"}
    BY <2>1 DEF Effects
  <2>3. result \notin {"violation", "panics"}
    BY Zenon DEF Act
  <2>4. /\ target' = target /\ current' = current /\ pos' = k
        /\ caseTally' = Classify(caseTally, action, result)
    BY Zenon DEF Act, inputs
  <2>5. QED
    BY <2>2, <2>3, <2>4
<1>3. caseTally \in CaseTallies
  BY DEF IInv, TypeOK, CaseTallies
<1>4. /\ Total(caseTally.stats) = pos
      /\ caseTally.stats.unexpected = Cardinality(RefusedUpto(target, current, pos))
      /\ \A kind \in Ranks :
           Cardinality(KindsNoted(caseTally.kinds, kind))
             = Cardinality(OfKind(target, current, RefusedUpto(target, current, pos), kind))
  BY DEF Act, CaseCounts, KindsNoted
<1>5. RefusedIn(target, current, k) <=> result = "rejected" /\ ~Expects(target, action)
  BY DEF RefusedIn
<1>6. k = pos + 1
  OBVIOUS
<1>7. Kind(target, action) \in Ranks /\ caseTally.kinds \in Seq(Ranks)
  BY <1>1, <1>3, TargetsAssumption DEF CaseTallies
<1>8. action = current.actions[k]
  OBVIOUS
<1> HIDE DEF k, action, result
<1>9. /\ IsFiniteSet(RefusedUpto(target, current, pos))
      /\ \A kind : IsFiniteSet(OfKind(target, current, RefusedUpto(target, current, pos), kind))
  BY <1>1, RefusedUptoType
<1>10. Total(caseTally'.stats) = k
  BY <1>1, <1>2, <1>3, <1>4, <1>6, ClassifyCounts
<1>11. CASE RefusedIn(target, current, k)
  <2>1. /\ caseTally'.stats.unexpected = caseTally.stats.unexpected + 1
        /\ caseTally'.kinds = Append(caseTally.kinds, Kind(target, action))
    BY <1>1, <1>2, <1>3, <1>5, <1>11, ClassifyCounts
  <2>2. /\ RefusedUpto(target, current, k) = RefusedUpto(target, current, pos) \cup {k}
        /\ \A kind : OfKind(target, current, RefusedUpto(target, current, k), kind)
             = IF Kind(target, current.actions[k]) = kind
               THEN OfKind(target, current, RefusedUpto(target, current, pos), kind) \cup {k}
               ELSE OfKind(target, current, RefusedUpto(target, current, pos), kind)
        /\ k \notin RefusedUpto(target, current, pos)
        /\ \A kind : k \notin OfKind(target, current, RefusedUpto(target, current, pos), kind)
    <3>1. /\ RefusedUpto(target, current, k) = RefusedUpto(target, current, pos) \cup {k}
          /\ k \notin RefusedUpto(target, current, pos)
      BY <1>1, <1>6, <1>11, RefusedNext
    <3>2. ASSUME NEW kind
          PROVE  /\ OfKind(target, current, RefusedUpto(target, current, k), kind)
                      = IF Kind(target, current.actions[k]) = kind
                        THEN OfKind(target, current, RefusedUpto(target, current, pos), kind)
                             \cup {k}
                        ELSE OfKind(target, current, RefusedUpto(target, current, pos), kind)
                 /\ k \notin OfKind(target, current, RefusedUpto(target, current, pos), kind)
      BY <3>1 DEF OfKind
    <3>3. QED
      BY <3>1, <3>2
  <2>3. caseTally'.stats.unexpected = Cardinality(RefusedUpto(target, current, k))
    BY <1>4, <1>9, <2>1, <2>2, FS_AddElement
  <2>4. ASSUME NEW kind \in Ranks
        PROVE  Cardinality(KindsNoted(caseTally'.kinds, kind))
                 = Cardinality(OfKind(target, current, RefusedUpto(target, current, k), kind))
    <3>1. CASE Kind(target, action) = kind
      <4>1. Cardinality(KindsNoted(caseTally'.kinds, kind))
              = Cardinality(KindsNoted(caseTally.kinds, kind)) + 1
        BY <1>7, <2>1, <3>1, KindNoted
      <4>2. Cardinality(OfKind(target, current, RefusedUpto(target, current, k), kind))
              = Cardinality(OfKind(target, current, RefusedUpto(target, current, pos), kind)) + 1
        <5> DEFINE S == OfKind(target, current, RefusedUpto(target, current, pos), kind)
        <5>1. /\ IsFiniteSet(S) /\ k \notin S
              /\ OfKind(target, current, RefusedUpto(target, current, k), kind) = S \cup {k}
          BY <1>8, <1>9, <2>2, <3>1
        <5> HIDE DEF S
        <5>2. Cardinality(S \cup {k}) = Cardinality(S) + 1
          BY <5>1, FS_AddElement
        <5>3. QED
          BY <5>1, <5>2 DEF S
      <4>3. QED
        BY <1>4, <4>1, <4>2
    <3>2. CASE Kind(target, action) # kind
      <4>1. Cardinality(KindsNoted(caseTally'.kinds, kind))
              = Cardinality(KindsNoted(caseTally.kinds, kind))
        BY <1>7, <2>1, <3>2, KindNoted
      <4>2. OfKind(target, current, RefusedUpto(target, current, k), kind)
              = OfKind(target, current, RefusedUpto(target, current, pos), kind)
        BY <1>8, <2>2, <3>2
      <4>3. QED
        BY <1>4, <4>1, <4>2
    <3>3. QED
      BY <3>1, <3>2
  <2>5. QED
    BY <1>2, <1>10, <2>3, <2>4 DEF CaseCounts, KindsNoted
<1>12. CASE ~RefusedIn(target, current, k)
  <2>1. /\ caseTally'.stats.unexpected = caseTally.stats.unexpected
        /\ caseTally'.kinds = caseTally.kinds
    BY <1>1, <1>2, <1>3, <1>5, <1>12, ClassifyCounts
  <2>2. RefusedUpto(target, current, k) = RefusedUpto(target, current, pos)
    BY <1>1, <1>6, <1>12, RefusedNext
  <2>3. QED
    BY <1>2, <1>4, <1>10, <2>1, <2>2 DEF CaseCounts, KindsNoted
<1>13. QED
  BY <1>11, <1>12

LEMMA CaseCountsStep == IInv /\ InFlight /\ CaseCounts /\ [Next]_vars => CaseCounts'
<1> SUFFICES ASSUME IInv, InFlight, CaseCounts, [Next]_vars
             PROVE  CaseCounts'
  OBVIOUS
<1>1. ASSUME phase' \notin {"check", "act", "return"}
      PROVE  CaseCounts'
  BY <1>1 DEF CaseCounts
<1>2. ASSUME phase \in {"check", "act", "return"},
             UNCHANGED <<target, current, pos, caseTally>>
      PROVE  CaseCounts'
  BY <1>2 DEF CaseCounts
<1>3. CASE Start \/ Generate \/ AbortGeneration \/ Finish \/ SkipCase \/ SetupPanics
           \/ ReturnCase \/ NextCase \/ Minimal \/ GiveUp
  BY <1>1, <1>3 DEF Start, Generate, AbortGeneration, Finish, SkipCase, SetupPanics,
     ReturnCase, NextCase, Minimal, GiveUp, Report
<1>4. CASE DropUnseen \/ Simplify \/ Complicate
  BY <1>1, <1>4, RerunFacts DEF DropUnseen, Simplify, Complicate
<1>5. CASE BeginCase
  <2>1. /\ caseTally' = [stats |-> NoStats, kinds |-> <<>>] /\ pos' = 0
    BY <1>5 DEF BeginCase
  <2>2. /\ Total(caseTally'.stats) = 0 /\ caseTally'.stats.unexpected = 0
        /\ {i \in 1..Len(caseTally'.kinds) : TRUE} = {}
    BY <2>1 DEF NoStats, Total
  <2>3. /\ RefusedUpto(target', current', 0) = {}
        /\ \A kind : OfKind(target', current', {}, kind) = {}
    BY DEF RefusedUpto, OfKind
  <2>4. \A kind : {i \in 1..Len(caseTally'.kinds) : caseTally'.kinds[i] = kind} = {}
    BY <2>2
  <2>5. Cardinality({}) = 0
    BY FS_EmptySet
  <2>6. QED
    BY <2>1, <2>2, <2>3, <2>4, <2>5 DEF CaseCounts
<1>6. CASE CheckInvariants
  BY <1>2, <1>6 DEF CheckInvariants, inputs
<1>7. CASE Act
  BY <1>1, <1>7, ActCounts DEF Act
<1>8. CASE UNCHANGED vars
  BY <1>8 DEF vars, CaseCounts
<1>9. QED
  BY <1>3, <1>4, <1>5, <1>6, <1>7, <1>8 DEF Next

-----------------------------------------------------------------------------
(* The tally of the run *)

LEMMA AbsorbCounts ==
  ASSUME NEW t \in Tallies, NEW case \in CaseTallies, NEW new, new = Absorb(t, case)
  PROVE  /\ Total(new.stats) = Total(t.stats) + Total(case.stats)
         /\ new.stats.unexpected = t.stats.unexpected + case.stats.unexpected
         /\ \A kind \in Ranks :
              new.byKind[kind] = t.byKind[kind] + Cardinality(KindsNoted(case.kinds, kind))
<1>1. /\ t.stats.accepted \in Nat /\ t.stats.expected \in Nat /\ t.stats.unexpected \in Nat
      /\ case.stats.accepted \in Nat /\ case.stats.expected \in Nat
      /\ case.stats.unexpected \in Nat
  BY DEF Tallies, CaseTallies, Stats
<1>2. /\ new.stats = [accepted   |-> t.stats.accepted + case.stats.accepted,
                      expected   |-> t.stats.expected + case.stats.expected,
                      unexpected |-> t.stats.unexpected + case.stats.unexpected]
      /\ \A kind \in Ranks :
           new.byKind[kind] = t.byKind[kind] + Cardinality(KindsNoted(case.kinds, kind))
  BY DEF Absorb, KindsNoted
<1>3. /\ new.stats.accepted = t.stats.accepted + case.stats.accepted
      /\ new.stats.expected = t.stats.expected + case.stats.expected
      /\ new.stats.unexpected = t.stats.unexpected + case.stats.unexpected
  BY <1>2
<1>4. Total(new.stats) = Total(t.stats) + Total(case.stats)
  BY <1>1, <1>3 DEF Total
<1>5. QED
  BY <1>2, <1>3, <1>4

\* A case that was not run adds nothing to the stream's actions.
LEMMA SkippedCaseAdds ==
  ASSUME NEW t, NEW c, NEW g \in Seq(CaseSpace), g # <<>>, ~RanAt(c, Len(g))
  PROVE  /\ ActionsOf(c, g) = ActionsOf(c, Front(g))
         /\ RefusedOf(t, c, g) = RefusedOf(t, c, Front(g))
         /\ \A kind : RefusedOfKind(t, c, g, kind) = RefusedOfKind(t, c, Front(g), kind)
<1>1. StepsRun(c, g) = {} /\ RefusedRun(t, c, g) = {}
  BY DEF StepsRun, RefusedRun
<1>2. /\ Tagged(Len(g), {}) = {}
      /\ \A kind : OfKind(t, g[Len(g)], {}, kind) = {}
  BY DEF Tagged, OfKind
<1>3. /\ ActionsOf(c, g) = ActionsOf(c, Front(g)) \cup Tagged(Len(g), StepsRun(c, g))
      /\ RefusedOf(t, c, g)
           = RefusedOf(t, c, Front(g)) \cup Tagged(Len(g), RefusedRun(t, c, g))
      /\ \A kind : RefusedOfKind(t, c, g, kind)
           = RefusedOfKind(t, c, Front(g), kind)
             \cup Tagged(Len(g), OfKind(t, g[Len(g)], RefusedRun(t, c, g), kind))
  BY LastCaseAdds
<1>4. Tagged(Len(g), StepsRun(c, g)) = {} /\ Tagged(Len(g), RefusedRun(t, c, g)) = {}
  BY <1>1, <1>2
<1>5. \A kind : Tagged(Len(g), OfKind(t, g[Len(g)], RefusedRun(t, c, g), kind)) = {}
  BY <1>1, <1>2, Zenon
<1>6. QED
  BY <1>3, <1>4, <1>5

LEMMA IntervalCount ==
  ASSUME NEW k \in Nat
  PROVE  IsFiniteSet(1..k) /\ Cardinality(1..k) = k
<1>1. IsFiniteSet(1..k) /\ Cardinality(1..k) = IF 1 > k THEN 0 ELSE k - 1 + 1
  BY FS_Interval
<1>2. QED
  BY <1>1

\* A case that was run adds each of its actions.
LEMMA RunCaseAdds ==
  ASSUME NEW t, NEW c, NEW g \in Seq(CaseSpace), g # <<>>, RanAt(c, Len(g)),
         NEW case, case = g[Len(g)], NEW k, k = Len(case.actions)
  PROVE  /\ Cardinality(ActionsOf(c, g)) = Cardinality(ActionsOf(c, Front(g))) + k
         /\ Cardinality(RefusedOf(t, c, g))
              = Cardinality(RefusedOf(t, c, Front(g))) + Cardinality(RefusedUpto(t, case, k))
         /\ \A kind :
              Cardinality(RefusedOfKind(t, c, g, kind))
                = Cardinality(RefusedOfKind(t, c, Front(g), kind))
                  + Cardinality(OfKind(t, case, RefusedUpto(t, case, k), kind))
<1> DEFINE n == Len(g)
           refused == RefusedUpto(t, case, k)
<1>1. case \in CaseSpace /\ Front(g) \in Seq(CaseSpace)
  BY FrontFields
<1>2. k \in Nat
  BY <1>1, CaseFields, MaxActionsAssumption
<1>3. StepsRun(c, g) = 1..k /\ RefusedRun(t, c, g) = refused
  BY DEF StepsRun, RefusedRun, RefusedUpto
<1>4. IsFiniteSet(1..k) /\ Cardinality(1..k) = k
  BY <1>2, IntervalCount
<1>5. /\ IsFiniteSet(refused)
      /\ \A kind : IsFiniteSet(OfKind(t, case, refused, kind))
  BY <1>2, RefusedUptoType
<1> HIDE DEF refused
<1>6. /\ ActionsOf(c, g) = ActionsOf(c, Front(g)) \cup Tagged(n, 1..k)
      /\ RefusedOf(t, c, g) = RefusedOf(t, c, Front(g)) \cup Tagged(n, refused)
      /\ \A kind : RefusedOfKind(t, c, g, kind)
           = RefusedOfKind(t, c, Front(g), kind) \cup Tagged(n, OfKind(t, case, refused, kind))
      /\ \A a \in ActionsOf(c, Front(g)) : a[1] # n
  BY <1>3, LastCaseAdds
<1>7. /\ IsFiniteSet(ActionsOf(c, Front(g)))
      /\ RefusedOf(t, c, Front(g)) \subseteq ActionsOf(c, Front(g))
      /\ \A kind : RefusedOfKind(t, c, Front(g), kind) \subseteq ActionsOf(c, Front(g))
  BY <1>1, StreamIsFinite DEF RefusedOf, RefusedOfKind
<1>8. /\ IsFiniteSet(RefusedOf(t, c, Front(g)))
      /\ \A kind : IsFiniteSet(RefusedOfKind(t, c, Front(g), kind))
  BY <1>7, FS_Subset
<1> HIDE DEF n
<1>9. Cardinality(ActionsOf(c, g)) = Cardinality(ActionsOf(c, Front(g))) + k
  BY <1>4, <1>6, <1>7, CountOn
<1>10. Cardinality(RefusedOf(t, c, g))
         = Cardinality(RefusedOf(t, c, Front(g))) + Cardinality(refused)
  <2> DEFINE A == RefusedOf(t, c, Front(g))
  <2>1. IsFiniteSet(A) /\ \A a \in A : a[1] # n
    BY <1>6, <1>7, <1>8
  <2>2. RefusedOf(t, c, g) = A \cup Tagged(n, refused)
    BY <1>6
  <2> HIDE DEF A
  <2>3. Cardinality(A \cup Tagged(n, refused)) = Cardinality(A) + Cardinality(refused)
    BY <1>5, <2>1, CountOn
  <2>4. QED
    BY <2>2, <2>3 DEF A
<1>11. ASSUME NEW kind
       PROVE  Cardinality(RefusedOfKind(t, c, g, kind))
                = Cardinality(RefusedOfKind(t, c, Front(g), kind))
                  + Cardinality(OfKind(t, case, refused, kind))
  <2> DEFINE A == RefusedOfKind(t, c, Front(g), kind)
             S == OfKind(t, case, refused, kind)
  <2>1. IsFiniteSet(A) /\ IsFiniteSet(S) /\ \A a \in A : a[1] # n
    BY <1>5, <1>6, <1>7, <1>8
  <2>2. RefusedOfKind(t, c, g, kind) = A \cup Tagged(n, S)
    BY <1>6
  <2> HIDE DEF A, S
  <2>3. Cardinality(A \cup Tagged(n, S)) = Cardinality(A) + Cardinality(S)
    BY <2>1, CountOn
  <2>4. QED
    BY <2>2, <2>3 DEF A, S
<1>12. QED
  BY <1>9, <1>10, <1>11 DEF refused

\* The case in flight is the one drawn last.
LEMMA InStream ==
  ASSUME IInv, SearchInv, ~shrinking, phase \in {"invoke", "check", "act", "return", "failed"}
  PROVE  /\ generated \in Seq(CaseSpace) /\ generated # <<>>
         /\ current = generated[Len(generated)]
         /\ phase # "invoke" => RanAt(config, Len(generated))
         /\ Ran = Front(generated)
<1>1. generated \in Seq(CaseSpace) /\ generated # <<>>
  BY DEF IInv, TypeOK, SearchInv, Drawn
<1>2. current = generated[Len(generated)]
  BY DEF IInv, Indexing
<1>3. phase # "invoke" => RanAt(config, Len(generated))
  BY DEF IInv, Indexing, RanAt
<1>4. Ran = Front(generated)
  BY DEF Ran, Front
<1>5. QED
  BY <1>1, <1>2, <1>3, <1>4

LEMMA ReturnCounts ==
  ASSUME IInv, SearchInv, CaseCounts, TallyOfRan, ReturnCase, ~shrinking
  PROVE  Counts(Ran)'
<1>1. /\ generated \in Seq(CaseSpace) /\ generated # <<>>
      /\ current = generated[Len(generated)]
      /\ RanAt(config, Len(generated))
      /\ Ran = Front(generated)
  BY InStream DEF ReturnCase
<1>2. pos = Len(current.actions) /\ phase = "return"
  BY DEF ReturnCase, SearchInv, InFlight
<1>3. /\ Total(tally.stats) = Cardinality(ActionsOf(config, Front(generated)))
      /\ tally.stats.unexpected = Cardinality(RefusedOf(target, config, Front(generated)))
      /\ \A kind \in Ranks :
           tally.byKind[kind]
             = Cardinality(RefusedOfKind(target, config, Front(generated), kind))
  BY <1>1, <1>2 DEF TallyOfRan, Counts
<1>4. /\ Total(caseTally.stats) = pos
      /\ caseTally.stats.unexpected = Cardinality(RefusedUpto(target, current, pos))
      /\ \A kind \in Ranks :
           Cardinality(KindsNoted(caseTally.kinds, kind))
             = Cardinality(OfKind(target, current, RefusedUpto(target, current, pos), kind))
  BY <1>2 DEF CaseCounts, KindsNoted
<1>5. /\ tally' = Absorb(tally, caseTally) /\ phase' = "passed"
      /\ UNCHANGED <<target, config, generated>>
  BY DEF ReturnCase, inputs, driver
<1>6. tally \in Tallies /\ caseTally \in CaseTallies
  BY DEF IInv, TypeOK, Tallies, CaseTallies
<1>7. /\ Total(tally'.stats) = Total(tally.stats) + Total(caseTally.stats)
      /\ tally'.stats.unexpected = tally.stats.unexpected + caseTally.stats.unexpected
      /\ \A kind \in Ranks :
           tally'.byKind[kind]
             = tally.byKind[kind] + Cardinality(KindsNoted(caseTally.kinds, kind))
  BY <1>5, <1>6, AbsorbCounts
<1>8. Total(tally'.stats) = Cardinality(ActionsOf(config, generated))
  BY <1>1, <1>2, <1>3, <1>4, <1>7, RunCaseAdds
<1>9. tally'.stats.unexpected = Cardinality(RefusedOf(target, config, generated))
  BY <1>1, <1>2, <1>3, <1>4, <1>7, RunCaseAdds
<1>10. ASSUME NEW kind \in Ranks
       PROVE  tally'.byKind[kind] = Cardinality(RefusedOfKind(target, config, generated, kind))
  BY <1>1, <1>2, <1>3, <1>4, <1>7, RunCaseAdds
<1>11. QED
  BY <1>5, <1>8, <1>9, <1>10 DEF Counts, Ran

LEMMA TallyOfRanStep ==
  IInv /\ SearchInv /\ CaseCounts /\ TallyOfRan /\ [Next]_vars => TallyOfRan'
<1> SUFFICES ASSUME IInv, SearchInv, CaseCounts, TallyOfRan, [Next]_vars,
                    ~shrinking', phase' # "done"
             PROVE  Counts(Ran)'
  BY DEF TallyOfRan
<1>1. ASSUME UNCHANGED <<target, config, generated, shrinking, tally>>, phase # "done",
             \/ /\ phase \in {"start", "generate", "passed"}
                /\ phase' \in {"start", "generate", "passed"}
             \/ /\ phase \notin {"start", "generate", "passed"}
                /\ phase' \notin {"start", "generate", "passed"}
      PROVE  Counts(Ran)'
  <2>1. Ran' = Ran /\ Counts(Ran)
    BY <1>1 DEF Ran, TallyOfRan
  <2>2. QED
    BY <1>1, <2>1 DEF Counts
<1>2. CASE Generate
  <2>1. PICK case \in CaseSpace : generated' = Append(generated, case)
    BY <1>2 DEF Generate
  <2>2. /\ phase = "generate" /\ phase' = "invoke"
        /\ UNCHANGED <<target, config, shrinking, tally>>
    BY <1>2 DEF Generate, inputs
  <2>3. generated \in Seq(CaseSpace)
    BY DEF IInv, TypeOK
  <2>4. Ran' = SubSeq(generated', 1, Len(generated') - 1) /\ Ran = generated
    BY <2>2 DEF Ran
  <2>5. Ran' = generated
    <3>1. Len(generated') - 1 = Len(generated)
      BY <2>1, <2>3
    <3>2. SubSeq(Append(generated, case), 1, Len(generated)) = generated
      BY <2>3
    <3>3. QED
      BY <2>1, <2>4, <3>1, <3>2
  <2>6. Counts(generated)
    BY <2>2, <2>4 DEF TallyOfRan
  <2>7. QED
    BY <2>2, <2>5, <2>6 DEF Counts
<1>3. CASE SkipCase
  <2>1. /\ phase = "invoke" /\ phase' = "passed"
        /\ UNCHANGED <<target, config, generated, shrinking, tally>>
    BY <1>3 DEF SkipCase, inputs, driver
  <2>2. /\ generated \in Seq(CaseSpace) /\ generated # <<>>
        /\ Ran = Front(generated) /\ Ran' = generated
    BY <2>1, InStream DEF Ran
  <2>3. ~RanAt(config, Len(generated))
    BY <1>3, <2>1, SkippedIsNotRun DEF RanAt, Search!Runs
  <2>4. Counts(Front(generated))
    BY <2>1, <2>2 DEF TallyOfRan
  <2>5. QED
    BY <2>1, <2>2, <2>3, <2>4, SkippedCaseAdds DEF Counts
<1>4. CASE ReturnCase
  BY <1>4, ReturnCounts DEF ReturnCase, driver
<1>5. CASE Start \/ SetupPanics \/ BeginCase \/ CheckInvariants \/ Act \/ NextCase
  <2>1. UNCHANGED <<target, config, generated, shrinking, tally>>
    BY <1>5 DEF Start, SetupPanics, BeginCase, CheckInvariants, Act, NextCase, inputs, driver
  <2>2. \/ /\ phase \in {"start", "generate", "passed"}
           /\ phase' \in {"start", "generate", "passed"}
        \/ /\ phase \in {"invoke", "check", "act"}
           /\ phase' \in {"check", "act", "return", "failed"}
    BY <1>5 DEF Start, SetupPanics, BeginCase, CheckInvariants, AfterCheck, Act, NextCase
  <2>3. QED
    BY <1>1, <2>1, <2>2
<1>6. CASE AbortGeneration \/ Finish \/ Minimal \/ GiveUp
  BY <1>6 DEF AbortGeneration, Finish, Minimal, GiveUp, Report
<1>7. CASE DropUnseen \/ Simplify \/ Complicate
  BY <1>7, RerunFacts DEF DropUnseen, Simplify, Complicate
<1>8. CASE UNCHANGED vars
  <2>1. /\ UNCHANGED <<target, config, generated, shrinking, tally>>
        /\ phase' = phase
    BY <1>8 DEF vars
  <2>2. QED
    BY <1>1, <2>1
<1>9. QED
  BY <1>2, <1>3, <1>4, <1>5, <1>6, <1>7, <1>8 DEF Next

-----------------------------------------------------------------------------
(* The answer of a run that passed *)

LEMMA WarningIsRight ==
  ASSUME NEW t \in Tallies, NEW warnAbove \in (Nat \X (Nat \ {0})) \cup {None}
  PROVE  /\ Warning(t, warnAbove) # None <=>
              /\ warnAbove # None
              /\ t.stats.unexpected * warnAbove[2] > warnAbove[1] * Total(t.stats)
         /\ Warning(t, warnAbove) # None =>
              /\ Warning(t, warnAbove) \in Ranks
              /\ \A kind \in Ranks : t.byKind[kind] <= t.byKind[Warning(t, warnAbove)]
<1>1. /\ t.stats.accepted \in Nat /\ t.stats.expected \in Nat /\ t.stats.unexpected \in Nat
      /\ t.byKind \in [Ranks -> Nat]
  BY DEF Tallies, Stats
<1>2. /\ Total(t.stats) \in Nat
      /\ Total(t.stats) = 0 => t.stats.unexpected = 0
  <2>1. \A a, b, c \in Nat : a + b + c \in Nat /\ (a + b + c = 0 => c = 0)
    OBVIOUS
  <2>2. QED
    BY <1>1, <2>1 DEF Total
<1>3. /\ WorstKind(t.byKind) \in Ranks /\ WorstKind(t.byKind) # None
      /\ \A kind \in Ranks : t.byKind[kind] <= t.byKind[WorstKind(t.byKind)]
  BY <1>1, WorstKindExists, RanksAssumption, NoneAssumption
<1>4. CASE warnAbove = None
  BY <1>4 DEF Warning
<1>5. CASE warnAbove # None
  <2> DEFINE refused   == t.stats.unexpected * warnAbove[2]
             threshold == warnAbove[1] * Total(t.stats)
  <2>1. warnAbove[1] \in Nat /\ warnAbove[2] \in Nat
    BY <1>5
  <2>2. refused \in Int /\ threshold \in Int
    BY <1>1, <1>2, <2>1
  <2>3. Total(t.stats) = 0 => ~(refused > threshold)
    BY <1>2, <2>1
  <2>4. Warning(t, warnAbove)
          = IF Total(t.stats) = 0 \/ refused <= threshold THEN None ELSE WorstKind(t.byKind)
    BY <1>5 DEF Warning
  <2>5. refused <= threshold <=> ~(refused > threshold)
    BY <2>2
  <2> HIDE DEF refused, threshold
  <2>6. /\ Warning(t, warnAbove) # None <=> refused > threshold
        /\ Warning(t, warnAbove) # None => Warning(t, warnAbove) = WorstKind(t.byKind)
    BY <1>3, <2>3, <2>4, <2>5
  <2>7. QED
    BY <1>3, <1>5, <2>6 DEF refused, threshold
<1>6. QED
  BY <1>4, <1>5

LEMMA FinishCounts ==
  ASSUME IInv, TallyOfRan, Finish
  PROVE  AllCounted' /\ WarningIsDeserved'
<1>1. phase = "generate" /\ UNCHANGED <<target, config, generated>>
  BY DEF Finish, inputs, driver
<1>2. Counts(generated)
  BY <1>1 DEF TallyOfRan, Ran, IInv, Indexing
<1>3. outcome'.stats = tally.stats /\ outcome'.warning = Warning(tally, config.warnAbove)
  BY DEF Finish
<1>4. AllCounted'
  BY <1>1, <1>2, <1>3 DEF AllCounted, Counts
<1>5. tally \in Tallies /\ config.warnAbove \in (Nat \X (Nat \ {0})) \cup {None}
  BY ConfigsAssumption DEF IInv, TypeOK, Tallies
<1> DEFINE warning == Warning(tally, config.warnAbove)
<1>6. /\ warning # None <=>
           /\ config.warnAbove # None
           /\ tally.stats.unexpected * config.warnAbove[2]
                > config.warnAbove[1] * Total(tally.stats)
      /\ warning # None =>
           /\ warning \in Ranks
           /\ \A kind \in Ranks : tally.byKind[kind] <= tally.byKind[warning]
  BY <1>5, WarningIsRight
<1>7. /\ Total(tally.stats) = Cardinality(ActionsOf(config, generated))
      /\ tally.stats.unexpected = Cardinality(RefusedOf(target, config, generated))
      /\ \A kind \in Ranks :
           tally.byKind[kind] = Cardinality(RefusedOfKind(target, config, generated, kind))
  BY <1>2 DEF Counts
<1>8. outcome'.warning = warning
  BY <1>3
<1> HIDE DEF warning
<1> DEFINE ran     == Cardinality(ActionsOf(config, generated))
           refused == Cardinality(RefusedOf(target, config, generated))
<1>9. /\ warning = None \/ config.warnAbove # None
      /\ config.warnAbove # None =>
           (warning # None <=> refused * config.warnAbove[2] > config.warnAbove[1] * ran)
      /\ warning # None =>
           \A kind \in Ranks :
             Cardinality(RefusedOfKind(target, config, generated, kind))
               <= Cardinality(RefusedOfKind(target, config, generated, warning))
  BY <1>6, <1>7
<1>10. WarningIsDeserved'
  <2>1. /\ RefusedCount' = refused /\ RanCount' = ran /\ config' = config
        /\ refused \in Int /\ ran \in Int
    BY <1>1, <1>5, <1>7 DEF RefusedCount, RanCount, Tallies, Stats, Total
  <2>2. config.warnAbove # None => config.warnAbove[1] \in Nat /\ config.warnAbove[2] \in Nat
    BY <1>5
  <2> HIDE DEF refused, ran
  <2>3. config.warnAbove # None =>
          /\ AboveThreshold' => outcome'.warning # None
          /\ BelowThreshold' => outcome'.warning = None
    BY <1>8, <1>9, <2>1, <2>2 DEF AboveThreshold, BelowThreshold
  <2>4. QED
    BY <1>1, <1>8, <1>9, <2>1, <2>3 DEF WarningIsDeserved
<1>11. QED
  BY <1>4, <1>10

LEMMA NextWhileRunning == Next => phase # "done"
BY DEF Next, Start, Generate, AbortGeneration, Finish, SkipCase, SetupPanics, BeginCase,
   CheckInvariants, Act, ReturnCase, NextCase, DropUnseen, Simplify, Minimal, Complicate,
   GiveUp

LEMMA PassedStep ==
  IInv /\ SearchInv /\ TallyInv /\ [Next]_vars
    => AllCounted' /\ WarningIsDeserved'
<1> SUFFICES ASSUME IInv, SearchInv, TallyInv, [Next]_vars
             PROVE  AllCounted' /\ WarningIsDeserved'
  OBVIOUS
<1>1. ASSUME outcome' = None \/ outcome'.kind \in {"aborted", "failed"}
      PROVE  AllCounted' /\ WarningIsDeserved'
  BY <1>1 DEF AllCounted, WarningIsDeserved, Ended
<1>2. Next => outcome = None
  BY NextWhileRunning DEF SearchInv, Over
<1>3. CASE Finish
  BY <1>3, FinishCounts DEF TallyInv
<1>4. CASE Start \/ AbortGeneration \/ DropUnseen \/ Simplify \/ Minimal \/ Complicate
           \/ GiveUp
  <2>1. outcome' = outcome \/ outcome'.kind \in {"aborted", "failed"}
    BY <1>4 DEF Start, AbortGeneration, DropUnseen, Simplify, Minimal, Complicate, GiveUp,
       Rerun, Report
  <2>2. QED
    BY <1>1, <1>2, <1>4, <2>1 DEF Next
<1>5. CASE Generate \/ SkipCase \/ SetupPanics \/ BeginCase \/ CheckInvariants \/ Act
           \/ ReturnCase \/ NextCase
  <2>1. outcome' = outcome
    BY <1>5 DEF Generate, SkipCase, SetupPanics, BeginCase, CheckInvariants, Act,
       ReturnCase, NextCase
  <2>2. QED
    BY <1>1, <1>2, <1>5, <2>1 DEF Next
<1>6. CASE UNCHANGED vars
  BY <1>6 DEF vars, TallyInv, AllCounted, WarningIsDeserved, Ended, AboveThreshold,
     BelowThreshold, RefusedCount, RanCount
<1>7. QED
  BY <1>3, <1>4, <1>5, <1>6 DEF Next

LEMMA InitTallyInv == Init => TallyInv
<1> SUFFICES ASSUME Init
             PROVE  TallyInv
  OBVIOUS
<1>1. CaseCounts /\ AllCounted /\ WarningIsDeserved
  BY DEF Init, CaseCounts, AllCounted, WarningIsDeserved, Ended
<1>2. Ran = <<>> /\ Len(<<>>) = 0
  BY DEF Init, Ran
<1>3. /\ ActionsOf(config, <<>>) = {}
      /\ RefusedOf(target, config, <<>>) = {}
      /\ \A kind : RefusedOfKind(target, config, <<>>, kind) = {}
  BY <1>2 DEF ActionsOf, RefusedOf, RefusedOfKind
<1>4. Total(tally.stats) = 0 /\ tally.stats.unexpected = 0
      /\ \A kind \in Ranks : tally.byKind[kind] = 0
  BY DEF Init, NoStats, Total
<1>5. Counts(<<>>)
  BY <1>3, <1>4, FS_EmptySet DEF Counts
<1>6. QED
  BY <1>1, <1>2, <1>5 DEF TallyInv, TallyOfRan

LEMMA TallyStep == IInv /\ SearchInv /\ TallyInv /\ [Next]_vars => TallyInv'
BY CaseCountsStep, TallyOfRanStep, PassedStep DEF TallyInv, SearchInv

LEMMA RunTallies == Spec => [](IInv /\ SearchInv /\ TallyInv)
<1>1. IInv /\ SearchInv /\ TallyInv /\ [Next]_vars => (IInv /\ SearchInv /\ TallyInv)'
  BY TypeStep, ProgressStep, IndexingStep, SearchStep, TallyStep DEF IInv
<1>2. QED
  BY InitIInv, InitSearchInv, InitTallyInv, <1>1, PTL DEF Spec

\* The cases that ran to their end are counted, each of their actions once,
\* and nothing of a case that failed before any candidate was tried.
THEOREM EveryActionCounted == Spec => []OnlyCompletedCasesCount
<1>1. TallyInv => OnlyCompletedCasesCount
  BY DEF TallyInv, AllCounted, OnlyCompletedCasesCount, TallyOfRan, Counts, Ran, Earlier
<1>2. QED
  BY <1>1, RunTallies, PTL

\* It warns when the share of actions refused unasked is above the threshold,
\* never when it is below, and of a kind that was refused most.
THEOREM WarningDeserved == Spec => []WarningIsDeserved
<1>1. TallyInv => WarningIsDeserved
  BY DEF TallyInv
<1>2. QED
  BY <1>1, RunTallies, PTL

=============================================================================
