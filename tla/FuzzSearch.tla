----------------------------- MODULE FuzzSearch -----------------------------
(***************************************************************************)
(* What a fuzz run promises, without saying how: it draws cases one by one *)
(* from a stream, stops at the first one that fails, answers with a        *)
(* failing case reduced from that one, and passes only when no case it was *)
(* asked to run fails.  FuzzRun implements it.                             *)
(***************************************************************************)
EXTENDS Naturals, Sequences

CONSTANTS
  CaseSpace,     \* the cases there are
  Fails(_, _),   \* Fails(t, case): the case fails against target t
  Simpler(_),    \* the values simpler than an action or an initial state
  None

VARIABLES
  target,
  config,
  generated,     \* the cases drawn so far
  answer         \* None, <<"passed">>, <<"aborted">> or <<"failed", case>>

vars == <<target, config, generated, answer>>

\* A replay runs the one case it names, any other run all it draws.
Runs(k) == config.replay = None \/ k = config.replay + 1

Budget == IF config.replay = None THEN config.cases ELSE config.replay + 1

\* A failure among the cases drawn.
FailureAt(k) == Runs(k) /\ Fails(target, generated[k])

\* x is y or simpler.
Under(x, y) == x = y \/ x \in Simpler(y)

\* c has some of the actions of d, in their order, each of them and the
\* initial state as it was or simpler.
Reduces(c, d) ==
  /\ Under(c.initial, d.initial)
  /\ \E at \in [1..Len(c.actions) -> 1..Len(d.actions)] :
       /\ \A i, j \in 1..Len(c.actions) : i < j => at[i] < at[j]
       /\ \A i \in 1..Len(c.actions) : Under(c.actions[i], d.actions[at[i]])

Init ==
  /\ generated = <<>>
  /\ answer = None

Draw ==
  /\ answer = None
  /\ Len(generated) < Budget
  /\ \A k \in 1..Len(generated) : ~FailureAt(k)
  /\ \E case \in CaseSpace : generated' = Append(generated, case)
  /\ UNCHANGED <<target, config, answer>>

Pass ==
  /\ answer = None
  /\ Len(generated) = Budget
  /\ \A k \in 1..Len(generated) : ~FailureAt(k)
  /\ answer' = <<"passed">>
  /\ UNCHANGED <<target, config, generated>>

Find ==
  /\ answer = None
  /\ generated # <<>>
  /\ FailureAt(Len(generated))
  /\ \E case \in CaseSpace :
       /\ Fails(target, case)
       /\ Reduces(case, generated[Len(generated)])
       /\ answer' = <<"failed", case>>
  /\ UNCHANGED <<target, config, generated>>

\* The strategies may reject too much, and a replay needs a pinned seed.
Abort ==
  /\ answer = None
  /\ answer' = <<"aborted">>
  /\ UNCHANGED <<target, config, generated>>

Next == Draw \/ Pass \/ Find \/ Abort

Spec == Init /\ [][Next]_vars
=============================================================================
