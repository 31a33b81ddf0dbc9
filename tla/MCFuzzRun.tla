----------------------------- MODULE MCFuzzRun -----------------------------
(***************************************************************************)
(* Targets and configurations for FuzzRun.  A target is a set of faults in *)
(* an otherwise sound contract: an effect of executing an action, or a     *)
(* result of checking the invariants after it, when it is the first action *)
(* of the case or when it is a later one; or a faulty initial state t.     *)
(***************************************************************************)
EXTENDS FuzzRun

CONSTANTS a, b, s, t

MCActions == {a, b}
MCInitials == {s, t}
MCRanks == {1, 2}

Effect(result) == [result |-> result, breach |-> FALSE]

ExecuteFaults ==
  [on : {"execute"}, action : MCActions, first : BOOLEAN,
   what : {Effect(r) : r \in {"rejected", "violation", "panics"}}
            \cup {[result |-> r, breach |-> TRUE] : r \in {"ok", "violation"}}]

CheckFaults ==
  [on : {"check"}, action : MCActions, first : BOOLEAN,
   what : {"reclaims", "broken", "writes", "panics"}]

InitialFaults ==
  [on : {"initial"}, what : {"reclaims", "broken", "writes", "panics"}]

SetupFault == [on |-> "setup", what |-> "panics"]

Hit(target_, on, case) ==
  {f \in target_ :
     /\ f.on = on
     /\ f.action = case.actions[Len(case.actions)]
     /\ f.first <=> Len(case.actions) = 1}

MCSetup(target_, initial) ==
  IF initial = t /\ SetupFault \in target_ THEN "panics" ELSE "ready"

MCExecute(target_, case) ==
  IF case.actions = <<>> \/ Hit(target_, "execute", case) = {}
  THEN Effect("ok")
  ELSE (CHOOSE f \in Hit(target_, "execute", case) : TRUE).what

MCCheck(target_, case) ==
  LET faults == IF case.actions # <<>> THEN Hit(target_, "check", case)
                ELSE IF case.initial = t
                     THEN {f \in target_ : f.on = "initial"} ELSE {}
  IN  IF faults = {} THEN "holds" ELSE (CHOOSE f \in faults : TRUE).what

\* b is the negative test.
MCExpects(target_, action) == action = b

MCKind(target_, action) == IF action = a THEN 1 ELSE 2

\* a is the simpler action, s the simpler initial state.
MCSimpler(x) == CASE x = b -> {a} [] x = t -> {s} [] OTHER -> {}

OneFault == {{f} : f \in ExecuteFaults \cup CheckFaults \cup InitialFaults}

TwoFaults == {{f, g} : f \in ExecuteFaults, g \in CheckFaults}

Mk(cases, replay, seeded, max, warn) ==
  [cases |-> cases, replay |-> replay, seeded |-> seeded,
   maxShrinkIters |-> max, warnAbove |-> warn]

\* Two cases, so that a failing one may follow one that is counted.
SearchTargets == OneFault \cup {{f, SetupFault} : f \in CheckFaults}
SearchConfigs == {Mk(2, None, FALSE, 2, None)}

\* The first and the second case of the stream, with and without its seed.
ReplayConfigs == {Mk(1, r, d, 2, None) : r \in {0, 1}, d \in BOOLEAN}

\* Any combination of refusals, against three thresholds.
WarningTargets ==
  SUBSET {f \in ExecuteFaults : f.what.result = "rejected"}
WarningConfigs ==
  {Mk(2, None, TRUE, 1, w) : w \in {<<0, 1>>, <<1, 2>>, <<3, 4>>, None}}

MCTargets == SearchTargets \cup WarningTargets
MCConfigs == SearchConfigs \cup ReplayConfigs \cup WarningConfigs

\* Each target against the configurations it is made for.
MCInit ==
  /\ Init
  /\ \/ target \in SearchTargets /\ config \in SearchConfigs \cup ReplayConfigs
     \/ target \in WarningTargets /\ config \in WarningConfigs

MCSpec == MCInit /\ [][Next]_vars /\ WF_vars(Next)

\* One case of up to three actions, with and without budget to finish.
ShrinkTargets == OneFault \cup TwoFaults
ShrinkConfigs == {Mk(1, None, FALSE, max, None) : max \in {0, 3}}
TightConfigs  == {Mk(1, None, FALSE, 1, None)}

=============================================================================
