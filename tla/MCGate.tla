------------------------------- MODULE MCGate -------------------------------
(***************************************************************************)
(* A repository of two files and two rules, of severities 1 and 2.  One    *)
(* finding may be on either of two lines, and one may come a second time.  *)
(***************************************************************************)
EXTENDS Gate

At(rule, file, line) == [rule |-> rule, file |-> file, message |-> "m", line |-> line]

MCOccurrences ==
  {At("auth", "lib.rs", 1), At("auth", "lib.rs", 2), At("sum", "lib.rs", 1),
   At("auth", "old.rs", 1)}

MCSeverity(rule) == IF rule = "auth" THEN 2 ELSE 1

MCTrees ==
  {{}, {At("auth", "lib.rs", 1)}, {At("auth", "lib.rs", 1), At("auth", "lib.rs", 2)},
   {At("sum", "lib.rs", 1), At("auth", "old.rs", 1)}}

MCPlaces == {"here", "there"}

Bare(config) ==
  [config |-> config, paths |-> FALSE, baseline |-> FALSE, severity |-> None,
   disabled |-> {}]

MCProjects ==
  {Bare("none"), Bare("unreadable"),
   [Bare("readable") EXCEPT !.paths = TRUE, !.baseline = TRUE],
   [Bare("readable") EXCEPT !.baseline = TRUE, !.severity = 1],
   [Bare("readable") EXCEPT !.disabled = {"auth"}, !.severity = 1]}

Line == [paths |-> TRUE, explicit |-> FALSE, baseline |-> FALSE, write |-> FALSE,
         severity |-> None, script |-> FALSE, fail |-> FALSE]

\* By hand: adopt, check, with paths of its own or the configuration's; and
\* by the action, which names the path and the gate.
MCRequests ==
  {[Line EXCEPT !.paths = p, !.baseline = TRUE, !.write = TRUE] : p \in BOOLEAN}
  \cup {[Line EXCEPT !.paths = p, !.baseline = TRUE] : p \in BOOLEAN}
  \cup {[Line EXCEPT !.paths = FALSE, !.write = TRUE, !.explicit = e] : e \in BOOLEAN}
  \cup {[Line EXCEPT !.severity = 1]}
  \cup {[Line EXCEPT !.script = TRUE, !.severity = g, !.baseline = b, !.fail = f] :
          g \in {2}, b \in BOOLEAN, f \in BOOLEAN}
=============================================================================
