---------------------------- MODULE MCCheckFile -----------------------------
(***************************************************************************)
(* Files for CheckFile: every way of nesting three loops of chosen bounds  *)
(* with storage reads in their headers and bodies, sums in and out of      *)
(* checked calls, chains of lets, entrypoints that authorize in each way   *)
(* the rule knows, and comment lines of every kind above an impl block and *)
(* two methods. MaxU64, ReadCeiling and LookUpLines stand for 2^64 - 1,    *)
(* 200 and 12.                                                             *)
(***************************************************************************)
EXTENDS CheckFile

BalanceName == <<"user", "balance">>
CountName == <<"count">>
LimitName == <<"limit">>
IndexName == <<"i">>

(***************************************************************************)
(* Nodes.                                                                  *)
(***************************************************************************)
Method(method, chain, end) ==
    [kind |-> "call", method |-> method, chain |-> chain, client |-> FALSE, key |-> None,
     names |-> {<<"env">>}, end |-> end, line |-> 1]
Get(end) == Method("get", <<"persistent", "storage">>, end)
Plain(end) == Method("len", <<>>, end)
Set(durability, name, end) ==
    [Method("set", <<durability, "storage">>, end) EXCEPT !.key = [names |-> {name}, line |-> 1]]
Transfer(end) == [Method("transfer", <<>>, end) EXCEPT !.client = TRUE]
Auth(end) == Method("require_auth", <<>>, end)
CallTo(name, end) ==
    [kind |-> "fn", name |-> name, names |-> {<<name>>}, end |-> end, line |-> 1]
Plus(names, end) == [kind |-> "arith", names |-> names, end |-> end, line |-> 1]

For(iter, end, body) ==
    [kind |-> "for", iter |-> iter, names |-> {IndexName}, end |-> end, body |-> body, line |-> 1]
FromTo(a, b, closed) == [start |-> a, end |-> b, closed |-> closed]
While(cond, end, body) ==
    [kind |-> "while", cond |-> cond, names |-> {IndexName}, end |-> end, body |-> body, line |-> 1]
Compare(op, left, right) == [op |-> op, left |-> left, right |-> right]
Forever(end, body) ==
    [kind |-> "loop", names |-> {}, end |-> end, body |-> body, line |-> 1]

(***************************************************************************)
(* Functions and files.                                                    *)
(***************************************************************************)
Contract == [attrs |-> {"contractimpl"}, trait |-> FALSE]

Function(name, nodes, line) ==
    [name |-> name, underscored |-> FALSE, impl |-> Contract, pub |-> TRUE, place |-> "impl",
     attrs |-> {}, params |-> {[name |-> "who", type |-> {"Address"}],
                               [name |-> "amount", type |-> {"i128"}]},
     line |-> line, body |-> [nodes |-> nodes, lets |-> <<>>]]

Code == [text |-> "code", marker |-> None]
Blank == [text |-> "blank", marker |-> None]
Comment == [text |-> "comment", marker |-> None]
Marker(scope, rules) == [text |-> "comment", marker |-> [scope |-> scope, rules |-> rules]]

Bare(fns) == [fns |-> fns, items |-> {[from |-> 1, to |-> 1]}, lines |-> <<Code>>]

\* Three loops, each in the body of the one before: `p' picks the headers and
\* bodies in which storage is read. The node behind the first of a loop is in
\* its header where there is room for it.
Here(p, place, end) == IF place \in p THEN Get(end) ELSE Plain(end)

Loop(node, i, end) ==
    [node EXCEPT !.end = end, !.body = IF IsLiteralRange(node) THEN i + 1 ELSE i + 2]

Nested(a, b, c, p) ==
    <<Loop(a, 1, 8), Here(p, "header", 2),
      Loop(b, 3, 7), Here(p, "inner header", 4),
      [c EXCEPT !.end = 6, !.body = 6], Here(p, "innermost", 6),
      Here(p, "inner", 7),
      Here(p, "outer", 8),
      Get(9)>>

Loops ==
    {For(FromTo(None, 7, FALSE), 0, 0),      \* x..7
     For(FromTo(2, 3, TRUE), 0, 0),          \* 2..=3
     For(FromTo(3, 2, TRUE), 0, 0),          \* 3..=2, empty
     For(FromTo(5, 2, TRUE), 0, 0),          \* 5..=2, below zero
     For(FromTo(2, MaxU64, TRUE), 0, 0),     \* 2..=u64::MAX
     For(None, 0, 0),                       \* an iterator that is no range
     While(Compare("<=", None, 9), 0, 0),
     While(Compare(">", None, 0), 0, 0),
     While(None, 0, 0),
     Forever(0, 0)}

NestedFiles ==
    {Bare(<<Function("sweep", Nested(a, b, c, p), 1)>>) :
        a \in Loops,
        b \in {For(FromTo(0, 9, FALSE), 0, 0), While(None, 0, 0),
               While(Compare("<", None, 2), 0, 0), Forever(0, 0)},
        c \in {While(Compare(">", None, 0), 0, 0), For(FromTo(0, 9, FALSE), 0, 0),
               For(FromTo(0, 0, FALSE), 0, 0), For(None, 0, 0)},
        p \in SUBSET {"header", "inner header", "innermost", "inner"}}

\* Two loops one after the other.
RowFiles ==
    {Bare(<<Function("rows", <<a, Here(p, "header", 2), Here(p, "first", 3),
                               b, Here(p, "inner header", 5), Here(p, "second", 6)>>, 1)>>) :
        a \in {For(None, 3, 3), Forever(3, 2)}, b \in {While(None, 6, 6), Forever(6, 5)},
        p \in SUBSET {"header", "first", "inner header", "second"}}

\* checked(sum(sum(..), plain(sum)), sum), with names that read as amounts or not.
SumFiles ==
    {Bare(<<Function("quote",
        <<[Plain(6) EXCEPT !.method = outer], Plus({a}, 4), Plus({b}, 3), Plain(4), Plus({c}, 6),
          [Plain(6) EXCEPT !.method = inner], Plus({BalanceName}, 7)>>, 1)>>) :
        outer \in {"checked", "len"}, inner \in {"checked", "len"},
        a \in {BalanceName, IndexName}, b \in {BalanceName, IndexName}, c \in {BalanceName, IndexName}}

\* for i in 0..limit { env.storage()..get(..) } below three lets.
LetFiles ==
    {Bare(<<[Function("page", <<[For(None, 2, 2) EXCEPT !.names = {bound}], Get(2)>>, 1)
               EXCEPT !.body.lets = lets]>>) :
        bound \in {CountName, LimitName, IndexName},
        lets \in [1..3 -> [names : {{CountName}, {LimitName}, {<<"end">>}},
                           init : {{<<"env">>}, {CountName}, {<<"end">>}}, reads : {FALSE}]
                       \cup [names : {{<<"end">>}}, init : {{<<"env">>}}, reads : {TRUE}]]}

\* The ways of being an entrypoint, and of authorizing.
Change == <<Set("persistent", BalanceName, 1), Transfer(2)>>

AuthFile ==
    Bare(<<
      Function("mint", Change, 1),
      Function("view", <<Get(1)>>, 1),
      [Function("__constructor", Change, 1) EXCEPT !.underscored = TRUE],
      [Function("_hook", Change, 1) EXCEPT !.underscored = TRUE],
      [Function("helper", Change, 1) EXCEPT !.pub = FALSE],
      [Function("quiet", Change, 1) EXCEPT !.pub = FALSE,
           !.impl = [attrs |-> {"contractimpl"}, trait |-> TRUE]],
      [Function("plain", Change, 1) EXCEPT !.impl = [attrs |-> {}, trait |-> FALSE]],
      [Function("free", Change, 1) EXCEPT !.impl = None, !.place = "free"],
      [Function("paused", Change, 1) EXCEPT !.attrs = {"only_owner"}],
      [Function("held", Change, 1) EXCEPT !.attrs = {"has_role"}],
      Function("burn", <<Auth(1), Set("temporary", BalanceName, 2)>>, 1),
      Function("direct", <<CallTo("guard", 1), Transfer(2)>>, 1),
      Function("dotted", <<Method("guard", <<>>, 1), Transfer(2)>>, 1),
      Function("indirect", <<CallTo("direct", 1), Transfer(2)>>, 1),
      Function("hidden", <<CallTo("deep", 1), Transfer(2)>>, 1),
      Function("sets", <<Set("temporary", BalanceName, 1), Set("instance", BalanceName, 2),
                         Set("persistent", BalanceName, 3), Set("temporary", CountName, 4)>>, 1),
      [Function("guard", <<Auth(1)>>, 1) EXCEPT !.impl = None, !.place = "free"],
      [Function("deep", <<Auth(1)>>, 1) EXCEPT !.impl = None, !.place = "nested"]>>)

\* An impl block on lines 5..10 with two methods, 6..7 and 10.
Above ==
    {Blank, Comment, Marker("item", {"all"}), Marker("item", {UnboundedStorageLoop}),
     Marker("file", {UnboundedStorageLoop, MissingRequireAuth})}

On(line, nodes) ==
    [i \in DOMAIN nodes |->
        IF nodes[i].kind = "call" /\ nodes[i].key # None
        THEN [nodes[i] EXCEPT !.line = line, !.key.line = line]
        ELSE [nodes[i] EXCEPT !.line = line]]

MarkedFiles ==
    {[fns |-> <<Function("first", On(7, <<For(None, 2, 2), Set("instance", CountName, 2)>>), 6),
               Function("second", On(10, Change), 10)>>,
      items |-> {[from |-> 5, to |-> 10], [from |-> 6, to |-> 7], [from |-> 10, to |-> 10]},
      lines |-> <<l1, l2, l3, l4, Code, Code, Code, l8, l9, Code>>] :
        l1 \in Above, l2 \in {Comment, Code}, l3 \in {Blank, Comment}, l4 \in Above,
        l8 \in Above, l9 \in Above}

MCFiles == NestedFiles \cup RowFiles \cup SumFiles \cup LetFiles \cup {AuthFile} \cup MarkedFiles

(***************************************************************************)
(* Rule files: the ones shipped, and a set with gaps.                      *)
(***************************************************************************)
RuleFile(id) == [id |-> id, version |-> 1, lacking |-> {}]

Shipped == [k \in 1..Len(Registry) |-> RuleFile(Registry[k])]

Flawed ==
    <<RuleFile(MissingRequireAuth), None, RuleFile(UnboundedStorageLoop),
      [RuleFile(UncheckedArithmetic) EXCEPT !.version = 99],
      RuleFile(UnboundedStorageLoop), [RuleFile(StorageDurability) EXCEPT !.lacking = {"title"}]>>

MCRuleSources == {Shipped, Flawed}

=============================================================================
