------------------------------ MODULE Suppress ------------------------------
(***************************************************************************)
(* soroban-analyzer/src/suppress.rs: the comment markers that excuse a     *)
(* finding, on the lines of a file. A line is [text, marker]: `text' is    *)
(* "comment" when it starts with `//', "blank" or "code"; `marker' is None *)
(* or what the comment asks for, [scope, rules]. An item is the range of   *)
(* lines it covers, attributes and doc comments included.                  *)
(***************************************************************************)
EXTENDS Naturals, Sequences

CONSTANTS
    None,
    LookUpLines     \* how far above an item a marker may be

\* A marker whose list is exactly `all' excuses every rule; an empty list is
\* no marker.
Excuses(marker, rule) == marker.rules = {"all"} \/ rule \in marker.rules

Allows(line, scope, rule) ==
    /\ line.text = "comment" /\ line.marker # None
    /\ line.marker.scope = scope /\ Excuses(line.marker, rule)

\* The comment lines before the first line of code.
LeadingCommentLines(file) ==
    {l \in 1..Len(file.lines) :
        /\ file.lines[l].text = "comment"
        /\ \A k \in 1..l : file.lines[k].text # "code"}

\* Where the items that contain a line begin, the inner ones and the outer ones.
EnclosingItems(file, line) ==
    {item.from : item \in {i \in file.items : i.from <= line /\ line <= i.to}}

\* The block without its bound and without its continuity.
AnywhereAbove(file, start) == {l \in 1..(start - 1) : file.lines[l].text = "comment"}

\* The unbroken run of comment lines that ends just above a line.
CommentBlockAbove(file, start) ==
    {l \in 1..(start - 1) :
        /\ start <= l + LookUpLines
        /\ \A k \in l..(start - 1) : file.lines[k].text = "comment"}

IsSuppressed(file, rule, line) ==
    \/ \E l \in LeadingCommentLines(file) : Allows(file.lines[l], "file", rule)
    \/ \E start \in EnclosingItems(file, line) :
          \E l \in CommentBlockAbove(file, start) : Allows(file.lines[l], "item", rule)

=============================================================================
