------------------------- MODULE MCDeveloperTools -------------------------
(* One script of three lines, one inside each function: a run can stop on  *)
(* a line, pass it, or end the program.  Three places for a breakpoint,    *)
(* two of them in the script and one in another that is only edited, and   *)
(* room for two.                                                           *)
(* The Explorer starts with any report of three entries over three         *)
(* objects, repeated, missing, self-named and looping ones among them, and *)
(* is told of two of them later, in any relation, or of none.  The         *)
(* settings start from any of five entries.                                *)
EXTENDS Workbench

MCScripts == {"a"}
MCSpots == {[script |-> "a", line |-> l] : l \in {2, 3}} \cup {[script |-> "b", line |-> 2]}
MCExpressions == {"x"}

MCEntries == [id : Objects, parent : Objects \cup {None}]
MCReports == [1 .. 3 -> MCEntries]
MCLaterReports ==
    {<<>>} \cup {r \in [1 .. 2 -> MCEntries] :
        /\ r[1].id # r[2].id
        /\ r[1].parent \in {None, r[2].id} /\ r[2].parent \in {None, r[1].id}}
\* "", "update" and "s", which ranks Show Update first and New Folder last.
MCQueries == {
    Everything,
    [c \in CommandIds |-> IF c \in {"updates-check", "updates-show"} THEN 3 ELSE 0],
    [c \in CommandIds |-> CASE c = "updates-show" -> 4 [] c = "new-folder" -> 1 [] OTHER -> 3]}
\* Nothing, nothing that can be read, an early build's entry, timeouts out of
\* range or of another type, and what a hand may have left.
Number(n) == [type |-> "number", finite |-> TRUE, is |-> n]
MCStoredEntries == {
    [status |-> "missing"], [status |-> "unreadable"],
    [status |-> "found", fields |-> [fontSize |-> Number(16)]],
    [status |-> "found", fields |-> [
        timeoutMs |-> Number(10), injectTimeoutMs |-> Number(40000),
        backendId |-> [type |-> "string", finite |-> TRUE, is |-> "of-a-later-build"],
        backendStartupTimeoutMs |-> Number(1499),
        healthCheckIntervalMs |-> [type |-> "object", finite |-> TRUE, is |-> 0],
        autoDetect |-> [type |-> "string", finite |-> TRUE, is |-> FALSE]]],
    [status |-> "found", fields |-> [
        timeoutMs |-> [type |-> "number", finite |-> FALSE, is |-> 0],
        injectTimeoutMs |-> Number(2500), fontSize |-> Number(-3), tabSize |-> Number(3),
        theme |-> [type |-> "string", finite |-> TRUE, is |-> "purple"]]]}
MCSymmetry == Permutations(Objects)
=============================================================================
