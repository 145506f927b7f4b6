------------------------------ MODULE EventMC ------------------------------
(* Values for model checking Event. *)
EXTENDS Event

Interchangeable == Permutations(Requests) \cup Permutations(Fields) \cup Permutations(People)
                   \cup Permutations(Tests)

Override(text, custom, publish, hidden) ==
  [text |-> text, custom |-> custom, publish |-> publish, hidden |-> hidden, replace |-> FALSE]

\* every reason a contestant's own briefing can be shown or withheld for
SomeOverrides == {Override("default", FALSE, None, TRUE), Override("default", TRUE, None, FALSE),
                  Override("empty", TRUE, 1, FALSE)}
=============================================================================
