----------------------------- MODULE MCTaskGroup -----------------------------
(* TaskGroup with three tasks: Main starts a and c, and b is started by a, or by
   c, which the configurations start with go. *)
EXTENDS TaskGroup, TLC

CONSTANTS a, b, c

\* Who starts which task.  The configuration uses Nested; with Outside, where c starts b
\* and is not a task of the group itself, NoPanic is violated.
Nested == a :> Main @@ b :> a @@ c :> Main
Outside == a :> Main @@ b :> c @@ c :> Main
=============================================================================
