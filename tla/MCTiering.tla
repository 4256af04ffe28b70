------------------------------ MODULE MCTiering ------------------------------
(* Tiering for two prototypes: f has a loop that calls g. *)
EXTENDS Tiering, TLC

CONSTANTS f, g

CallsG == f :> {g} @@ g :> {}

\* Declared functions, and function literals.  The configurations use Declared; with
\* Anonymous, ResumesItsFunction is violated.
Declared == f :> "f" @@ g :> "g"
Anonymous == f :> "<anonymous>" @@ g :> "<anonymous>"
=============================================================================
