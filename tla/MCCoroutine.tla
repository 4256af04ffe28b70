----------------------------- MODULE MCCoroutine -----------------------------
(* Coroutine with two script coroutines, one of them wrapped, a generator and a
   coroutine whose body makes no calls. *)
EXTENDS Coroutine, TLC

CONSTANTS a, w, g, l

Bodies == a :> "script" @@ w :> "script" @@ g :> "generator" @@ l :> "leaf"
Wrappers == {w, g}
CallWays == w :> {"direct", "native"} @@ g :> {"direct", "native"}
=============================================================================
