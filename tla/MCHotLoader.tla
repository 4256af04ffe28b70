---------------------------- MODULE MCHotLoader ----------------------------
(* HotLoader on small instances.  Every constant is a set of model values or
   a bound and is given by the configuration. *)
EXTENDS HotLoader
=============================================================================
