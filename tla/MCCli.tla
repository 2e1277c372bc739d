--------------------------------- MODULE MCCli ---------------------------------
(* Instances of Cli; the invocations are interchangeable. *)
EXTENDS Cli, TLC

Symmetry == Permutations(Procs)
================================================================================
