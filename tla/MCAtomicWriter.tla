---------------------------- MODULE MCAtomicWriter ----------------------------
(***************************************************************************)
(* Instances of AtomicWriter for TLC.                                      *)
(***************************************************************************)
EXTENDS AtomicWriter
====
