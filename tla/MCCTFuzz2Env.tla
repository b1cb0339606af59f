---------------------------- MODULE MCCTFuzz2Env ----------------------------
(***************************************************************************)
(* Small instances of CTFuzz2Env.                                          *)
(***************************************************************************)
EXTENDS CTFuzz2Env

\* Every action once, or the first one twice.
OnceEach == [a \in Actions |-> 1]
EraseTwice == [a \in Actions |-> IF a = "erase" THEN 2 ELSE 1]
=============================================================================
