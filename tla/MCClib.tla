------------------------------- MODULE MCClib -------------------------------
(***************************************************************************)
(* TLC's instance of the C library: two threads, and both ways an engine   *)
(* fails on a source. One it accepts takes the path of one it recovers on. *)
(***************************************************************************)
EXTENDS Clib

CONSTANTS t1, t2

TwoThreads == {t1, t2}

Failing == {"caught", "crash"}
MCAnswer == [src \in Sources |-> IF src = "crash" THEN "panic" ELSE "recovered"]
=============================================================================
