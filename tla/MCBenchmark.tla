---------------------------- MODULE MCBenchmark -----------------------------
(***************************************************************************)
(* CPUs for the runs of Benchmark.                                         *)
(***************************************************************************)
EXTENDS Benchmark

CONSTANTS t1, t2

TwoThreads == {t1, t2}

=============================================================================
