---------------------------- MODULE MCAcceptStore ----------------------------
(* Model-checking instance of AcceptStore: two goroutines, two results.    *)
EXTENDS AcceptStore
CONSTANTS c1, c2, r1, r2
MCCaller == {c1, c2}
MCResult == {r1, r2}
=============================================================================
