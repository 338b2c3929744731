------------------------------ MODULE MCTracker ------------------------------
(* An instance of Tracker for TLC: a C node and the Rust node, with the      *)
(* times of the code scaled down so that their order is kept.                *)
EXTENDS Tracker

CONSTANTS c1, rust

First == [n \in Node |-> IF n = rust THEN 0 ELSE 1]
Interval == [n \in Node |-> IF n = rust THEN 2 ELSE 1]
PollTime == [n \in Node |-> 1]
=============================================================================
