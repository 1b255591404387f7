------------------------------- MODULE RelStore -------------------------------
(***************************************************************************)
(* What FPWRITE and FPSCAN promise, without tiers: a partition is an       *)
(* append-only log of rows, and a scan answers with the log as it is when  *)
(* it finishes.  A row is named by its position in the log.                *)
(***************************************************************************)
EXTENDS Integers, Sequences

CONSTANTS Partitions, WriteSizes

VARIABLES
    log,        \* partition -> its rows
    answer      \* <<partition, rows>> while a scan hands its answer out

Init ==
    /\ log = [p \in Partitions |-> << >>]
    /\ answer = << >>

Write(p, n) ==
    /\ answer = << >>
    /\ log' = [log EXCEPT ![p] = @ \o [i \in 1 .. n |-> Len(@) + i]]
    /\ UNCHANGED answer

Scan(p) ==
    /\ answer = << >>
    /\ answer' = <<p, log[p]>>
    /\ UNCHANGED log

Answered ==
    /\ answer # << >>
    /\ answer' = << >>
    /\ UNCHANGED log

Next ==
    \/ \E p \in Partitions :
          \/ \E n \in WriteSizes : Write(p, n)
          \/ Scan(p)
    \/ Answered

Spec == Init /\ [][Next]_<<log, answer>>
=============================================================================
