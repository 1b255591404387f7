----------------------------- MODULE MCProgress -----------------------------
(***************************************************************************)
(* What must eventually happen: eviction with rings that need not grow, the *)
(* background jobs, clients blocked on a slot that moves, a manual failover. *)
(* live says which part moves in a behaviour.                               *)
(***************************************************************************)
EXTENDS Tiering, Bio, ClusterAdmin, TLC

VARIABLE live
liveVars == <<live, vars, bioJobVars, slotVars, mfVars>>

\* A slot moves without faults, or is reassigned by hand.
NoSlotOps == [faults |-> 0, dels |-> 0, admin |-> 0, multi |-> FALSE, fresh |-> {}, repaired |-> FALSE]
Resharding == {[NoSlotOps EXCEPT !.faults = 1], [NoSlotOps EXCEPT !.admin = 2]}

PrInit ==
    /\ live \in {"tiering", "bio", "reshard", "manual"}
    /\ Init /\ BioInit /\ MfInit
    /\ SlotInit /\ (live # "reshard" => slotBudget.faults = 1)

PrNext ==
    /\ UNCHANGED live
    /\ \/ live = "tiering" /\ Next /\ UNCHANGED <<bioJobVars, slotVars, mfVars>>
       \/ live = "bio" /\ BioNext /\ UNCHANGED <<vars, slotVars, mfVars>>
       \/ live = "reshard" /\ SlotNext /\ UNCHANGED <<vars, bioJobVars, mfVars>>
       \/ live = "manual" /\ MfNext /\ UNCHANGED <<vars, bioJobVars, slotVars>>

\* The operating system schedules the threads, clusterCron and clientsCron run
\* for ever, and a link delivers.
PrSpec ==
    /\ PrInit /\ [][PrNext]_liveVars
    /\ WF_vars(live = "tiering" /\ MainStep) /\ WF_vars(live = "tiering" /\ BioStep)
    /\ WF_bioJobVars(live = "bio" /\ WorkerStep)
    /\ \A t \in Waiters : WF_bioJobVars(live = "bio" /\ WaitReturn(t))
    /\ WF_slotVars(live = "reshard" /\ RedirectBlocked)
    /\ WF_mfVars(live = "manual" /\ MfDeadline) /\ WF_mfVars(live = "manual" /\ MfMasterCron)
    /\ WF_mfVars(live = "manual" /\ MfSlaveCron) /\ WF_mfVars(live = "manual" /\ OldMasterDemoted)
    /\ WF_mfVars(live = "manual" /\ ReceiveMFStart)
=============================================================================
