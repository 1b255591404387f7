----------------------------- MODULE MCCluster -----------------------------
(***************************************************************************)
(* The five protocols of the cluster bus side by side: part says which one   *)
(* moves in a behaviour, the others stay in an initial state.                *)
(***************************************************************************)
EXTENDS ClusterEpoch, ClusterGossip, ClusterAdmin, TLC

VARIABLE part
busVars == <<part, epochVars, fdVars, slotVars, mfVars, meetVars>>

NoOps == [fail |-> 0, force |-> 0, takeover |-> 0, bump |-> 0, restart |-> 0, inflight |-> 0]
NoFail == [n \in Names |-> {}]
Agreed == [i \in Names |-> [j \in SlotIds |-> j]]

\* Three masters, of which 1 has failed, and two replicas of it.
TwoReplicas == [masterOf |-> [n \in Names |-> IF n > 3 THEN 1 ELSE 0],
                ownerOf |-> Agreed,
                epochOf |-> [n \in Names |-> IF n <= 3 THEN n ELSE 1],
                failOf |-> [n \in Names |-> IF n = 1 THEN {} ELSE {1}],
                links |-> <<{}, {4, 5}, {4, 5}, {2, 3}, {2, 3}>>,
                budget |-> [NoOps EXCEPT !.restart = 1]]
\* Three masters that start with the same epoch, two of them claim slot 1,
\* of which 2 has another one.
Colliding == [masterOf |-> [n \in Names |-> 0],
              ownerOf |-> [i \in Names |-> IF i = 2 THEN <<2, 2, 3>> ELSE <<1, 0, 3>>],
              epochOf |-> [n \in Names |-> 0],
              failOf |-> NoFail,
              links |-> <<{2, 3}, {1, 3}, {1, 2}, {}, {}>>,
              budget |-> [NoOps EXCEPT !.inflight = 1]]
\* The replica of 1 takes over.
Takeover == [masterOf |-> [n \in Names |-> IF n > 3 THEN 1 ELSE 0],
             ownerOf |-> Agreed,
             epochOf |-> [n \in Names |-> IF n <= 3 THEN n ELSE 1],
             failOf |-> NoFail,
             links |-> <<{2, 4}, {1, 4}, {}, {1, 2}, {}>>,
             budget |-> [NoOps EXCEPT !.takeover = 1, !.bump = 1, !.restart = 1, !.inflight = 1]]
\* The replica 4 of 1 is told to fail over by force; 2 flags 1 as failing or not.
Forced == [Takeover EXCEPT !.links = <<{}, {4}, {4}, {2, 3}, {}>>,
                           !.budget = [NoOps EXCEPT !.fail = 1, !.force = 1]]
Starts == {TwoReplicas, Colliding, Takeover, Forced}
LateStarts == {[TwoReplicas EXCEPT !.budget = NoOps]}

\* Failure detection among the masters 1, 2 and 3, of which 1 is cut off; with a
\* slow node and a restart; and of the replica 4.
AllTalk(S) == {<<a, b>> \in S \X S : a # b}
NoFaults == [cut |-> 0, heal |-> 0, slow |-> 0, restart |-> 0, talk |-> AllTalk({1, 2, 3}), separable |-> {1}]
Faults == {[NoFaults EXCEPT !.cut = 1, !.heal = 1],
           [NoFaults EXCEPT !.slow = 1, !.restart = 1],
           [NoFaults EXCEPT !.cut = 1, !.heal = 1, !.talk = {<<2, 3>>, <<3, 2>>, <<2, 4>>}, !.separable = {4}]}

\* Resharding with lost replies; with a deletion and multi-key writes; by hand.
NoSlotOps == [faults |-> 0, dels |-> 0, admin |-> 0, multi |-> FALSE, fresh |-> {}, repaired |-> FALSE]
Resharding == {[NoSlotOps EXCEPT !.faults = 2],
               [NoSlotOps EXCEPT !.dels = 1, !.multi = TRUE],
               [NoSlotOps EXCEPT !.admin = 2]}

\* Two nodes and a third one that meets them; three that meet; a move; and
\* CLUSTER FORGET and RESET among it.
NoMeet == [meet |-> 0, forget |-> 0, reset |-> 0, move |-> 0, timeout |-> 0, inflight |-> 1,
           reuse |-> FALSE, mesh |-> FALSE]
Pair == <<{1, 2}, {1, 2}, {3}>>
Trio == <<{1, 2, 3}, {1, 2, 3}, {1, 2, 3}>>
Meetings ==
    {[groups |-> Pair, budget |-> [NoMeet EXCEPT !.meet = 1, !.mesh = TRUE, !.inflight = 2]],
     [groups |-> <<{1}, {2}, {3}>>, budget |-> [NoMeet EXCEPT !.meet = 2, !.mesh = TRUE]],
     [groups |-> Trio, budget |-> [NoMeet EXCEPT !.move = 2, !.mesh = TRUE]],
     [groups |-> Pair, budget |-> [NoMeet EXCEPT !.move = 2, !.reuse = TRUE]],
     [groups |-> Pair, budget |-> [NoMeet EXCEPT !.meet = 1, !.forget = 1, !.timeout = 1]],
     [groups |-> Trio, budget |-> [NoMeet EXCEPT !.forget = 1, !.reset = 1]],
     [groups |-> Pair, budget |-> [NoMeet EXCEPT !.meet = 1, !.reset = 1]]}

Init ==
    /\ part \in {"epoch", "fail", "reshard", "manual", "meet"}
    /\ EpochInit /\ (part # "epoch" => busBudget.inflight + busBudget.force = 0)
    /\ FdInit /\ (part # "fail" => fdBudget.slow = 1)
    /\ SlotInit /\ (part # "reshard" => slotBudget.faults = 2)
    /\ MfInit
    /\ MeetInit /\ (part # "meet" => meetBudget.timeout = 1)

Next ==
    \/ part = "epoch" /\ EpochNext /\ UNCHANGED <<part, fdVars, slotVars, mfVars, meetVars>>
    \/ part = "fail" /\ FdNext /\ UNCHANGED <<part, epochVars, slotVars, mfVars, meetVars>>
    \/ part = "reshard" /\ SlotNext /\ UNCHANGED <<part, epochVars, fdVars, mfVars, meetVars>>
    \/ part = "manual" /\ MfNext /\ UNCHANGED <<part, epochVars, fdVars, slotVars, meetVars>>
    \/ part = "meet" /\ MeetNext /\ UNCHANGED <<part, epochVars, fdVars, slotVars, mfVars>>

Spec == Init /\ [][Next]_busVars

\* The election alone.
LateSpec == Init /\ part = "epoch" /\ [][Next]_busVars
=============================================================================
