------------------------------- MODULE MCRepl -------------------------------
(***************************************************************************)
(* Replication, and the Sentinels and their scripts.  replPart says which    *)
(* one moves in a behaviour.                                                 *)
(***************************************************************************)
EXTENDS Replication, Sentinel, TLC

VARIABLE replPart
haVars == <<replPart, replVars, senVars, scriptVars>>

\* Two instances that have never talked, or three that are in sync.
NoRepl == [write |-> 0, break |-> 0, drop |-> 0, bgsave |-> 0, bgfail |-> 0, slaveof |-> 0, noone |-> 0, free |-> 0,
           restart |-> 0, uncounted |-> FALSE, guessed |-> FALSE, live |-> {1, 2}, dbs |-> {0, 1}]
Two(b) == [synced |-> FALSE, master |-> <<0, 1, 0>>, budget |-> b @@ NoRepl]
Three(m, b) == [synced |-> TRUE, master |-> m, budget |-> b @@ [live |-> {1, 2, 3}, dbs |-> {1}] @@ NoRepl]
Joining == [Three(<<0, 1, 1>>, [write |-> 1, bgfail |-> 1]) EXCEPT !.synced = FALSE]
Histories ==
    {Joining,
     Two([write |-> 3, break |-> 1, drop |-> 1]),
     Three(<<0, 1, 1>>, [break |-> 2, write |-> 1, bgfail |-> 1]),
     Three(<<0, 1, 2>>, [dbs |-> {0, 1}, write |-> 2, break |-> 1]),
     Three(<<0, 1, 2>>, [write |-> 1, noone |-> 1]),
     Two([write |-> 2, slaveof |-> 1, noone |-> 1]),
     Three(<<0, 1, 1>>, [write |-> 1, slaveof |-> 1, noone |-> 1]),
     Two([write |-> 2, restart |-> 1, bgsave |-> 1]),
     Two([write |-> 2, free |-> 1, break |-> 1])}
BacklogFreed == {Two([write |-> 2, slaveof |-> 1, noone |-> 1, free |-> 1])}

\* The master fails; or it is down already, and Sentinels crash, are late, see
\* it come back, or are told to fail over.
NoSen == [awake |-> {1}, ask |-> 0, late |-> 0, stale |-> 0, blind |-> 0, delay |-> 0, fix |-> 0, hello |-> 0, force |-> 0,
          crash |-> 0, down |-> 0, up |-> 0, expired |-> FALSE]
Up(b) == [odown |-> FALSE, budget |-> b @@ NoSen]
Odown(b) == [odown |-> TRUE, budget |-> b @@ NoSen]
Failovers ==
    {Up([awake |-> {1, 2}, down |-> 1, ask |-> 3, hello |-> 1]),
     Up([awake |-> {1, 2}, ask |-> 1, hello |-> 1, blind |-> 2, stale |-> 1]),
     Up([awake |-> {1, 2}, hello |-> 1, blind |-> 1, force |-> 1]),
     Odown([awake |-> {1, 2}, ask |-> 3, crash |-> 1]),
     Odown([ask |-> 2, crash |-> 1, hello |-> 1]),
     Odown([ask |-> 2, hello |-> 1, up |-> 1, fix |-> 2]),
     Odown([ask |-> 2, hello |-> 1, delay |-> 1, late |-> 1])}
FailoverTimeout == {Odown([awake |-> {1, 2}, ask |-> 2, late |-> 1])}
Scripts == {[events |-> 4, forks |-> 1, kills |-> 1]}

Init ==
    /\ replPart \in {"replication", "sentinel", "scripts"}
    /\ ReplInit /\ (replPart # "replication" => replBudget = Joining.budget)
    /\ SenInit /\ (replPart # "sentinel" => senBudget.force = 1)
    /\ ScriptInit

InitSentinel == replPart = "sentinel" /\ ReplInit /\ SenInit /\ ScriptInit
InitScripts == replPart = "scripts" /\ ReplInit /\ SenInit /\ ScriptInit

Next ==
    /\ UNCHANGED replPart
    /\ \/ replPart = "replication" /\ ReplNext /\ UNCHANGED <<senVars, scriptVars>>
       \/ replPart = "sentinel" /\ SenNext /\ UNCHANGED <<replVars, scriptVars>>
       \/ replPart = "scripts" /\ ScriptNext /\ UNCHANGED <<replVars, senVars>>

Spec == Init /\ [][Next]_haVars
SpecSentinel == InitSentinel /\ [][Next]_haVars
SpecScripts == InitScripts /\ [][Next]_haVars
SpecReplication == replPart = "replication" /\ ReplInit /\ SenInit /\ ScriptInit /\ [][Next]_haVars
=============================================================================
