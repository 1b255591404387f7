------------------------------ MODULE FifoQueue ------------------------------
(***************************************************************************)
(* What a queue promises its users, independent of how it is stored.       *)
(* FifoSpec is the queue every caller of circular_queue.c expects:         *)
(* unbounded, nothing lost, first in first out.  LossySpec is weaker: an   *)
(* insertion may drop entries, but what stays keeps its order, nothing is  *)
(* duplicated or invented, and a removal returns the oldest entry left.    *)
(***************************************************************************)
EXTENDS Integers, Sequences, FiniteSets

CONSTANTS
    Entries,
    NULL            \* what a removal from an empty queue returns

VARIABLES
    items,          \* the entries, oldest first
    last            \* the last call, with the entry it was given or returned

vars == <<items, last>>

Init == items = << >> /\ last = <<"create">>

Put(e) ==
    /\ items' = Append(items, e)
    /\ last' = <<"put", e>>

Take ==
    \/ items # << >> /\ items' = Tail(items) /\ last' = <<"take", Head(items)>>
    \/ items = << >> /\ UNCHANGED items /\ last' = <<"take", NULL>>

Clear == items' = << >> /\ last' = <<"clear">>

FifoSpec == Init /\ [][(\E e \in Entries : Put(e)) \/ Take \/ Clear]_vars

\* The subsequence of s at the positions of the set I.
Kept(s, I) ==
    [k \in 1 .. Cardinality(I) |->
        s[CHOOSE i \in I : Cardinality({j \in I : j < i}) = k - 1]]

LossyPut(e) ==
    /\ \E I \in SUBSET (1 .. Len(items)) : items' = Append(Kept(items, I), e)
    /\ last' = <<"put", e>>

LossySpec == Init /\ [][(\E e \in Entries : LossyPut(e)) \/ Take \/ Clear]_vars
=============================================================================
