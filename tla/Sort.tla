-------------------------------- MODULE Sort --------------------------------
(***************************************************************************)
(* SORT (sort.c) over a list, a set or a sorted set, on a master and on the *)
(* replica that executes the same command.                                  *)
(*                                                                         *)
(* An object is a number that is its place in the order of strings;         *)
(* SoNumber gives the number the string reads as.  The weight keys hold an   *)
(* object for each element, or Missing.  Hash tables are walked in an order  *)
(* of their own on each server.                                             *)
(***************************************************************************)
EXTENDS Integers, Sequences, FiniteSets, SequencesExt, FiniteSetsExt

CONSTANTS SoNumber,  \* object -> number, or NotNumber
          SoLong,    \* a long holds -SoLong .. SoLong - 1
          SoStarts   \* set of starts, see SoInit

VARIABLES so, soRes
soVars == <<so, soRes>>

Missing == 0
NotNumber == 99
long(x) == ((x + SoLong) % (2 * SoLong)) - SoLong

\* What the element is compared by: its weight or itself.
Key(q, w, x) == IF q.by = "pattern" THEN w[x] ELSE x
Score(q, w, x) == IF Key(q, w, x) = Missing THEN 0 ELSE SoNumber[Key(q, w, x)]

\* A weight that is missing comes first; weights that are equal leave the
\* order open when they are compared as strings.
sortCompare(q, w, x, y) ==
    LET cmp == IF ~q.alpha
               THEN IF Score(q, w, x) # Score(q, w, y) THEN Score(q, w, x) - Score(q, w, y) ELSE x - y
               ELSE Key(q, w, x) - Key(q, w, y)
    IN  IF q.desc THEN -cmp ELSE cmp

\* qsort, and pqsort for the part that is sent.
SortBy(q, w, vector) ==
    LET Insert(s, x) == InsertAt(s, Cardinality({i \in DOMAIN s : sortCompare(q, w, s[i], x) <= 0}) + 1, x)
    IN  FoldLeft(Insert, <<>>, vector)

lookupKeyByPattern(w, pattern, x) == IF pattern = "#" THEN x ELSE w[x]

\* LIMIT as the positions start..end.
Bounds(q, n) ==
    LET start == IF q.start < 0 THEN 0 ELSE q.start
        end == IF q.count < 0 THEN n - 1 ELSE long(start + q.count - 1)
    IN  IF start >= n THEN [start |-> n - 1, end |-> n - 2] ELSE [start |-> start, end |-> IF end >= n THEN n - 1 ELSE end]

\* A set is sorted all the same when the result is stored or goes to a script.
Forced(val, q) ==
    IF q.by = "const" /\ val.kind = "set" /\ (q.store \/ q.lua) THEN [q EXCEPT !.by = "none", !.alpha = TRUE] ELSE q

\* Lists and sorted sets that are not sorted: the range is loaded in place.
DirectRange(val, q, b) ==
    LET native == IF q.desc THEN Reverse(val.seq) ELSE val.seq
    IN  IF b.end >= b.start THEN SubSeq(native, b.start + 1, b.end + 1) ELSE <<>>

\* The number announced and the objects sent or stored; walk is the order of
\* the hash table.
sortCommand(val, walk, w, asked) ==
    LET q == Forced(val, asked)
        b == Bounds(q, Len(val.seq))
        direct == q.by = "const" /\ val.kind # "set"
        vector == IF val.kind = "list" THEN val.seq ELSE walk
        sorted == IF q.by = "const" THEN vector ELSE SortBy(q, w, vector)
        range == IF direct THEN DirectRange(val, q, b)
                 ELSE IF b.end >= b.start THEN SubSeq(sorted, b.start + 1, b.end + 1) ELSE <<>>
        gets == IF q.get = <<>> THEN <<"#">> ELSE q.get
        n == b.end - b.start + 1
    IN  IF q.by # "const" /\ ~q.alpha /\ \E i \in DOMAIN vector : Score(q, w, vector[i]) = NotNumber
        THEN [err |-> TRUE, n |-> 0, out |-> <<>>]
        ELSE [err |-> FALSE, n |-> n * Len(gets),
              out |-> FlattenSeq([i \in DOMAIN range |-> [g \in DOMAIN gets |-> lookupKeyByPattern(w, gets[g], range[i])]])]

----------------------------------------------------------------------------
NoResult == [q |-> [none |-> TRUE], m |-> <<>>, r |-> <<>>]

SoInit ==
    /\ \E s \in SoStarts : so = s
    /\ soRes = NoResult

\* The command on the master and, propagated when it stores, on the replica.
SoSort(q) ==
    /\ soRes = NoResult
    /\ soRes' = [q |-> q, m |-> <<sortCommand(so.val, so.walk[1], so.w, q)>>, r |-> <<sortCommand(so.val, so.walk[2], so.w, q)>>]
    /\ UNCHANGED so

SoNext == \E q \in so.queries : SoSort(q)

----------------------------------------------------------------------------
\* The reference: the positions LIMIT keeps, and for each element the
\* positions it may have.
Kept(q, n) == {p \in 0..(n - 1) : p >= q.start /\ (q.count >= 0 => p < Max({q.start, 0}) + q.count)}
Ahead(q, w, y, x) ==
    LET key(e) == IF q.by = "pattern" THEN w[e] ELSE e
        num(e) == IF key(e) = Missing THEN 0 ELSE SoNumber[key(e)]
        less(a, b) == IF q.alpha THEN key(a) < key(b) ELSE num(a) < num(b) \/ (num(a) = num(b) /\ a < b)
    IN  IF q.desc THEN less(x, y) ELSE less(y, x)
Places(q, w, s, x) ==
    Cardinality({i \in DOMAIN s : Ahead(q, w, s[i], x)}) .. (Len(s) - 1 - Cardinality({i \in DOMAIN s : Ahead(q, w, x, s[i])}))
Times(s, x) == Cardinality({i \in DOMAIN s : s[i] = x})

\* What SORT sends is what LIMIT keeps of the elements in order: each at a
\* place the order leaves it, no more often than it is there, a list or a
\* sorted set that is not to be sorted in its own order; and the number
\* announced is the number sent.
SortIsRight ==
    soRes # NoResult =>
        LET q == soRes.q
            r == soRes.m[1]
            s == so.val.seq
            kept == Kept(q, Len(s))
            free == q.by = "const" /\ so.val.kind = "set" /\ ~q.store /\ ~q.lua
            order == IF q.by = "const" THEN [q EXCEPT !.alpha = TRUE] ELSE q
            native == IF q.desc THEN Reverse(s) ELSE s
        IN  ~r.err => /\ r.n = Len(r.out)
                      /\ Len(r.out) = Cardinality(kept) * Max({1, Len(q.get)})
                      /\ q.get = <<>> => \A i \in DOMAIN r.out :
                            LET p == Min(kept) + i - 1 IN
                            /\ Times(r.out, r.out[i]) <= Times(s, r.out[i])
                            /\ CASE free -> TRUE
                                 [] q.by = "const" /\ so.val.kind # "set" -> r.out[i] = native[p + 1]
                                 [] OTHER -> p \in Places(order, so.w, s, r.out[i])

\* SORT ... STORE leaves the replica with the master's list, though the two
\* walk a hash table in different orders ("the result is consistent across
\* scripting and replication").
SortReplicates == soRes # NoResult /\ soRes.q.store => soRes.m = soRes.r

\* SORT ... STORE leaves the replica with the master's list, except where strings
\* are compared by weights that are equal (sortCompare).
SortReplicatesUntied ==
    (soRes # NoResult /\ soRes.q.alpha /\ soRes.q.by = "pattern") \/ SortReplicates
=============================================================================
