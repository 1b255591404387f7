-------------------------------- MODULE Rax --------------------------------
(***************************************************************************)
(* The radix tree (rax.c) and the index of keys by hash slot kept in it (db.c): *)
(* nodes that are split and joined as keys come and go, and an iterator that    *)
(* climbs the tree.  A node is [key, compr, data, kids]; a place in the tree is   *)
(* the sequence of child positions that leads to it from the head.              *)
(***************************************************************************)
EXTENDS Integers, Sequences, FiniteSets, SequencesExt

CONSTANTS RaxWords,      \* indexed keys: the two bytes of the slot, then the key
          RaxProbes,     \* words to seek
          RaxStarts      \* [words, menu]

VARIABLES rax, slotsCount, raxRef, raxMenu
raxVars == <<rax, slotsCount, raxRef, raxMenu>>

RaxNode(key, data, kids) == [key |-> key, compr |-> Len(data) > 1 /\ Len(kids) = 1, data |-> data, kids |-> kids]
raxNewNode == RaxNode(FALSE, <<>>, <<>>)
raxNew == [head |-> raxNewNode, numele |-> 0, numnodes |-> 1]
Single(n) == ~n.key /\ (n.compr \/ Len(n.data) = 1)

RECURSIVE NodeAt(_, _)
NodeAt(n, path) == IF path = <<>> THEN n ELSE NodeAt(n.kids[Head(path)], Tail(path))
RECURSIVE SetNode(_, _, _)
SetNode(n, path, new) == IF path = <<>> THEN new ELSE [n EXCEPT !.kids[Head(path)] = SetNode(@, Tail(path), new)]
Put(t, path, new) == [t EXCEPT !.head = SetNode(@, path, new)]

\* Walks down along s from character i on: [path, i, j], j the characters matched
\* in the compressed node where the walk ends.
RECURSIVE WalkFrom(_, _, _, _)
WalkFrom(n, path, s, i) ==
    LET same == CHOOSE k \in 0 .. Len(n.data) : /\ \A x \in 1 .. k : i + x <= Len(s) /\ n.data[x] = s[i + x]
                                                /\ k = Len(n.data) \/ i + k = Len(s) \/ n.data[k + 1] # s[i + k + 1]
        child == {x \in 1 .. Len(n.data) : n.data[x] = s[i + 1]}
    IN  IF n.data = <<>> \/ i = Len(s) THEN [path |-> path, i |-> i, j |-> 0]
        ELSE IF n.compr THEN IF same = Len(n.data) THEN WalkFrom(n.kids[1], path \o <<1>>, s, i + same)
                             ELSE [path |-> path, i |-> i + same, j |-> same]
        ELSE IF child = {} THEN [path |-> path, i |-> i, j |-> 0]
        ELSE LET x == CHOOSE y \in child : TRUE IN WalkFrom(n.kids[x], path \o <<x>>, s, i + 1)
raxLowWalk(t, s) == WalkFrom(t.head, <<>>, s, 0)

-----------------------------------------------------------------------------
\* The new child goes where its character belongs.
raxAddChild(n, c) ==
    LET pos == CHOOSE p \in 1 .. Len(n.data) + 1 : /\ \A x \in 1 .. p - 1 : n.data[x] <= c
                                                  /\ \A x \in p .. Len(n.data) : n.data[x] > c
    IN  [node |-> RaxNode(n.key, InsertAt(n.data, pos, c), InsertAt(n.kids, pos, raxNewNode)), at |-> pos]
raxCompressNode(n, s) == RaxNode(n.key, s, <<raxNewNode>>)

\* The rest of the string below a node.
RECURSIVE AddRest(_, _, _)
AddRest(t, path, rest) ==
    LET h == NodeAt(t.head, path)
        add == raxAddChild(h, rest[1])
    IN  IF rest = <<>> THEN [Put(t, path, [h EXCEPT !.key = TRUE]) EXCEPT !.numele = IF h.key THEN @ ELSE @ + 1]
        ELSE IF h.data = <<>> /\ Len(rest) > 1
             THEN AddRest([Put(t, path, raxCompressNode(h, rest)) EXCEPT !.numnodes = @ + 1], path \o <<1>>, <<>>)
        ELSE AddRest([Put(t, path, add.node) EXCEPT !.numnodes = @ + 1], path \o <<add.at>>, Tail(rest))

\* Algorithm 1: a compressed node is split where a character differs.
SplitAtMismatch(t, w, s) ==
    LET h == NodeAt(t.head, w.path)
        postfix == SubSeq(h.data, w.j + 2, Len(h.data))
        below == IF postfix = <<>> THEN h.kids[1] ELSE RaxNode(FALSE, postfix, h.kids)
        split == RaxNode(w.j = 0 /\ h.key, <<h.data[w.j + 1]>>, <<below>>)
        top == IF w.j = 0 THEN split ELSE RaxNode(h.key, SubSeq(h.data, 1, w.j), <<split>>)
        more == (IF postfix = <<>> THEN 0 ELSE 1) + (IF w.j = 0 THEN 0 ELSE 1)
    IN  AddRest([Put(t, w.path, top) EXCEPT !.numnodes = @ + more], IF w.j = 0 THEN w.path ELSE w.path \o <<1>>,
                SubSeq(s, w.i + 1, Len(s)))
\* Algorithm 2: the string ends inside a compressed node.
SplitAtEnd(t, w) ==
    LET h == NodeAt(t.head, w.path)
        post == RaxNode(TRUE, SubSeq(h.data, w.j + 1, Len(h.data)), h.kids)
    IN  [Put(t, w.path, RaxNode(h.key, SubSeq(h.data, 1, w.j), <<post>>)) EXCEPT !.numnodes = @ + 1, !.numele = @ + 1]
raxInsert(t, s) ==
    LET w == raxLowWalk(t, s)
        h == NodeAt(t.head, w.path)
    IN  IF w.i = Len(s) /\ (~h.compr \/ w.j = 0) THEN AddRest(t, w.path, <<>>)
        ELSE IF h.compr /\ w.i # Len(s) THEN SplitAtMismatch(t, w, s)
        ELSE IF h.compr THEN SplitAtEnd(t, w)
        ELSE AddRest(t, w.path, SubSeq(s, w.i + 1, Len(s)))
raxFind(t, s) == LET w == raxLowWalk(t, s)
                     h == NodeAt(t.head, w.path)
                 IN  w.i = Len(s) /\ (~h.compr \/ w.j = 0) /\ h.key

-----------------------------------------------------------------------------
raxRemoveChild(n, x) == IF n.compr THEN RaxNode(n.key, <<>>, <<>>)
                        ELSE RaxNode(n.key, RemoveAt(n.data, x), RemoveAt(n.kids, x))
\* Frees a node without children and the chain of single nodes above it:
\* the place of the node that loses a child, and that child.
RECURSIVE FreeUp(_, _)
FreeUp(t, path) ==
    LET up == Front(path)
        n == NodeAt(t.head, up)
        rest == [t EXCEPT !.numnodes = @ - 1]
    IN  IF n.key \/ (~n.compr /\ Len(n.data) # 1) \/ up = <<>> THEN [tree |-> rest, path |-> up, child |-> Last(path)]
        ELSE FreeUp(rest, up)
\* The highest node from which only single nodes lead here, and the first that is not
\* single below.
RECURSIVE ClimbSingle(_, _)
ClimbSingle(t, path) == IF path = <<>> \/ ~Single(NodeAt(t.head, Front(path))) THEN path ELSE ClimbSingle(t, Front(path))
RECURSIVE Chain(_)
Chain(n) == IF n.kids # <<>> /\ Single(n.kids[1]) THEN LET c == Chain(n.kids[1]) IN [nodes |-> c.nodes + 1, data |-> n.data \o c.data, next |-> c.next]
            ELSE [nodes |-> 1, data |-> n.data, next |-> n.kids]
\* (Strings stay below RAX_NODE_MAX_SIZE.)
Recompress(t, path) ==
    LET start == ClimbSingle(t, path)
        c == Chain(NodeAt(t.head, start))
    IN  IF c.nodes = 1 THEN t
        ELSE [Put(t, start, RaxNode(FALSE, c.data, c.next)) EXCEPT !.numnodes = @ + 1 - c.nodes]
\* A key that leaves a node with one character may let it join its neighbours.
CutChild(f, cut) ==
    LET t == Put(f.tree, f.path, cut) IN IF Len(cut.data) = 1 /\ ~cut.key THEN Recompress(t, f.path) ELSE t
CutFreed(f) == CutChild(f, raxRemoveChild(NodeAt(f.tree.head, f.path), f.child))
RemoveAtNode(t0, path, h) ==
    LET t == [Put(t0, path, [h EXCEPT !.key = FALSE]) EXCEPT !.numele = @ - 1]
    IN  IF h.data = <<>> /\ path # <<>> THEN CutFreed(FreeUp(t, path))
        ELSE IF Len(h.data) = 1 THEN Recompress(t, path)
        ELSE t
RemoveFound(t, w) == RemoveAtNode(t, w.path, NodeAt(t.head, w.path))
raxRemove(t, s) == IF raxFind(t, s) THEN RemoveFound(t, raxLowWalk(t, s)) ELSE t

-----------------------------------------------------------------------------
\* The iterator: the place of its node, the key that leads there, whether it is at the
\* end or was just put.
RaxIt(path, key) == [path |-> path, key |-> key, eof |-> FALSE, just |-> FALSE]
Chop(key, n) == SubSeq(key, 1, Len(key) - n)
Width(n) == IF n.compr THEN Len(n.data) ELSE 1
RECURSIVE NextLoop(_, _, _, _)
RECURSIVE NextUp(_, _, _, _)
NextLoop(t, it, orig, noup) ==
    LET n == NodeAt(t.head, it.path)
        down == [it EXCEPT !.path = Append(@, 1), !.key = @ \o SubSeq(n.data, 1, Width(n))]
    IN  IF ~noup /\ n.kids # <<>> THEN IF n.kids[1].key THEN down ELSE NextLoop(t, down, orig, FALSE)
        ELSE NextUp(t, it, orig, noup)
NextUp(t, it, orig, noup) ==
    LET prevchild == Last(it.key)
        path == IF noup THEN it.path ELSE Front(it.path)
        n == NodeAt(t.head, path)
        key == Chop(it.key, Width(n))
        later == {x \in 1 .. Len(n.data) : n.data[x] > prevchild}
        x == CHOOSE y \in later : \A z \in later : y <= z
        there == [it EXCEPT !.path = path \o <<x>>, !.key = Append(key, n.data[x])]
    IN  IF ~noup /\ it.path = <<>> THEN [orig EXCEPT !.eof = TRUE]
        ELSE IF ~n.compr /\ Len(n.data) > (IF noup THEN 0 ELSE 1) /\ later # {}
             THEN IF n.kids[x].key THEN there ELSE NextLoop(t, there, orig, FALSE)
        ELSE NextUp(t, [it EXCEPT !.path = path, !.key = key], orig, FALSE)
raxIteratorNextStep(t, it, noup) ==
    IF it.eof THEN it ELSE IF it.just THEN [it EXCEPT !.just = FALSE] ELSE NextLoop(t, it, it, noup)

RECURSIVE raxSeekGreatest(_, _)
raxSeekGreatest(t, it) ==
    LET n == NodeAt(t.head, it.path)
    IN  IF n.data = <<>> THEN it
        ELSE raxSeekGreatest(t, [it EXCEPT !.path = Append(@, Len(n.kids)),
                                           !.key = @ \o (IF n.compr THEN n.data ELSE <<Last(n.data)>>)])
RECURSIVE PrevLoop(_, _, _, _)
PrevLoop(t, it, orig, noup) ==
    LET prevchild == Last(it.key)
        path == IF noup THEN it.path ELSE Front(it.path)
        n == NodeAt(t.head, path)
        key == Chop(it.key, Width(n))
        before == {x \in 1 .. Len(n.data) : n.data[x] < prevchild}
        x == CHOOSE y \in before : \A z \in before : z <= y
        here == [it EXCEPT !.path = path, !.key = key]
        at == IF ~n.compr /\ Len(n.data) > (IF noup THEN 0 ELSE 1) /\ before # {}
              THEN raxSeekGreatest(t, [it EXCEPT !.path = path \o <<x>>, !.key = Append(key, n.data[x])]) ELSE here
    IN  IF ~noup /\ it.path = <<>> THEN [orig EXCEPT !.eof = TRUE]
        ELSE IF NodeAt(t.head, at.path).key THEN at ELSE PrevLoop(t, at, orig, FALSE)
raxIteratorPrevStep(t, it, noup) ==
    IF it.eof THEN it ELSE IF it.just THEN [it EXCEPT !.just = FALSE] ELSE PrevLoop(t, it, it, noup)

RECURSIVE KeyOfPath(_, _)
KeyOfPath(n, path) == IF path = <<>> THEN <<>>
                      ELSE (IF n.compr THEN n.data ELSE <<n.data[Head(path)]>>) \o KeyOfPath(n.kids[Head(path)], Tail(path))
\* Seeks from inside a compressed node, at whose character j+1 ele goes another way.
SeekInCompressed(t, w, ele, gt) ==
    LET n == NodeAt(t.head, w.path)
        it == RaxIt(w.path, KeyOfPath(t.head, w.path))
        all == [it EXCEPT !.key = @ \o n.data]
    IN  IF gt THEN IF n.data[w.j + 1] > ele[w.i + 1] THEN raxIteratorNextStep(t, it, FALSE) ELSE raxIteratorNextStep(t, all, TRUE)
        ELSE IF n.data[w.j + 1] < ele[w.i + 1] THEN raxSeekGreatest(t, it) ELSE raxIteratorPrevStep(t, all, TRUE)
raxSeek(t, op, ele) ==
    LET w == raxLowWalk(t, ele)
        n == NodeAt(t.head, w.path)
        it == RaxIt(w.path, KeyOfPath(t.head, w.path))
        gt == op \in {">", ">="}
        step(i, noup) == IF gt THEN raxIteratorNextStep(t, i, noup) ELSE raxIteratorPrevStep(t, i, noup)
        put == IF op = "$" THEN raxSeekGreatest(t, RaxIt(<<>>, <<>>))
               ELSE IF op \in {"=", ">=", "<="} /\ w.i = Len(ele) /\ (~n.compr \/ w.j = 0) /\ n.key THEN [it EXCEPT !.key = ele]
               ELSE IF op = "=" THEN [it EXCEPT !.eof = TRUE]
               ELSE IF w.i # Len(ele) /\ ~n.compr THEN step([it EXCEPT !.key = Append(@, ele[w.i + 1])], TRUE)
               ELSE IF w.i # Len(ele) THEN SeekInCompressed(t, w, ele, gt)
               ELSE step(it, FALSE)
    IN  IF t.numele = 0 THEN [RaxIt(<<>>, <<>>) EXCEPT !.eof = TRUE] ELSE [put EXCEPT !.just = TRUE]
raxNext(t, it) == raxIteratorNextStep(t, it, FALSE)
raxPrev(t, it) == raxIteratorPrevStep(t, it, FALSE)

RECURSIVE Walked(_, _, _)
Walked(t, it, forward) ==
    LET n == IF forward THEN raxNext(t, it) ELSE raxPrev(t, it) IN IF n.eof THEN <<>> ELSE <<n.key>> \o Walked(t, n, forward)

-----------------------------------------------------------------------------
\* The slot index.
SlotOf(w) == SubSeq(w, 1, 2)
slotToKeyUpdateKey(w, add) ==
    /\ slotsCount' = [slotsCount EXCEPT ![SlotOf(w)] = @ + (IF add THEN 1 ELSE -1)]
    /\ rax' = IF add THEN raxInsert(rax, w) ELSE raxRemove(rax, w)
RECURSIVE getKeysInSlot(_, _, _, _)
getKeysInSlot(t, it, slot, count) ==
    LET n == raxNext(t, it)
    IN  IF count = 0 \/ n.eof \/ SlotOf(n.key) # slot THEN <<>> ELSE <<n.key>> \o getKeysInSlot(t, n, slot, count - 1)
\* Deletes the key found at the slot again and again, as often as keys were counted.
RECURSIVE DelInSlot(_, _, _)
DelInSlot(t, slot, count) ==
    IF count = 0 THEN [tree |-> t, gone |-> {}]
    ELSE LET key == raxNext(t, raxSeek(t, ">=", slot)).key
             r == DelInSlot(raxRemove(t, key), slot, count - 1)
         IN  [r EXCEPT !.gone = @ \cup {key}]

AddKey == "add" \in raxMenu /\ \E w \in RaxWords \ raxRef : slotToKeyUpdateKey(w, TRUE) /\ raxRef' = raxRef \cup {w}
DelKey == "del" \in raxMenu /\ \E w \in raxRef : slotToKeyUpdateKey(w, FALSE) /\ raxRef' = raxRef \ {w}
delKeysInSlot == "delslot" \in raxMenu /\ \E slot \in {SlotOf(w) : w \in raxRef} :
    \E r \in {DelInSlot(rax, slot, slotsCount[slot])} :
        /\ rax' = r.tree /\ raxRef' = raxRef \ {w \in raxRef : SlotOf(w) = slot}
        /\ slotsCount' = [s \in DOMAIN slotsCount |-> slotsCount[s] - Cardinality({w \in r.gone : SlotOf(w) = s})]

RaxInit == /\ \E st \in RaxStarts : /\ rax = FoldLeft(raxInsert, raxNew, st.words) /\ raxRef = ToSet(st.words)
                                    /\ slotsCount = [s \in {SlotOf(w) : w \in RaxWords} |-> Cardinality({w \in ToSet(st.words) : SlotOf(w) = s})]
                                    /\ raxMenu = st.menu
RaxNext == (AddKey \/ DelKey \/ delKeysInSlot) /\ UNCHANGED raxMenu

-----------------------------------------------------------------------------
Less(a, b) == \/ \E i \in 1 .. Len(b) : /\ \A x \in 1 .. i - 1 : x <= Len(a) /\ a[x] = b[x]
                                        /\ i > Len(a) \/ a[i] < b[i]
RECURSIVE RaxInOrder(_)
RaxInOrder(S) == IF S = {} THEN <<>> ELSE LET m == CHOOSE x \in S : \A y \in S : x = y \/ Less(x, y) IN <<m>> \o RaxInOrder(S \ {m})
RECURSIVE Nodes(_)
Nodes(n) == 1 + FoldLeft(LAMBDA a, k : a + Nodes(k), 0, n.kids)

\* Whatever splits and joins its nodes went through, the tree finds exactly the keys that
\* were put and not removed, and counts keys and nodes right; what was counted for
\* a slot is what it holds (raxInsert, raxRemove, slotToKeyUpdateKey, delKeysInSlot).
RaxHolds == /\ {w \in RaxWords : raxFind(rax, w)} = raxRef
            /\ rax.numele = Cardinality(raxRef) /\ rax.numnodes = Nodes(rax.head)
            /\ \A s \in DOMAIN slotsCount : slotsCount[s] = Cardinality({w \in raxRef : SlotOf(w) = s})

\* From the last key raxPrev gives all keys in descending order; from any word sought
\* raxNext gives those behind it in ascending order (raxSeek, raxIteratorNextStep,
\* raxIteratorPrevStep).
IteratorIsOrdered ==
    /\ Walked(rax, raxSeek(rax, "$", <<>>), FALSE) = Reverse(RaxInOrder(raxRef))
    /\ \A p \in RaxProbes : /\ Walked(rax, raxSeek(rax, ">=", p), TRUE) = RaxInOrder({w \in raxRef : w = p \/ Less(p, w)})
                            /\ Walked(rax, raxSeek(rax, ">", p), TRUE) = RaxInOrder({w \in raxRef : Less(p, w)})
                            /\ Walked(rax, raxSeek(rax, "=", p), FALSE) = Reverse(RaxInOrder({w \in raxRef : p \in raxRef /\ (w = p \/ Less(w, p))}))

\* A slot is asked for its first keys, and gets those it has (getKeysInSlot).
SlotKeysFound == \A s \in DOMAIN slotsCount, n \in 1 .. 2 :
    LET all == RaxInOrder({w \in raxRef : SlotOf(w) = s})
    IN  getKeysInSlot(rax, raxSeek(rax, ">=", s), s, n) = SubSeq(all, 1, IF n < Len(all) THEN n ELSE Len(all))

\* After the removal of FOO from FOO, FOOBAR "the tree can be compressed as FOOBAR" (raxRemove):
\* no single node that is no key is left above another.
RECURSIVE Joined(_)
Joined(n) == /\ ~(Single(n) /\ Single(n.kids[1]))
             /\ \A i \in 1 .. Len(n.kids) : Joined(n.kids[i])
ChainsAreJoined == Joined(rax.head)

\* A seek backwards finds the last key before the word ("<", raxSeek).
SeeksBackwards == \A p \in RaxProbes : Walked(rax, raxSeek(rax, "<", p), FALSE) = Reverse(RaxInOrder({w \in raxRef : Less(w, p)}))

\* The radix tree has the keys inserted, its iterators return them in order, and
\* the keys of a slot are found.
RaxIsExact ==
    /\ RaxHolds
    /\ IteratorIsOrdered
    /\ SlotKeysFound
=============================================================================
