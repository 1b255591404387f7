---------------------------- MODULE Persistence -----------------------------
(***************************************************************************)
(* One instance and its files (aof.c, rdb.c, and the parts of server.c that  *)
(* drive them): the append only file with its buffer, its fsync by a         *)
(* background job and its rewrite by a child that is fed the differences,    *)
(* the RDB file, SHUTDOWN, and what is loaded after a crash or a power       *)
(* failure.  A database is the sequence of the writes applied to it.         *)
(***************************************************************************)
EXTENDS Integers, Sequences, FiniteSets, SequencesExt

CONSTANT PstStarts   \* [policy, aof, budget]

VARIABLES pst,       \* the instance and its files
          pstPolicy, \* appendfsync: "always", "everysec" or "no"
          pstBudget

pstVars == <<pst, pstPolicy, pstBudget>>

Dbs == {0, 1}
NoData == [d \in Dbs |-> <<>>]
PstSpend(op) == pstBudget[op] > 0 /\ pstBudget' = [pstBudget EXCEPT ![op] = @ - 1]

-----------------------------------------------------------------------------
\* An entry of the file is a command; cut says if only its head was written, or
\* only its tail is left to write.
Entry(op, db, id) == [op |-> op, db |-> db, id |-> id, cut |-> "no"]

\* write(2) of b at the end of f; the tail of an entry completes its head.
WriteTo(f, b) ==
    IF b # <<>> /\ Head(b).cut = "tail" THEN Front(f) \o <<[Head(b) EXCEPT !.cut = "no"]>> \o Tail(b) ELSE f \o b

\* A write that stops inside entry k of b.
ShortWrite(f, b, k) == WriteTo(f, SubSeq(b, 1, k - 1)) \o (IF b[k].cut = "tail" THEN <<>> ELSE <<[b[k] EXCEPT !.cut = "head"]>>)
ShortRest(b, k) == <<[b[k] EXCEPT !.cut = "tail"]>> \o SubSeq(b, k + 1, Len(b))

Execute(st, e) ==
    CASE e.op = "select" -> [st EXCEPT !.db = e.db]
      [] e.op = "w" -> [st EXCEPT !.data[st.db] = Append(@, e.id)]
      [] e.op = "flushall" -> [st EXCEPT !.data = NoData]
      [] OTHER -> st

\* One command of the file, in the context of the fake client.
LoadCommand(st, e) ==
    CASE e.cut = "head" -> st
      [] e.op = "multi" -> [st EXCEPT !.multi = TRUE]
      [] e.op = "exec" -> [FoldLeft(Execute, st, st.queue) EXCEPT !.multi = FALSE, !.queue = <<>>]
      [] st.multi -> [st EXCEPT !.queue = Append(@, e)]
      [] OTHER -> Execute(st, e)

\* A last command that is not whole is cut off; a transaction without its EXEC
\* is dropped, but not cut off.
loadAppendOnlyFile(f) ==
    LET st == FoldLeft(LoadCommand, [data |-> NoData, db |-> 0, multi |-> FALSE, queue |-> <<>>], f)
    IN  [data |-> st.data, open |-> st.multi, file |-> IF f # <<>> /\ Last(f).cut = "head" THEN Front(f) ELSE f]

\* The dataset as commands: SELECT and the keys of each database in turn.
rewriteAppendOnlyFileRio(data) ==
    FlattenSeq([k \in 1..2 |->
        IF data[k - 1] = <<>> THEN <<>>
        ELSE <<Entry("select", k - 1, 0)>> \o [i \in DOMAIN data[k - 1] |-> Entry("w", k - 1, data[k - 1][i])]])

-----------------------------------------------------------------------------
\* The process starts with file f; loading the AOF executes its commands.
Started(s, f, synced) ==
    LET l == loadAppendOnlyFile(f)
    IN  [s EXCEPT !.data = l.data, !.acked = l.data, !.aof = "ON", !.fd = "ok", !.buf = <<>>, !.sel = -1, !.file = l.file,
                  !.gen = @ + 1, !.synced = IF synced < Len(l.file) THEN synced ELSE Len(l.file), !.jobs = <<>>,
                  !.late = FALSE, !.postponed = 0, !.werr = FALSE, !.child = "none", !.phase = "none", !.pipe = <<>>, !.got = <<>>,
                  !.rw = <<>>, !.stop = FALSE, !.sched = FALSE, !.bgsched = FALSE, !.dirty = Len(l.file), !.bgerr = FALSE,
                  !.quiet = FALSE, !.open = @ \/ l.open, !.restarted = TRUE]

feedAppendOnlyFile(s, db, es) ==
    LET b == (IF s.sel # db THEN <<Entry("select", db, 0)>> ELSE <<>>) \o es
    IN  [s EXCEPT !.sel = db, !.buf = IF s.aof = "ON" THEN @ \o b ELSE @, !.rw = IF s.child = "aof" THEN @ \o b ELSE @]

\* Mutant: the reply is not held back for the fsync.
FsyncInBackground(s, syncing) ==
    IF pstPolicy # "no" /\ (pstPolicy = "always" \/ s.late)
    THEN [s EXCEPT !.jobs = IF syncing THEN @ ELSE Append(@, s.gen), !.late = FALSE] ELSE s

\* The fsync after a write, as the policy says.
FsyncIfNeeded(s, syncing) ==
    CASE pstPolicy = "always" -> [s EXCEPT !.synced = Len(s.file), !.late = FALSE]
      [] pstPolicy = "everysec" /\ s.late -> [s EXCEPT !.jobs = IF syncing THEN @ ELSE Append(@, s.gen), !.late = FALSE]
      [] OTHER -> s

\* out: 0 the write succeeds, -1 it fails (or could be undone), k it stops inside
\* entry k.  Under "always" an error ends the process.
flushAppendOnlyFile(s, force, out) ==
    LET syncing == pstPolicy = "everysec" /\ s.jobs # <<>>
        k == IF out > Len(s.buf) THEN Len(s.buf) ELSE out
        t == [s EXCEPT !.postponed = 0]
    IN  CASE s.buf = <<>> -> s
          [] s.buf # <<>> /\ ~ force /\ syncing /\ s.postponed < 2 -> [s EXCEPT !.postponed = 1]
          [] OTHER ->
                IF out = 0 /\ s.fd = "ok"
                THEN FsyncIfNeeded([t EXCEPT !.file = WriteTo(@, s.buf), !.buf = <<>>, !.werr = FALSE], syncing)
                ELSE LET part == out > 0 /\ s.fd = "ok"
                         f == IF part THEN ShortWrite(s.file, s.buf, k) ELSE s.file
                     IN  IF pstPolicy = "always" THEN Started(s, f, s.synced)
                         ELSE [t EXCEPT !.werr = TRUE, !.file = f, !.buf = IF part THEN ShortRest(s.buf, k) ELSE @]

rewriteAppendOnlyFileBackground(s) ==
    IF s.child # "none" THEN s
    ELSE [s EXCEPT !.child = "aof", !.phase = "run", !.snap = s.data, !.sched = FALSE, !.sel = -1, !.stop = FALSE,
                   !.got = <<>>, !.pipe = <<>>]

rdbSaveBackground(s) ==
    IF s.child # "none" THEN s
    ELSE [s EXCEPT !.child = "rdb", !.phase = "run", !.snap = s.data, !.before = s.dirty, !.bgsched = FALSE]

rdbSave(s) == [s EXCEPT !.rdb = s.data, !.dirty = 0, !.bgerr = FALSE]

backgroundSaveDoneHandler(s) ==
    IF s.phase = "done" THEN [s EXCEPT !.child = "none", !.phase = "none", !.dirty = @ - s.before, !.bgerr = FALSE]
    ELSE [s EXCEPT !.child = "none", !.phase = "none", !.bgerr = TRUE]

RewriteCleanup(s) ==
    [s EXCEPT !.child = "none", !.phase = "none", !.rw = <<>>, !.pipe = <<>>, !.got = <<>>, !.sched = @ \/ s.aof = "WAIT"]

\* The parent appends what it did not send and puts the new file in place; the
\* child has synced its part.
backgroundRewriteDoneHandler(s, ok) ==
    LET f == rewriteAppendOnlyFileRio(s.snap) \o s.got
        t == [s EXCEPT !.file = f \o s.rw, !.gen = @ + 1, !.synced = Len(f)]
        u == IF s.fd = "none" THEN t
             ELSE [t EXCEPT !.fd = "ok", !.sel = -1, !.buf = <<>>,
                            !.synced = IF pstPolicy = "always" THEN Len(t.file) ELSE @,
                            !.jobs = IF pstPolicy = "everysec" THEN Append(@, t.gen) ELSE @]
    IN  IF s.phase # "done" \/ ~ ok THEN RewriteCleanup(s)
        ELSE RewriteCleanup([u EXCEPT !.aof = IF @ = "WAIT" THEN "ON" ELSE @])

-----------------------------------------------------------------------------
\* A write, or a transaction of two; refused after a write error.
PstWrite(db, multi) ==
    LET id == pst.next
        w == Entry("w", db, id)
        es == IF multi THEN <<Entry("multi", db, 0), w, Entry("w", db, id + 1), Entry("exec", db, 0)>> ELSE <<w>>
        ids == IF multi THEN <<id, id + 1>> ELSE <<id>>
        s == [pst EXCEPT !.data[db] = @ \o ids, !.next = @ + Len(ids), !.dirty = @ + Len(ids)]
    IN  /\ ~ pst.werr /\ ~ pst.bgerr /\ PstSpend(IF multi THEN "multi" ELSE "write")
        /\ pst' = feedAppendOnlyFile(s, db, es)
        /\ UNCHANGED pstPolicy

\* FLUSHALL does not touch the RDB file or its child.
flushallCommand ==
    /\ ~ pst.werr /\ ~ pst.bgerr /\ PstSpend("flushall")
    /\ pst' = feedAppendOnlyFile([pst EXCEPT !.data = NoData, !.dirty = @ + 1], 0, <<Entry("flushall", 0, 0)>>)
    /\ UNCHANGED pstPolicy

\* Before sleeping: the AOF, then the replies.
PstBeforeSleep(out) ==
    \E s \in {flushAppendOnlyFile(pst, FALSE, out)} :
        /\ pst' = [s EXCEPT !.acked = s.data]
        /\ IF out # 0 THEN pst.buf # <<>> /\ PstSpend("err") ELSE UNCHANGED pstBudget
        /\ UNCHANGED pstPolicy

\* A child that exited, or a save point.
ReapChild(s, save, ok) ==
    LET over == s.phase \in {"done", "failed"}
    IN  CASE over /\ s.child = "aof" -> backgroundRewriteDoneHandler(s, ok)
          [] over /\ s.child = "rdb" -> backgroundSaveDoneHandler(s)
          [] s.child = "none" /\ save /\ s.dirty > 0 -> rdbSaveBackground(s)
          [] OTHER -> s

\* The parts of serverCron about the files, and beforeSleep, which is next; save:
\* a save point is reached.
ServerCron(save, out, ok) ==
    \E begun \in {IF pst.sched THEN rewriteAppendOnlyFileBackground(pst) ELSE pst} :
    \E kids \in {ReapChild(begun, save, ok)} :
    \E again \in {IF kids.postponed > 0 THEN flushAppendOnlyFile(kids, FALSE, out) ELSE kids} :
    \E retry \in {IF again.werr THEN flushAppendOnlyFile(again, FALSE, out) ELSE again} :
    \E begins \in {IF retry.bgsched THEN rdbSaveBackground(retry) ELSE retry} :
    \E last \in {flushAppendOnlyFile(begins, FALSE, out)} :
        /\ pst' = [last EXCEPT !.acked = last.data, !.quiet = last.late /\ last.jobs = <<>> /\ last.buf = <<>> /\ last.aof = "ON"]
        /\ CASE out # 0 -> ok /\ ~ save /\ kids.buf # <<>> /\ PstSpend("err")
             [] ~ ok -> ~ save /\ begun.child = "aof" /\ PstSpend("err")
             [] save -> PstSpend("bgsave")
             [] OTHER -> UNCHANGED pstBudget
        /\ UNCHANGED pstPolicy

\* A second has passed since the last fsync; a write was postponed for two.
PstSecond ==
    /\ pstPolicy = "everysec" /\ (~ pst.late \/ pst.postponed = 1)
    /\ pst' = [pst EXCEPT !.late = TRUE, !.postponed = IF @ = 1 THEN 2 ELSE @]
    /\ UNCHANGED <<pstPolicy, pstBudget>>

\* The background thread syncs the file the job was made for.
aof_background_fsync ==
    /\ pst.jobs # <<>>
    /\ pst' = [pst EXCEPT !.jobs = Tail(@), !.synced = IF Head(pst.jobs) = pst.gen THEN Len(pst.file) ELSE @]
    /\ UNCHANGED <<pstPolicy, pstBudget>>

-----------------------------------------------------------------------------
\* The parent sends the first entries of its buffer to the child.
aofChildWriteDiffData ==
    /\ pst.child = "aof" /\ ~ pst.stop /\ pst.rw # <<>>
    /\ pst' = [pst EXCEPT !.pipe = Append(@, Head(pst.rw)), !.rw = Tail(@)]
    /\ UNCHANGED <<pstPolicy, pstBudget>>

\* The child asks the parent to stop; the parent agrees.
AofChildAsks ==
    /\ pst.child = "aof" /\ pst.phase = "run"
    /\ pst' = [pst EXCEPT !.phase = "asked"]
    /\ UNCHANGED <<pstPolicy, pstBudget>>

aofChildPipeReadable ==
    /\ pst.child = "aof" /\ pst.phase = "asked"
    /\ pst' = [pst EXCEPT !.phase = "agreed", !.stop = TRUE]
    /\ UNCHANGED <<pstPolicy, pstBudget>>

\* The child reads all that was sent and exits; or the RDB is saved and renamed.
rewriteAppendOnlyFile ==
    /\ \/ pst.child = "aof" /\ pst.phase = "agreed"
          /\ pst' = [pst EXCEPT !.phase = "done", !.got = @ \o pst.pipe, !.pipe = <<>>]
       \/ pst.child = "rdb" /\ pst.phase = "run" /\ pst' = [pst EXCEPT !.phase = "done", !.rdb = pst.snap]
    /\ UNCHANGED <<pstPolicy, pstBudget>>

ChildFails ==
    /\ pst.phase \in {"run", "asked", "agreed"} /\ PstSpend("fail")
    /\ pst' = [pst EXCEPT !.phase = "failed"]
    /\ UNCHANGED pstPolicy

bgrewriteaofCommand ==
    /\ pst.child # "aof" /\ PstSpend("rewrite")
    /\ pst' = IF pst.child = "rdb" THEN [pst EXCEPT !.sched = TRUE] ELSE rewriteAppendOnlyFileBackground(pst)
    /\ UNCHANGED pstPolicy

\* BGSAVE SCHEDULE, and SAVE.
PstBgsave ==
    /\ pst.child # "rdb" /\ PstSpend("bgsave")
    /\ pst' = IF pst.child = "aof" THEN [pst EXCEPT !.bgsched = TRUE] ELSE rdbSaveBackground(pst)
    /\ UNCHANGED pstPolicy

saveCommand ==
    /\ pst.child # "rdb" /\ PstSpend("save")
    /\ pst' = rdbSave(pst)
    /\ UNCHANGED pstPolicy

\* CONFIG SET appendonly yes: on an error the descriptor is closed and kept.
startAppendOnly ==
    /\ pst.aof = "OFF" /\ PstSpend("start")
    /\ pst' = CASE pst.child = "aof" -> [pst EXCEPT !.fd = "stale"]
                [] pst.child = "rdb" -> [pst EXCEPT !.fd = "ok", !.aof = "WAIT", !.sched = TRUE]
                [] OTHER -> [rewriteAppendOnlyFileBackground(pst) EXCEPT !.fd = "ok", !.aof = "WAIT"]
    /\ UNCHANGED pstPolicy

\* CONFIG SET appendonly no.
stopAppendOnly ==
    \E s \in {flushAppendOnlyFile(pst, TRUE, 0)} :
    \E t \in {[s EXCEPT !.synced = Len(s.file), !.fd = "none", !.sel = -1, !.aof = "OFF"]} :
        /\ pst.aof # "OFF" /\ PstSpend("stop")
        /\ pst' = IF t.child = "aof" THEN [RewriteCleanup(t) EXCEPT !.sched = t.sched] ELSE t
        /\ UNCHANGED pstPolicy

-----------------------------------------------------------------------------
\* The process is killed (the file stays as it is), or the machine loses power
\* (what was not synced may be lost, at any place).
PstKill ==
    /\ pst.aof = "ON" /\ PstSpend("kill")
    /\ pst' = Started(pst, pst.file, pst.synced)
    /\ UNCHANGED pstPolicy

PstPower ==
    /\ pst.aof = "ON" /\ PstSpend("power")
    /\ \E n \in pst.synced..Len(pst.file), torn \in BOOLEAN :
          /\ torn => n < Len(pst.file)
          /\ LET f == SubSeq(pst.file, 1, n) \o IF torn THEN <<[pst.file[n + 1] EXCEPT !.cut = "head"]>> ELSE <<>>
             IN  pst' = Started(pst, f, Len(f))
    /\ UNCHANGED pstPolicy

\* SHUTDOWN NOSAVE: the file is synced, what is still in the buffer is not
\* written; not while the first AOF is being made.
prepareForShutdown ==
    \E s \in {Started(pst, pst.file, Len(pst.file))} :
        /\ pst.aof = "ON" /\ PstSpend("shutdown")
        /\ pst' = [s EXCEPT !.lost = @ \/ \E d \in Dbs : ~ IsPrefix(pst.acked[d], s.data[d])]
        /\ UNCHANGED pstPolicy

PstInit ==
    \E start \in PstStarts :
       /\ pst = [data |-> NoData, acked |-> NoData, next |-> 1, aof |-> start.aof, fd |-> IF start.aof = "ON" THEN "ok" ELSE "none",
                 buf |-> <<>>, sel |-> -1, file |-> <<>>, gen |-> 0, synced |-> 0, jobs |-> <<>>, late |-> FALSE, postponed |-> 0,
                 werr |-> FALSE, child |-> "none", phase |-> "none", snap |-> NoData, got |-> <<>>, pipe |-> <<>>, rw |-> <<>>,
                 stop |-> FALSE, sched |-> FALSE, bgsched |-> FALSE, rdb |-> NoData, dirty |-> 0, before |-> 0, bgerr |-> FALSE,
                 quiet |-> FALSE, open |-> FALSE, restarted |-> FALSE, lost |-> FALSE]
       /\ pstPolicy = start.policy /\ pstBudget = start.budget

PstNext ==
    \/ \E db \in Dbs, multi \in BOOLEAN : PstWrite(db, multi)
    \/ \E out \in -1..2 : PstBeforeSleep(out) \/ \E save, ok \in BOOLEAN : ServerCron(save, out, ok)
    \/ flushallCommand \/ PstSecond \/ aof_background_fsync
    \/ aofChildWriteDiffData \/ AofChildAsks \/ aofChildPipeReadable \/ rewriteAppendOnlyFile \/ ChildFails
    \/ bgrewriteaofCommand \/ PstBgsave \/ saveCommand \/ startAppendOnly \/ stopAppendOnly
    \/ PstKill \/ PstPower \/ prepareForShutdown

-----------------------------------------------------------------------------
\* The AOF and the buffer not written yet rebuild the dataset.
AofRebuilds == pst.aof = "ON" => loadAppendOnlyFile(WriteTo(pst.file, pst.buf)).data = pst.data

\* The AOF and the buffer not written yet rebuild the dataset, after every
\* rewrite, write error and crash (flushAppendOnlyFile, backgroundRewriteDone-
\* Handler), unless a crash has left a transaction open in the file.
AofIsComplete == ~ pst.open => AofRebuilds

\* Under "always", what the clients were told is what a power failure leaves
\* (or a later state).
AckedIsDurable ==
    pstPolicy = "always" /\ pst.aof = "ON" /\ ~ pst.open
    => loadAppendOnlyFile(SubSeq(pst.file, 1, pst.synced)).data \in {pst.acked, pst.data}

\* SHUTDOWN loses no write that was acknowledged.
ShutdownKeepsAcked == ~ pst.lost

\* Under "everysec", all that was written is synced once a second has passed.
SyncedInASecond == pstPolicy = "everysec" /\ pst.quiet => pst.synced = Len(pst.file)

\* With no changes to save, the RDB file has the dataset.
DirtyIsExact == pst.dirty = 0 /\ ~ pst.restarted => pst.rdb = pst.data

\* AOF and buffer rebuild the dataset (unless a crash left a transaction open),
\* what was acknowledged under appendfsync always survives a power failure, and
\* the RDB file has the dataset when server.dirty is 0.
WritesAreDurable ==
    /\ AofIsComplete
    /\ AckedIsDurable
    /\ DirtyIsExact
=============================================================================
