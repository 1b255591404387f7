------------------------------- MODULE Config -------------------------------
(***************************************************************************)
(* The configuration file (config.c): loaded line by line at start, changed *)
(* at run time by CONFIG SET and SLAVEOF, and written back by CONFIG        *)
(* REWRITE, which keeps what it does not understand.                        *)
(*                                                                         *)
(* A line is an option with an argument: a number with a unit, or a name.   *)
(* Table holds one option of each combination of how the file is read, how  *)
(* CONFIG SET reads, and how the option is written back.                    *)
(***************************************************************************)
EXTENDS Integers, Sequences, SequencesExt, TLC

CONSTANTS CfKb,     \* how many bytes a kb is
          CfInt,    \* an int holds -CfInt .. CfInt - 1
          CfStarts  \* set of starts, see CfInit

VARIABLES cf, cfMenu
cfVars == <<cf, cfMenu>>

Tok(n, unit, s) == [n |-> n, unit |-> unit, s |-> s]
Num(n) == Tok(n, "", "")
Name(s) == Tok(0, "", s)
CfLine(opt, tok) == [opt |-> opt, arg |-> tok]
Blank == CfLine("", Num(0))
Signature == CfLine("#", Name("generated"))
Remark == CfLine("#", Name("remark"))

Opt(read, least, set, setLeast, write, def) == [read |-> read, least |-> least, set |-> set, setLeast |-> setLeast, write |-> write, def |-> def]
Table ==
    "timeout" :> Opt("atoi", 0, "number", 0, "number", 0) @@
    "maxmemory" :> Opt("memtoll", 0, "memory", 0, "bytes", 0) @@
    "repl-backlog-ttl" :> Opt("atoi", 0, "number", 0, "bytes", 3) @@
    "cluster-node-timeout" :> Opt("atoi", 1, "number", 0, "number", 3) @@
    "lfu-log-factor" :> Opt("atoi", -CfInt, "number", 0, "none", 1) @@
    "slave-read-only" :> Opt("yesno", 0, "yesno", 0, "yesno", 1) @@
    "appendfsync" :> Opt("enum", 0, "enum", 0, "enum", 1)
clientBufferLimitsDefaults == [normal |-> 0, slave |-> 6, pubsub |-> 3]
Classes == <<"normal", "slave", "pubsub">>
FsyncEnum == <<"no", "everysec", "always">>
Understood == {o \in DOMAIN Table : Table[o].write # "none"} \cup {"requirepass", "save", "client-output-buffer-limit", "slaveof"}

----------------------------------------------------------------------------
\* Reading and writing arguments.

Bad == -CfInt - 1
memtoll(tok) == IF tok.unit = "kb" THEN tok.n * CfKb ELSE tok.n
yesnotoi(tok) == CASE tok.s = "yes" -> 1 [] tok.s = "no" -> 0 [] OTHER -> Bad
configEnumGetValue(tok) == IF tok.s \in Range(FsyncEnum) THEN (CHOOSE i \in DOMAIN FsyncEnum : FsyncEnum[i] = tok.s) - 1 ELSE Bad

\* atoi stops at the unit.
ReadAs(how, tok) ==
    CASE how = "atoi" -> tok.n
      [] how = "number" -> IF tok.unit = "" THEN tok.n ELSE Bad
      [] how \in {"memtoll", "memory"} -> memtoll(tok)
      [] how = "yesno" -> yesnotoi(tok)
      [] how = "enum" -> configEnumGetValue(tok)

rewriteConfigFormatMemory(v) == IF v # 0 /\ v % CfKb = 0 THEN Tok(v \div CfKb, "kb", "") ELSE Num(v)

WriteAs(how, v) ==
    CASE how = "number" -> Num(v)
      [] how = "bytes"  -> rewriteConfigFormatMemory(v)
      [] how = "yesno"  -> Name(IF v = 1 THEN "yes" ELSE "no")
      [] how = "enum"   -> Name(FsyncEnum[v + 1])

ToInt(v) == ((v + CfInt) % (2 * CfInt)) - CfInt

----------------------------------------------------------------------------
\* Loading.  r is the configuration so far and whether it is still good.

Defaults == [num |-> [o \in DOMAIN Table |-> Table[o].def], pass |-> "", save |-> <<>>,
             obuf |-> clientBufferLimitsDefaults, master |-> ""]

LoadSingle(r, opt, tok) ==
    LET v == ReadAs(Table[opt].read, tok)
    IN  IF v < Table[opt].least THEN [r EXCEPT !.good = FALSE] ELSE [r EXCEPT !.cfg.num[opt] = v]
LoadSave(r, tok) ==
    CASE tok.s = "none" -> [r EXCEPT !.cfg.save = <<>>]
      [] tok.n < 1      -> [r EXCEPT !.good = FALSE]
      [] OTHER          -> [r EXCEPT !.cfg.save = Append(@, tok.n)]
LoadLimit(r, tok) ==
    IF tok.s \in Range(Classes) THEN [r EXCEPT !.cfg.obuf[tok.s] = memtoll(tok)] ELSE [r EXCEPT !.good = FALSE]

LoadLine(r, line) ==
    LET o == line.opt
    IN  IF ~r.good THEN r
        ELSE CASE o \in {"", "#", "rename-command"} -> r
               [] o \in DOMAIN Table -> LoadSingle(r, o, line.arg)
               [] o = "requirepass" -> [r EXCEPT !.cfg.pass = line.arg.s]
               [] o = "save" -> LoadSave(r, line.arg)
               [] o = "client-output-buffer-limit" -> LoadLimit(r, line.arg)
               [] o = "slaveof" -> [r EXCEPT !.cfg.master = line.arg.s]
               [] OTHER -> [r EXCEPT !.good = FALSE]

\* An included file is loaded where it is named.
loadServerConfig(file, included) ==
    LET step(r, line) == IF line.opt = "include" THEN FoldLeft(LoadLine, r, included) ELSE LoadLine(r, line)
    IN  FoldLeft(step, [cfg |-> Defaults, good |-> TRUE], file)

----------------------------------------------------------------------------
\* CONFIG REWRITE.  st: the lines, the lines of each option not yet reused,
\* the options processed, whether the signature is there.

LinesOf(lines, opt) == SelectSeq([i \in 1..Len(lines) |-> i], LAMBDA i : lines[i].opt = opt)

rewriteConfigReadOldFile(file) ==
    LET read == SubSeq([i \in 1..Len(file) |-> IF file[i].opt = "unbalanced" THEN Remark ELSE file[i]], 1, Len(file))
    IN  [lines |-> read, map |-> [o \in {l.opt : l \in Range(read)} \ {"", "#"} |-> LinesOf(read, o)],
         done |-> {}, tail |-> Contains(read, Signature)]

rewriteConfigMarkAsProcessed(st, opt) == [st EXCEPT !.done = @ \cup {opt}]

WithoutOption(map, opt) == [o \in DOMAIN map \ {opt} |-> map[o]]
rewriteConfigRewriteLine(st, opt, tok, force) ==
    LET marked == rewriteConfigMarkAsProcessed(st, opt)
        used == IF opt \in DOMAIN st.map THEN st.map[opt] ELSE <<>>
    IN  CASE used # <<>> ->
               [marked EXCEPT !.lines[Head(used)] = CfLine(opt, tok),
                              !.map = IF Len(used) = 1 THEN WithoutOption(@, opt) ELSE [@ EXCEPT ![opt] = Tail(used)]]
          [] used = <<>> /\ force ->
               [marked EXCEPT !.lines = (IF st.tail THEN @ ELSE Append(@, Signature)) \o <<CfLine(opt, tok)>>, !.tail = TRUE]
          [] OTHER -> marked

rewriteConfigSingle(cfg, st, opt) ==
    rewriteConfigRewriteLine(st, opt, WriteAs(Table[opt].write, cfg.num[opt]), cfg.num[opt] # Table[opt].def)
rewriteConfigStringOption(st, opt, s) ==
    IF s = "" THEN rewriteConfigMarkAsProcessed(st, opt) ELSE rewriteConfigRewriteLine(st, opt, Name(s), TRUE)
rewriteConfigSaveOption(st, cfg) ==
    rewriteConfigMarkAsProcessed(FoldLeft(LAMBDA s, n : rewriteConfigRewriteLine(s, "save", Num(n), TRUE), st, cfg.save), "save")
rewriteConfigSlaveofOption(st, cfg) ==
    IF cfg.master = "" THEN rewriteConfigMarkAsProcessed(st, "slaveof") ELSE rewriteConfigRewriteLine(st, "slaveof", Name(cfg.master), TRUE)
rewriteConfigClientoutputbufferlimitOption(st, cfg) ==
    FoldLeft(LAMBDA s, c : rewriteConfigRewriteLine(s, "client-output-buffer-limit",
                               [rewriteConfigFormatMemory(cfg.obuf[c]) EXCEPT !.s = c], cfg.obuf[c] # Defaults.obuf[c]),
             st, Classes)

rewriteConfigRemoveOrphaned(st) ==
    LET orphan == UNION {Range(st.map[o]) : o \in DOMAIN st.map \cap st.done}
    IN  SubSeq([i \in 1..Len(st.lines) |-> IF i \in orphan THEN Blank ELSE st.lines[i]], 1, Len(st.lines))

\* Runs of empty lines become one.
rewriteConfigGetContentFromState(lines) ==
    FoldLeft(LAMBDA out, l : IF l = Blank /\ out # <<>> /\ Last(out) = Blank THEN out ELSE Append(out, l), <<>>, lines)

SinglesInOrder == <<"timeout", "slave-read-only", "repl-backlog-ttl", "maxmemory", "appendfsync", "cluster-node-timeout">>
rewriteConfig(file, cfg) ==
    LET s0 == rewriteConfigReadOldFile(file)
        s1 == rewriteConfigSaveOption(s0, cfg)
        s2 == rewriteConfigSlaveofOption(s1, cfg)
        s3 == rewriteConfigStringOption(s2, "requirepass", cfg.pass)
        s4 == FoldLeft(LAMBDA s, o : rewriteConfigSingle(cfg, s, o), s3, SinglesInOrder)
        s5 == rewriteConfigClientoutputbufferlimitOption(s4, cfg)
    IN  rewriteConfigGetContentFromState(rewriteConfigRemoveOrphaned(s5))

\* The file is written over, longer content first; what sticks out of a
\* shorter one is a line of # until the file is truncated.
rewriteConfigOverwriteFile(old, new, truncated) ==
    IF Len(new) < Len(old) /\ ~truncated THEN Append(new, CfLine("#", Name("padding"))) ELSE new

----------------------------------------------------------------------------
\* CONFIG SET.

SetSingle(cfg, opt, tok) ==
    LET v == ReadAs(Table[opt].set, tok)
    IN  IF v < Table[opt].setLeast THEN cfg ELSE [cfg EXCEPT !.num[opt] = IF opt = "timeout" THEN ToInt(v) ELSE v]
SetSave(cfg, points) == IF \E i \in DOMAIN points : points[i].n < 1 THEN cfg ELSE [cfg EXCEPT !.save = [i \in DOMAIN points |-> points[i].n]]
\* The argument is checked with memtoll and taken with strtoll.
SetLimit(cfg, tok) ==
    IF tok.s \in Range(Classes) /\ memtoll(tok) >= 0 THEN [cfg EXCEPT !.obuf[tok.s] = tok.n] ELSE cfg

configSetCommand(cfg, opt, toks) ==
    CASE opt \in DOMAIN Table -> SetSingle(cfg, opt, toks[1])
      [] opt = "requirepass"  -> [cfg EXCEPT !.pass = toks[1].s]
      [] opt = "save"         -> SetSave(cfg, toks)
      [] opt = "client-output-buffer-limit" -> SetLimit(cfg, toks[1])

----------------------------------------------------------------------------
\* saved: the configuration a restart is to find, or none while the file was
\* edited by hand; others: the lines of the file that are the user's.
Foreign(file) == SelectSeq(file, LAMBDA l : l.opt \notin Understood \cup {"", "unbalanced"} /\ l # Signature /\ l # CfLine("#", Name("padding")))

CfInit ==
    \E s \in CfStarts :
        /\ cfMenu = s
        /\ LET r == loadServerConfig(s.file, s.included)
           IN  cf = [cfg |-> r.cfg, file |-> s.file, up |-> TRUE, saved |-> <<r.cfg>>, others |-> Foreign(s.file)]

CfSpend(what) ==
    /\ cfMenu.budget[what] > 0
    /\ cfMenu' = [cfMenu EXCEPT !.budget[what] = @ - 1]

CfSet(opt, toks) == cf.up /\ cf' = [cf EXCEPT !.cfg = configSetCommand(@, opt, toks)]
CfSlaveof(h) == cf.up /\ cf' = [cf EXCEPT !.cfg.master = h]

\* With truncated FALSE the process stops after the write.
CfRewrite(truncated) ==
    /\ cf.up
    /\ LET new == rewriteConfig(cf.file, cf.cfg)
       IN  cf' = [cf EXCEPT !.file = rewriteConfigOverwriteFile(@, new, truncated), !.up = truncated, !.saved = <<cf.cfg>>]
CfEdit(line) ==
    /\ cf.up
    /\ cf' = [cf EXCEPT !.file = Append(@, line), !.saved = <<>>, !.others = Foreign(Append(cf.file, IF line.opt = "unbalanced" THEN Remark ELSE line))]
CfRestart ==
    LET r == loadServerConfig(cf.file, cfMenu.included)
    IN  cf' = [cf EXCEPT !.up = r.good, !.cfg = IF r.good THEN r.cfg ELSE @, !.saved = IF @ = <<>> /\ r.good THEN <<r.cfg>> ELSE @]

CfNext ==
    \/ CfSpend("set") /\ \E s \in cfMenu.sets : CfSet(s.opt, s.toks)
    \/ CfSpend("slaveof") /\ \E h \in {"", "m1", "m2"} : CfSlaveof(h)
    \/ CfSpend("rewrite") /\ \E t \in BOOLEAN : CfRewrite(t)
    \/ CfSpend("edit") /\ \E l \in cfMenu.edits : CfEdit(l)
    \/ CfSpend("restart") /\ CfRestart

----------------------------------------------------------------------------
\* A restart after CONFIG REWRITE finds the configuration the server had, even
\* when the process stopped between the write and the truncation.
RewriteKeepsConfig ==
    cf.saved # <<>> => loadServerConfig(cf.file, cfMenu.included) = [cfg |-> cf.saved[1], good |-> TRUE]

\* Comments, includes and the options the rewrite does not understand stay, in
\* their order ("options the rewrite process does not understand remain
\* untouched"), and what could not be parsed is kept as a comment.
RewriteKeepsOthers == cf.saved # <<>> => Foreign(cf.file) = cf.others

\* CONFIG REWRITE settles: a line of client-output-buffer-limit is reused for
\* the next class that is written, so the file grows by a line per class, and
\* the fourth rewrite has nothing left to change.
RewriteSettles ==
    cf.saved # <<>> =>
        \A f1 \in {rewriteConfig(cf.file, cf.saved[1])} : \A f2 \in {rewriteConfig(f1, cf.saved[1])} :
            \A f3 \in {rewriteConfig(f2, cf.saved[1])} : rewriteConfig(f3, cf.saved[1]) = f3
=============================================================================
