------------------------------- MODULE AuditLog -------------------------------
(***************************************************************************)
(* AuditLog (server/auditLog.ts): record() appends a hash-chained entry to *)
(* the file of the month and queues it for Postgres; flush() drains the    *)
(* queue; start() migrates, reads MAX(seq) and backfills; load() picks the *)
(* chain up after a restart; verify() walks the files.                     *)
(*                                                                         *)
(* A hash is the identity of an entry: no two writes produce the same one. *)
(* The clock does not go back, so the files in the order of their names    *)
(* are the lines in the order they were appended.                          *)
(***************************************************************************)
EXTENDS Integers, Sequences, SequencesExt

CONSTANTS
    MaxWrites,   \* bound: appends ever attempted
    MaxMonths,   \* bound: months, hence files
    MaxTorn,     \* bound: appends that stop before their newline
    MaxCrashes,  \* bound: deaths of the process
    MaxQueue     \* MAX_DB_QUEUE

ASSUME AuditConstants ==
    /\ MaxWrites \in Nat /\ MaxMonths \in Nat \ {0} /\ MaxTorn \in Nat
    /\ MaxCrashes \in Nat /\ MaxQueue \in Nat \ {0}

Writes  == 1..MaxWrites
Entry   == [seq : Writes, id : Writes, prev : 0..MaxWrites]
NoEntry == [seq |-> 0, id |-> 0, prev |-> 0]

(***************************************************************************)
(* A line of a file: an "entry", or one that does not parse ("junk").  The *)
(* last line of a month may lack its newline, with the text of the entry   *)
(* complete ("whole") or cut ("part"); "whole" parses.                     *)
(***************************************************************************)
Kind == {"entry", "whole", "part", "junk"}
Line == [kind : Kind, month : 1..MaxMonths, e : Entry]
Parses(l) == l.kind \in {"entry", "whole"}

VARIABLES
    lines,     \* data/audit/*.jsonl, oldest first
    rows,      \* the table audit_log: seq -> the entry of its raw column
    month,     \* the month of new Date()
    loaded, head,                  \* load() has run; lastSeq and lastHash
    db, dbError,                   \* where start() is, see DbPhase; what status() reports
    max,                           \* the answer of SELECT MAX(seq), -1 before it
    queue, flushing, overflowed,   \* entries to insert, flush() is running, queueOverflowed
    sent, applied,                 \* flush(): the INSERT it awaits, and whether it was applied
    writes, torn, crashes,         \* counters of the bounds
    acked,                         \* ghost: what record() returned
    unread,                        \* ghost: load() threw over files that hold entries
    upset                          \* ghost: what the chain or the table may not get over, see Upsets

(***************************************************************************)
(* Upsets.  "early": an entry was recorded while start() was at an await,  *)
(* and may be inserted before the backfill asks for MAX(seq).  "dropped":  *)
(* one fell out of a full queue.  "forked": one was written after a load() *)
(* that threw.  The first two are over when the process ends with the      *)
(* table complete.                                                         *)
(***************************************************************************)
Upsets == {"early", "dropped", "forked"}

process == <<loaded, head, db, dbError, max, queue, flushing, overflowed, sent, applied>>
ghosts == <<acked, unread, upset>>
vars == <<lines, rows, month, process, writes, torn, crashes, ghosts>>

\* "new" before start(), "migrating" and "reading" at its awaits, "on", and "off" once it failed.
DbPhase == {"new", "migrating", "reading", "on", "off"}
Connected == db \in {"migrating", "reading", "on"}   \* this.sql is set

Boot ==
    /\ loaded = FALSE /\ head = [seq |-> 0, id |-> 0]
    /\ db = "new" /\ dbError = FALSE /\ max = -1
    /\ queue = <<>> /\ flushing = FALSE /\ overflowed = FALSE
    /\ sent = NoEntry /\ applied = FALSE

Init ==
    /\ lines = <<>> /\ rows = [s \in Writes |-> NoEntry] /\ month = 1
    /\ Boot
    /\ writes = 0 /\ torn = 0 /\ crashes = 0
    /\ acked = {} /\ unread = FALSE /\ upset = {}

-----------------------------------------------------------------------------
\* The members of s at the places in T, in their order.
Kept(s, T) ==
    LET kept[i \in 0..Len(s)] ==
            IF i = 0 THEN <<>>
            ELSE IF i \in T THEN Append(kept[i - 1], s[i]) ELSE kept[i - 1]
    IN  kept[Len(s)]

\* readEntries() over files(), oldest first.
Entries == LET P == Kept(lines, {i \in DOMAIN lines : Parses(lines[i])})
           IN  [i \in DOMAIN P |-> P[i].e]

\* Mutant: only the newest file is read, as the code once did.
HeadOfNewest ==
    LET P == Kept(lines, {i \in DOMAIN lines : /\ Parses(lines[i])
                                               /\ lines[i].month = lines[Len(lines)].month})
    IN  IF P = <<>> THEN [seq |-> 0, id |-> 0]
        ELSE [seq |-> Last(P).e.seq, id |-> Last(P).e.id]

\* load(): backwards to the newest line that parses, whatever file holds it.
Newest == {i \in DOMAIN lines : /\ Parses(lines[i])
                                /\ \A j \in DOMAIN lines : Parses(lines[j]) => j <= i}
Loaded == IF Newest = {} THEN [seq |-> 0, id |-> 0]
          ELSE LET e == lines[CHOOSE i \in Newest : TRUE].e IN [seq |-> e.seq, id |-> e.id]

ChainHead == IF loaded THEN head ELSE Loaded

\* The entry record() builds.
NextEntry == [seq |-> ChainHead.seq + 1, id |-> writes + 1, prev |-> ChainHead.id]

\* appendFileSync(): onto an unterminated line of the month's file, or a line of its own.
Written(kind) ==
    IF lines # <<>> /\ Last(lines).month = month /\ Last(lines).kind \in {"whole", "part"}
    THEN [lines EXCEPT ![Len(lines)].kind = IF kind = "entry" THEN "junk" ELSE "part"]
    ELSE Append(lines, [kind |-> kind, month |-> month, e |-> NextEntry])

\* enqueueForDb(): the oldest are dropped above the ceiling.
Enqueued(e) == LET q == Append(queue, e)
               IN  SubSeq(q, 1 + IF Len(q) > MaxQueue THEN Len(q) - MaxQueue ELSE 0, Len(q))

\* Mutant: the newest entry is sent first.
FlushNewest(q) ==
    IF Connected /\ ~flushing /\ q # <<>>
    THEN flushing' = TRUE /\ sent' = Last(q) /\ applied' = FALSE
    ELSE UNCHANGED <<flushing, sent, applied>>

\* flush() up to its await of the first INSERT.
Flush(q) ==
    IF Connected /\ ~flushing /\ q # <<>>
    THEN flushing' = TRUE /\ sent' = q[1] /\ applied' = FALSE
    ELSE UNCHANGED <<flushing, sent, applied>>

-----------------------------------------------------------------------------
CanRecord == writes < MaxWrites

\* What a line written now is: one that forks the chain, if load() could not read it.
Forks == IF unread THEN {"forked"} ELSE {}

\* record(), the append succeeding.
Record ==
    /\ CanRecord /\ writes' = writes + 1
    /\ lines' = Written("entry")
    /\ acked' = acked \union {NextEntry}
    /\ loaded' = TRUE
    /\ head' = [seq |-> NextEntry.seq, id |-> NextEntry.id]
    /\ IF Connected
       THEN /\ queue' = Enqueued(NextEntry)
            /\ overflowed' = (overflowed \/ Len(queue) >= MaxQueue)
       ELSE UNCHANGED <<queue, overflowed>>
    /\ upset' = upset \union Forks
                   \union (IF db \in {"migrating", "reading"} THEN {"early"} ELSE {})
                   \union (IF Connected /\ Len(queue) >= MaxQueue THEN {"dropped"} ELSE {})
    /\ Flush(queue')
    /\ UNCHANGED <<rows, month, db, dbError, max, torn, crashes, unread>>

\* Mutant: the entry is queued although its append threw.
RecordThrowsQueued ==
    /\ CanRecord /\ writes' = writes + 1 /\ Connected
    /\ loaded' = TRUE /\ head' = ChainHead
    /\ queue' = Enqueued(NextEntry) /\ Flush(queue')
    /\ UNCHANGED <<lines, rows, month, db, dbError, max, overflowed, torn, crashes, ghosts>>

\* record(), the append throwing: nothing was written.
RecordThrows ==
    /\ CanRecord /\ writes' = writes + 1
    /\ loaded' = TRUE /\ head' = ChainHead
    /\ UNCHANGED <<lines, rows, month, db, dbError, max, queue, flushing, overflowed, sent, applied,
                   torn, crashes, ghosts>>

\* record(), its load() throwing: `loaded` is set before the files are read, and the
\* chain goes on from the genesis.
LoadThrows ==
    /\ CanRecord /\ writes' = writes + 1
    /\ ~loaded /\ loaded' = TRUE /\ head' = [seq |-> 0, id |-> 0]
    /\ unread' = (Loaded.seq # 0)
    /\ UNCHANGED <<lines, rows, month, db, dbError, max, queue, flushing, overflowed, sent, applied,
                   torn, crashes, acked, upset>>

\* The append fails with a piece of the line written: the disk is full, ...
RecordTorn(kind) ==
    /\ CanRecord /\ writes' = writes + 1
    /\ torn < MaxTorn /\ torn' = torn + 1
    /\ lines' = Written(kind)
    /\ loaded' = TRUE /\ head' = ChainHead
    /\ upset' = upset \union Forks
    /\ UNCHANGED <<rows, month, db, dbError, max, queue, flushing, overflowed, sent, applied,
                   crashes, acked, unread>>

Complete == \A i \in DOMAIN Entries : rows[Entries[i].seq] # NoEntry

Reboot ==
    /\ loaded' = FALSE /\ head' = [seq |-> 0, id |-> 0]
    /\ db' = "new" /\ dbError' = FALSE /\ max' = -1
    /\ queue' = <<>> /\ flushing' = FALSE /\ overflowed' = FALSE
    /\ sent' = NoEntry /\ applied' = FALSE
    /\ unread' = FALSE

\* ... or the process dies mid-append.
DieTorn(kind) ==
    /\ CanRecord /\ writes' = writes + 1
    /\ torn < MaxTorn /\ torn' = torn + 1
    /\ crashes < MaxCrashes /\ crashes' = crashes + 1
    /\ lines' = Written(kind)
    /\ upset' = upset \union Forks
    /\ Reboot
    /\ UNCHANGED <<rows, month, acked>>

\* The process dies, or shutdown() ran stop(), whose last flush may have got anywhere.
Crash ==
    /\ crashes < MaxCrashes /\ crashes' = crashes + 1
    /\ Reboot
    /\ upset' = IF Complete THEN upset \ {"early", "dropped"} ELSE upset
    /\ UNCHANGED <<lines, rows, month, writes, torn, acked>>

NextMonth ==
    /\ month < MaxMonths /\ month' = month + 1
    /\ UNCHANGED <<lines, rows, process, writes, torn, crashes, ghosts>>

-----------------------------------------------------------------------------
\* The server executes the INSERT ... ON CONFLICT (seq) DO NOTHING that is under way.
Insert ==
    /\ sent # NoEntry /\ ~applied
    /\ applied' = TRUE
    /\ rows' = [rows EXCEPT ![sent.seq] = IF @ = NoEntry THEN sent ELSE @]
    /\ UNCHANGED <<lines, month, loaded, head, db, dbError, max, queue, flushing, overflowed, sent,
                   writes, torn, crashes, ghosts>>

\* Its answer arrives: shift(), and the next one is sent.  A start() that failed
\* meanwhile has set sql to null, and the next statement throws.
FlushNext ==
    /\ applied
    /\ queue' = Tail(queue)
    /\ IF queue' = <<>> \/ ~Connected
       THEN /\ flushing' = FALSE /\ sent' = NoEntry /\ applied' = FALSE
            /\ dbError' = (queue' # <<>>)
       ELSE /\ flushing' = TRUE /\ sent' = queue'[1] /\ applied' = FALSE
            /\ UNCHANGED dbError
    /\ UNCHANGED <<lines, rows, month, loaded, head, db, max, overflowed,
                   writes, torn, crashes, ghosts>>

\* Mutant: the failure is swallowed.
FlushFailsQuietly ==
    /\ flushing
    /\ flushing' = FALSE /\ sent' = NoEntry /\ applied' = FALSE
    /\ UNCHANGED <<lines, rows, month, loaded, head, db, dbError, max, queue, overflowed,
                   writes, torn, crashes, ghosts>>

\* It fails, applied or not; the entry stays queued until flush() is called again.
FlushFails ==
    /\ flushing
    /\ flushing' = FALSE /\ sent' = NoEntry /\ applied' = FALSE
    /\ dbError' = TRUE
    /\ UNCHANGED <<lines, rows, month, loaded, head, db, max, queue, overflowed,
                   writes, torn, crashes, ghosts>>

-----------------------------------------------------------------------------
\* start(), step by step.
StartDb ==
    /\ db = "new" /\ db' = "migrating"
    /\ UNCHANGED <<lines, rows, month, loaded, head, dbError, max, queue, flushing, overflowed,
                   sent, applied, writes, torn, crashes, ghosts>>

Migrated ==
    /\ db = "migrating" /\ db' = "reading" /\ dbError' = FALSE
    /\ UNCHANGED <<lines, rows, month, loaded, head, max, queue, flushing, overflowed,
                   sent, applied, writes, torn, crashes, ghosts>>

\* The highest row, 0 for an empty table.
MaxSeq == CHOOSE s \in 0..MaxWrites :
             /\ s = 0 \/ rows[s] # NoEntry
             /\ \A t \in Writes : t > s => rows[t] = NoEntry

\* The server answers SELECT MAX(seq).
ReadMax ==
    /\ db = "reading" /\ max = -1
    /\ max' = MaxSeq
    /\ UNCHANGED <<lines, rows, month, loaded, head, db, dbError, queue, flushing, overflowed,
                   sent, applied, writes, torn, crashes, ghosts>>

\* Mutant: off by one.
MissingAfter(highest) == Kept(Entries, {i \in DOMAIN Entries : Entries[i].seq > highest + 1})
Missing(highest) == Kept(Entries, {i \in DOMAIN Entries : Entries[i].seq > highest})

\* backfill() after its await: the missing entries go in front of the queue.
Backfill ==
    /\ db = "reading" /\ max # -1
    /\ db' = "on" /\ max' = -1
    /\ queue' = Missing(max) \o queue
    /\ IF Missing(max) = <<>> THEN UNCHANGED <<flushing, sent, applied>> ELSE Flush(queue')
    /\ UNCHANGED <<lines, rows, month, loaded, head, dbError, overflowed, writes, torn, crashes,
                   ghosts>>

\* Connecting, migrating or reading failed: file-only until the next restart.
StartFails ==
    /\ db \in {"migrating", "reading"}
    /\ db' = "off" /\ dbError' = TRUE /\ max' = -1
    /\ UNCHANGED <<lines, rows, month, loaded, head, queue, flushing, overflowed,
                   sent, applied, writes, torn, crashes, ghosts>>

-----------------------------------------------------------------------------
DbStep == Insert \/ FlushNext \/ StartDb \/ Migrated \/ ReadMax \/ Backfill

Next == \/ Record \/ RecordThrows \/ LoadThrows
        \/ \E kind \in {"whole", "part"} : RecordTorn(kind) \/ DieTorn(kind)
        \/ Crash \/ NextMonth
        \/ FlushFails \/ StartFails
        \/ DbStep

Spec == Init /\ [][Next]_vars

(***************************************************************************)
(* Fairness: a statement is executed and answered, if it does not fail     *)
(* first, and start() goes on with the answer.                             *)
(***************************************************************************)
FairSpec == Spec /\ WF_vars(DbStep)

-----------------------------------------------------------------------------
\* verifyFiles(): no line that does not parse, the sequence without a gap, every link intact.
VerifySkipsTorn ==   \* mutant: an unparseable line is passed over
    \A i \in DOMAIN Entries :
        /\ Entries[i].seq = i
        /\ Entries[i].prev = IF i = 1 THEN 0 ELSE Entries[i - 1].id
VerifyFiles ==
    /\ \A i \in DOMAIN lines : Parses(lines[i])
    /\ \A i \in DOMAIN Entries :
        /\ Entries[i].seq = i
        /\ Entries[i].prev = IF i = 1 THEN 0 ELSE Entries[i - 1].id

InFile(e) == \E i \in DOMAIN lines : Parses(lines[i]) /\ lines[i].e = e

\* Every variable has its type, and flush() is running exactly while it awaits a statement.
TypeOK ==
    /\ lines \in Seq(Line) /\ rows \in [Writes -> Entry \union {NoEntry}]
    /\ month \in 1..MaxMonths
    /\ loaded \in BOOLEAN /\ head \in [seq : 0..MaxWrites, id : 0..MaxWrites]
    /\ db \in DbPhase /\ dbError \in BOOLEAN /\ max \in -1..MaxWrites
    /\ queue \in Seq(Entry)
    /\ flushing \in BOOLEAN /\ overflowed \in BOOLEAN /\ applied \in BOOLEAN
    /\ sent \in Entry \union {NoEntry} /\ flushing = (sent # NoEntry)
    /\ writes \in 0..MaxWrites /\ torn \in 0..MaxTorn /\ crashes \in 0..MaxCrashes
    /\ acked \subseteq Entry /\ unread \in BOOLEAN /\ upset \subseteq Upsets

\* Without torn lines every row of the table is the file's entry of that seq: verifyDb()
\* raises no false alarm, whatever is lost, dropped, redelivered or restarted.
RowsAreTheFiles ==
    torn = 0 => \A s \in Writes : rows[s] # NoEntry => rows[s].seq = s /\ InFile(rows[s])

\* The numbers of the completed lines only grow, and only number 1 starts from the genesis.
OneChain ==
    \A i, j \in DOMAIN lines :
        (lines[i].kind = "entry" /\ lines[j].kind = "entry") =>
            /\ i < j => lines[i].e.seq < lines[j].e.seq
            /\ lines[i].e.prev = 0 => lines[i].e.seq = 1

\* load()'s comment, "forking the chain": whatever is torn, glued or lost and wherever the
\* process dies, the chain does not restart, unless a load() threw and an entry followed.
ChainNeverForks == "forked" \notin upset => OneChain

\* An entry that was recorded and is not in the files is noticed by verify().
VerifyHonest == VerifyFiles => \A e \in acked : InFile(e)

\* The table can be expected to catch up with the files.
Settled == torn = 0 /\ upset = {}

\* Connected, with nothing queued, the table is complete, unless an entry of a process that
\* left it incomplete was recorded during start() or dropped.
CaughtUp == Settled /\ db = "on" /\ queue = <<>> /\ ~flushing => Complete

\* Liveness: every recorded entry reaches the table, restarts or not, unless the chain or
\* the queue was upset, or status() shows the outage that keeps it waiting.
Mirrored == \A s \in Writes :
    (\E e \in acked : e.seq = s) ~> (rows[s] # NoEntry \/ dbError \/ db = "off" \/ ~Settled)

-----------------------------------------------------------------------------
\* The two copies as the abstract log: the entries of the files and, counted, the rows.
Log == [i \in DOMAIN Entries |-> [id |-> Entries[i].id, prev |-> Entries[i].prev]]
Copied == LET have == {s \in Writes : rows[s] # NoEntry}
          IN  IF \E n \in 0..MaxWrites : have = 1..n
              THEN CHOOSE n \in 0..MaxWrites : have = 1..n
              ELSE -1

Abstract == INSTANCE MirroredLog WITH Hash <- 0..MaxWrites, log <- Log, copied <- Copied,
                                      broken <- ~Settled

\* The files and the table implement the log that is appended to and copied in order, and
\* that is whole again once a process ends with the table complete.
ImplementsLog == Abstract!Spec
=============================================================================
