---------------------------- MODULE AuditLogProofs ----------------------------
(***************************************************************************)
(* Proofs about AuditLog for any numbers of writes, months, torn lines and *)
(* deaths of the process: the chain of the files does not fork unless a    *)
(* load() threw, no row differs from the files, verify() notices what was  *)
(* lost; and the table is a copy of the files that trails them until a     *)
(* line is torn, the chain forks, or an entry is dropped or recorded       *)
(* during start(), and again once a process ends with the table complete.  *)
(***************************************************************************)
EXTENDS AuditLog, WellFoundedInduction, TLAPS

Head0 == [seq |-> 0, id |-> 0]
Numbered == [seq : Nat, id : Nat, prev : Nat]
LineType == [kind : Kind, month : Nat, e : Numbered]

\* What the chain is made of.
ChainType ==
    /\ lines \in Seq(LineType) /\ month \in Nat /\ writes \in Nat
    /\ loaded \in BOOLEAN /\ head \in [seq : Nat, id : Nat] /\ unread \in BOOLEAN

\* The numbers of the lines that parse do not fall, and those of complete lines grow; only
\* the first entry has no predecessor.
Ordered ==
    /\ \A i, j \in DOMAIN lines : i < j /\ Parses(lines[i]) /\ Parses(lines[j]) =>
          /\ lines[i].e.seq <= lines[j].e.seq
          /\ lines[i].kind = "entry" /\ lines[j].kind = "entry" => lines[i].e.seq < lines[j].e.seq
    /\ \A i \in DOMAIN lines : Parses(lines[i]) =>
          /\ lines[i].e.seq # 0 /\ lines[i].e.id # 0
          /\ lines[i].e.prev = 0 => lines[i].e.seq = 1

\* A head from which the chain can go on: no complete line is beyond it, and a line that
\* was cut after its text is at most the next one.
Heads(h) ==
    /\ h \in [seq : Nat, id : Nat] /\ (h.id = 0 <=> h.seq = 0)
    /\ \A i \in DOMAIN lines : Parses(lines[i]) =>
          /\ lines[i].e.seq <= h.seq + 1
          /\ lines[i].kind = "entry" => lines[i].e.seq <= h.seq

Chained == ChainType /\ Ordered /\ (loaded => Heads(head))

\* The chain is sound until a line follows a load() that threw.
IInv == ChainType /\ ("forked" \notin upset => Ordered /\ (loaded /\ ~unread => Heads(head)))

------------------------------------------------------------------------------
LEMMA GreatestExists ==
    ASSUME NEW n \in Nat, NEW S \in SUBSET (1..n), S # {}
    PROVE  \E i \in S : \A j \in S : j <= i
<1>. DEFINE T == {n - i : i \in S}
<1>0. \A i \in S : n - i \in Nat
  OBVIOUS
<1>1. T \subseteq Nat /\ T # {}
  <2>1. T \subseteq Nat
    BY <1>0
  <2>2. PICK i \in S : TRUE
    OBVIOUS
  <2>3. n - i \in T
    OBVIOUS
  <2>. QED
    BY <2>1, <2>3
<1>2. \E x \in T : \A y \in T : ~(<<y, x>> \in OpToRel(<, Nat))
  BY <1>1, NatLessThanWellFounded, WFMin
<1>3. PICK x \in T : \A y \in T : ~(y < x)
  BY <1>1, <1>2 DEF OpToRel
<1>4. PICK i \in S : x = n - i
  BY <1>3
<1>5. ASSUME NEW j \in S
      PROVE  j <= i
  <2>1. n - j \in T
    OBVIOUS
  <2>2. ~(n - j < n - i)
    BY <1>3, <1>4, <2>1
  <2>3. i \in Int /\ j \in Int
    OBVIOUS
  <2>. QED
    BY <2>2, <2>3
<1>. QED
  BY <1>5

\* load() finds the greatest of the lines that parse.
LEMMA LoadedHeads ==
    ASSUME ChainType, Ordered
    PROVE  Heads(Loaded)
<1>. DEFINE P == {i \in DOMAIN lines : Parses(lines[i])}
<1>1. Len(lines) \in Nat /\ DOMAIN lines = 1..Len(lines) /\ \A i \in DOMAIN lines : lines[i] \in LineType
  BY DEF ChainType
<1>2. CASE P = {}
  <2>1. Loaded = Head0
    BY <1>2 DEF Loaded, Newest, Head0
  <2>. QED
    BY <1>2, <2>1 DEF Heads, Head0
<1>3. CASE P # {}
  <2>1. \E i \in P : \A j \in P : j <= i
    BY <1>1, <1>3, GreatestExists
  <2>2. Newest # {}
    BY <2>1 DEF Newest
  <2>3. PICK i \in Newest : Loaded = [seq |-> lines[i].e.seq, id |-> lines[i].e.id]
    BY <2>2 DEF Loaded
  <2>4. i \in DOMAIN lines /\ Parses(lines[i]) /\ \A j \in DOMAIN lines : Parses(lines[j]) => j <= i
    BY DEF Newest
  <2>5. lines[i].e \in Numbered
    BY <1>1, <2>4 DEF LineType
  <2>6. \A j \in DOMAIN lines : Parses(lines[j]) => lines[j].e.seq <= lines[i].e.seq /\ lines[j].e.seq \in Nat
    <3>1. ASSUME NEW j \in DOMAIN lines, Parses(lines[j])
          PROVE  lines[j].e.seq <= lines[i].e.seq /\ lines[j].e.seq \in Nat
      <4>1. lines[j].e.seq \in Nat /\ lines[i].e.seq \in Nat
        BY <1>1, <2>5 DEF LineType, Numbered
      <4>2. CASE j = i
        BY <4>1, <4>2
      <4>3. CASE j < i
        BY <2>4, <3>1, <4>1, <4>3 DEF Ordered
      <4>. QED
        BY <1>1, <2>4, <3>1, <4>1, <4>2, <4>3
    <3>. QED
      BY <3>1
  <2>7. lines[i].e.seq # 0 /\ lines[i].e.id # 0
    BY <2>4 DEF Ordered
  <2>. QED
    BY <2>3, <2>5, <2>6, <2>7 DEF Heads, Numbered
<1>. QED
  BY <1>2, <1>3

LEMMA ChainHeads ==
    ASSUME Chained
    PROVE  Heads(ChainHead)
  BY LoadedHeads DEF Chained, ChainHead

------------------------------------------------------------------------------
LEMMA NextIsNumbered ==
    ASSUME ChainType
    PROVE  /\ ChainHead \in [seq : Nat, id : Nat]
           /\ NextEntry \in Numbered /\ NextEntry.seq = ChainHead.seq + 1 /\ NextEntry.id = writes + 1
           /\ NextEntry.prev = ChainHead.id
<1>1. Loaded \in [seq : Nat, id : Nat]
  <2>1. CASE Newest = {}
    BY <2>1 DEF Loaded
  <2>2. CASE Newest # {}
    <3>1. PICK i \in Newest : Loaded = [seq |-> lines[i].e.seq, id |-> lines[i].e.id]
      BY <2>2 DEF Loaded
    <3>2. i \in DOMAIN lines /\ lines \in Seq(LineType)
      BY DEF Newest, ChainType
    <3>3. lines[i] \in LineType
      BY <3>2
    <3>. QED
      BY <3>1, <3>3 DEF LineType, Numbered
  <2>. QED
    BY <2>1, <2>2
<1>2. ChainHead \in [seq : Nat, id : Nat]
  BY <1>1 DEF ChainHead, ChainType
<1>. QED
  BY <1>2 DEF ChainType, NextEntry, Numbered

\* appendFileSync() adds one line, or spoils the one it continues.
LEMMA Writing ==
    ASSUME ChainType, NEW kind \in {"entry", "whole", "part"}, lines' = Written(kind)
    PROVE  /\ lines' \in Seq(LineType)
           /\ \A i \in DOMAIN lines' : Parses(lines'[i]) =>
                 \/ i \in DOMAIN lines /\ lines'[i] = lines[i]
                 \/ i = Len(lines) + 1 /\ lines'[i].kind = kind /\ lines'[i].e = NextEntry
<1>0. lines \in Seq(LineType) /\ Len(lines) \in Nat /\ DOMAIN lines = 1..Len(lines)
  BY DEF ChainType
<1>1. CASE lines # <<>> /\ \E k \in {"junk", "part"} : lines' = [lines EXCEPT ![Len(lines)].kind = k]
  <2>1. PICK k \in {"junk", "part"} : lines' = [lines EXCEPT ![Len(lines)].kind = k]
    BY <1>1
  <2>2. Len(lines) \in DOMAIN lines /\ lines[Len(lines)] \in LineType
    BY <1>0, <1>1
  <2>3. [lines[Len(lines)] EXCEPT !.kind = k] \in LineType /\ ~Parses([lines[Len(lines)] EXCEPT !.kind = k])
    BY <2>2 DEF LineType, Kind, Parses
  <2>4. lines' = [lines EXCEPT ![Len(lines)] = [lines[Len(lines)] EXCEPT !.kind = k]]
    BY <2>1, <2>2
  <2>5. lines' \in Seq(LineType) /\ DOMAIN lines' = DOMAIN lines
    BY <1>0, <2>2, <2>3, <2>4
  <2>6. ASSUME NEW i \in DOMAIN lines', Parses(lines'[i])
        PROVE  i \in DOMAIN lines /\ lines'[i] = lines[i]
    BY <1>0, <2>2, <2>3, <2>4, <2>5, <2>6
  <2>. QED
    BY <2>5, <2>6
<1>2. CASE lines' = Append(lines, [kind |-> kind, month |-> month, e |-> NextEntry])
  <2>1. [kind |-> kind, month |-> month, e |-> NextEntry] \in LineType
    BY NextIsNumbered DEF LineType, Kind, ChainType
  <2>. QED
    BY <1>0, <1>2, <2>1
<1>. QED
  BY <1>1, <1>2 DEF Written

LEMMA WritingKeeps ==
    ASSUME Chained, NEW kind \in {"entry", "whole", "part"}, lines' = Written(kind)
    PROVE  Ordered'
<1>1. /\ Heads(ChainHead) /\ writes \in Nat
      /\ DOMAIN lines = 1..Len(lines) /\ Len(lines) \in Nat /\ \A i \in DOMAIN lines : lines[i] \in LineType
  BY ChainHeads DEF Chained, ChainType
<1>2. /\ DOMAIN lines' = 1..Len(lines') /\ Len(lines') \in Nat
      /\ \A i \in DOMAIN lines' : Parses(lines'[i]) =>
                 \/ i \in DOMAIN lines /\ lines'[i] = lines[i]
                 \/ i = Len(lines) + 1 /\ lines'[i].kind = kind /\ lines'[i].e = NextEntry
  BY Writing DEF Chained
<1>3. /\ NextEntry.seq = ChainHead.seq + 1 /\ NextEntry.id = writes + 1 /\ NextEntry.prev = ChainHead.id
      /\ ChainHead.seq \in Nat /\ ChainHead.id \in Nat
  BY <1>1, NextIsNumbered DEF Heads, Chained
<1>4. \A i \in DOMAIN lines : lines[i].e.seq \in Nat
  BY <1>1 DEF LineType, Numbered
<1>5. ASSUME NEW i \in DOMAIN lines', Parses(lines'[i])
      PROVE  /\ lines'[i].e.seq # 0 /\ lines'[i].e.id # 0
             /\ lines'[i].e.prev = 0 => lines'[i].e.seq = 1
  <2>1. CASE i \in DOMAIN lines /\ lines'[i] = lines[i]
    BY <1>5, <2>1 DEF Chained, Ordered
  <2>2. CASE lines'[i].e = NextEntry
    BY <1>1, <1>3, <2>2 DEF Heads
  <2>. QED
    BY <1>2, <1>5, <2>1, <2>2
<1>6. ASSUME NEW i \in DOMAIN lines', NEW j \in DOMAIN lines', i < j, Parses(lines'[i]), Parses(lines'[j])
      PROVE  /\ lines'[i].e.seq <= lines'[j].e.seq
             /\ lines'[i].kind = "entry" /\ lines'[j].kind = "entry" => lines'[i].e.seq < lines'[j].e.seq
  <2>1. i \in DOMAIN lines /\ lines'[i] = lines[i]
    <3>1. i # Len(lines) + 1
      BY <1>1, <1>2, <1>6
    <3>. QED
      BY <1>2, <1>6, <3>1
  <2>2. CASE j \in DOMAIN lines /\ lines'[j] = lines[j]
    BY <1>6, <2>1, <2>2 DEF Chained, Ordered
  <2>3. CASE lines'[j].e = NextEntry
    <3>1. lines[i].e.seq <= ChainHead.seq + 1 /\ (lines[i].kind = "entry" => lines[i].e.seq <= ChainHead.seq)
      BY <1>1, <1>6, <2>1 DEF Heads
    <3>. QED
      BY <1>3, <1>4, <2>1, <2>3, <3>1
  <2>. QED
    BY <1>2, <1>6, <2>2, <2>3
<1>. QED
  BY <1>5, <1>6 DEF Ordered

\* The head that goes on from a complete line, or is left by one that was cut.
LEMMA HeadsMove ==
    ASSUME Chained, NEW kind \in {"entry", "whole", "part"}, lines' = Written(kind),
           \/ head' = [seq |-> NextEntry.seq, id |-> NextEntry.id]
           \/ kind # "entry" /\ head' = ChainHead
    PROVE  Heads(head)'
<1>0. \A i \in DOMAIN lines : lines[i] \in LineType
  BY DEF Chained, ChainType
<1>1. Heads(ChainHead) /\ writes \in Nat /\ \A i \in DOMAIN lines : lines[i].e.seq \in Nat
  BY <1>0, ChainHeads DEF Chained, ChainType, LineType, Numbered
<1>2. /\ NextEntry.seq = ChainHead.seq + 1 /\ NextEntry.id = writes + 1
      /\ ChainHead \in [seq : Nat, id : Nat]
  BY <1>1, NextIsNumbered DEF Heads, Chained
<1>3. head' \in [seq : Nat, id : Nat] /\ (head'.id = 0 <=> head'.seq = 0)
  BY <1>1, <1>2 DEF Heads
<1>4. ASSUME NEW i \in DOMAIN lines', Parses(lines'[i])
      PROVE  /\ lines'[i].e.seq <= head'.seq + 1
             /\ lines'[i].kind = "entry" => lines'[i].e.seq <= head'.seq
  <2>1. ChainHead.seq \in Nat /\ head'.seq \in {ChainHead.seq, ChainHead.seq + 1}
    BY <1>2
  <2>2. CASE i \in DOMAIN lines /\ lines'[i] = lines[i]
    <3>1. lines[i].e.seq <= ChainHead.seq + 1 /\ (lines[i].kind = "entry" => lines[i].e.seq <= ChainHead.seq)
      BY <1>1, <1>4, <2>2 DEF Heads
    <3>. QED
      BY <1>1, <2>1, <2>2, <3>1
  <2>3. CASE lines'[i].kind = kind /\ lines'[i].e = NextEntry
    BY <1>2, <2>1, <2>3
  <2>. QED
    BY <1>4, <2>2, <2>3, Writing DEF Chained
<1>. QED
  BY <1>3, <1>4 DEF Heads

------------------------------------------------------------------------------
\* A head a step leaves behind: its own, the one load() found, or none.
LEMMA HeadTypes ==
    ASSUME ChainType, \/ head' \in {head, ChainHead, Head0}
                      \/ head' = [seq |-> NextEntry.seq, id |-> NextEntry.id]
    PROVE  head' \in [seq : Nat, id : Nat]
<1>1. ChainHead \in [seq : Nat, id : Nat] /\ NextEntry \in Numbered /\ head \in [seq : Nat, id : Nat]
  BY NextIsNumbered DEF ChainType
<1>. QED
  BY <1>1 DEF Numbered, Head0

LEMMA StepTypes ==
    ASSUME ChainType, [Next]_vars
    PROVE  ChainType'
<1>1. month \in Nat /\ writes \in Nat /\ lines \in Seq(LineType)
  BY DEF ChainType
<1>2. lines' \in Seq(LineType)
  <2>1. lines' = lines \/ \E kind \in {"entry", "whole", "part"} : lines' = Written(kind)
    BY DEF Next, Record, RecordThrows, LoadThrows, RecordTorn, DieTorn, Crash, NextMonth, FlushFails, StartFails,
           DbStep, Insert, FlushNext, StartDb, Migrated, ReadMax, Backfill, vars
  <2>. QED
    BY <1>1, <2>1, Writing
<1>3. month' \in {month, month + 1} /\ writes' \in {writes, writes + 1}
  BY DEF Next, Record, RecordThrows, LoadThrows, RecordTorn, DieTorn, Crash, NextMonth, FlushFails, StartFails,
         DbStep, Insert, FlushNext, StartDb, Migrated, ReadMax, Backfill, vars
<1>4. loaded' \in {loaded, TRUE, FALSE} /\ unread' \in {unread, FALSE, Loaded.seq # 0}
  BY DEF Next, Record, RecordThrows, LoadThrows, RecordTorn, DieTorn, Crash, NextMonth, FlushFails, StartFails,
         DbStep, Insert, FlushNext, StartDb, Migrated, ReadMax, Backfill, vars, process, ghosts, Reboot
<1>5. head' \in {head, ChainHead, Head0} \/ head' = [seq |-> NextEntry.seq, id |-> NextEntry.id]
  BY DEF Next, Record, RecordThrows, LoadThrows, RecordTorn, DieTorn, Crash, NextMonth, FlushFails, StartFails,
         DbStep, Insert, FlushNext, StartDb, Migrated, ReadMax, Backfill, vars, process, Reboot, Head0
<1>6. head' \in [seq : Nat, id : Nat]
  BY <1>5, HeadTypes
<1>7. month' \in Nat /\ writes' \in Nat
  BY <1>1, <1>3
<1>8. loaded' \in BOOLEAN /\ unread' \in BOOLEAN
  BY <1>4 DEF ChainType
<1>. QED
  BY <1>2, <1>6, <1>7, <1>8 DEF ChainType

\* What a step does to the chain: it writes a line after a head that load() found, or it
\* writes none.
LEMMA StepWrites ==
    ASSUME [Next]_vars, "forked" \notin upset'
    PROVE  /\ "forked" \notin upset
           /\ \/ /\ ~unread
                 /\ \E kind \in {"entry", "whole", "part"} :
                       /\ lines' = Written(kind)
                       /\ \/ head' = [seq |-> NextEntry.seq, id |-> NextEntry.id]
                          \/ kind # "entry" /\ head' = ChainHead
                          \/ loaded' = FALSE
              \/ /\ lines' = lines
                 /\ \/ UNCHANGED <<loaded, head, unread>>
                    \/ loaded' = TRUE /\ head' = ChainHead /\ unread' = unread
                    \/ loaded' = FALSE
                    \/ ~loaded /\ head' = Head0 /\ unread' = (Loaded.seq # 0)
<1>1. CASE Record
  BY <1>1 DEF Record, Forks
<1>2. CASE RecordThrows \/ LoadThrows
  BY <1>2 DEF RecordThrows, LoadThrows, Head0, ghosts
<1>3. CASE \E kind \in {"whole", "part"} : RecordTorn(kind) \/ DieTorn(kind)
  BY <1>3 DEF RecordTorn, DieTorn, Reboot, Forks
<1>4. CASE Crash
  BY <1>4 DEF Crash, Reboot
<1>5. CASE NextMonth \/ FlushFails \/ StartFails \/ DbStep \/ UNCHANGED vars
  BY <1>5 DEF NextMonth, FlushFails, StartFails, DbStep, Insert, FlushNext, StartDb, Migrated, ReadMax, Backfill,
              vars, process, ghosts
<1>. QED
  BY <1>1, <1>2, <1>3, <1>4, <1>5 DEF Next

LEMMA StepKeeps ==
    ASSUME IInv, [Next]_vars
    PROVE  IInv'
<1>1. ChainType'
  BY StepTypes DEF IInv
<1>2. ASSUME "forked" \notin upset'
      PROVE  Ordered' /\ (loaded' /\ ~unread' => Heads(head)')
  <2>1. ChainType /\ Ordered /\ (loaded /\ ~unread => Heads(head))
    BY <1>2, StepWrites DEF IInv
  <2>2. ~unread => Chained
    BY <2>1 DEF Chained
  <2>3. Heads(Loaded)
    BY <2>1, LoadedHeads
  <2>4. ASSUME NEW kind \in {"entry", "whole", "part"}, ~unread, lines' = Written(kind),
               \/ head' = [seq |-> NextEntry.seq, id |-> NextEntry.id]
               \/ kind # "entry" /\ head' = ChainHead
               \/ loaded' = FALSE
        PROVE  Ordered' /\ (loaded' => Heads(head)')
    BY <2>2, <2>4, WritingKeeps, HeadsMove
  <2>5. ASSUME lines' = lines,
               \/ UNCHANGED <<loaded, head, unread>>
               \/ loaded' = TRUE /\ head' = ChainHead /\ unread' = unread
               \/ loaded' = FALSE
               \/ ~loaded /\ head' = Head0 /\ unread' = (Loaded.seq # 0)
        PROVE  Ordered' /\ (loaded' /\ ~unread' => Heads(head)')
    <3>1. Ordered'
      BY <2>1, <2>5 DEF Ordered
    <3>2. CASE UNCHANGED <<loaded, head, unread>>
      BY <2>1, <2>5, <3>1, <3>2 DEF Heads
    <3>3. CASE loaded' = TRUE /\ head' = ChainHead /\ unread' = unread
      <4>1. ~unread => Heads(ChainHead)
        BY <2>2, ChainHeads
      <4>. QED
        BY <2>5, <3>1, <3>3, <4>1 DEF Heads
    <3>4. CASE head' = Head0 /\ unread' = (Loaded.seq # 0)
      <4>1. ASSUME ~unread' PROVE Loaded = Head0
        BY <2>3, <3>4, <4>1 DEF Heads, Head0
      <4>. QED
        BY <2>3, <2>5, <3>1, <3>4, <4>1 DEF Heads
    <3>. QED
      BY <2>5, <3>1, <3>2, <3>3, <3>4
  <2>. QED
    BY <1>2, <2>4, <2>5, StepWrites
<1>. QED
  BY <1>1, <1>2 DEF IInv

LEMMA ChainStart == Init => IInv
<1>1. Init => lines = <<>> /\ month = 1 /\ writes = 0 /\ loaded = FALSE /\ head = [seq |-> 0, id |-> 0] /\ unread = FALSE
  BY DEF Init, Boot
<1>2. lines = <<>> => lines \in Seq(LineType) /\ Ordered
  BY DEF Ordered
<1>3. month = 1 /\ writes = 0 => month \in Nat /\ writes \in Nat
  OBVIOUS
<1>4. loaded = FALSE /\ unread = FALSE => loaded \in BOOLEAN /\ unread \in BOOLEAN
  OBVIOUS
<1>5. head = [seq |-> 0, id |-> 0] => head \in [seq : Nat, id : Nat]
  OBVIOUS
<1>6. Init => ChainType
  BY <1>1, <1>2, <1>3, <1>4, <1>5 DEF ChainType
<1>7. Init => Ordered /\ loaded = FALSE
  BY <1>1, <1>2
<1>. QED
  BY <1>6, <1>7 DEF IInv

\* The types of the files and of the head, and the order of the chain, at the beginning and
\* after every step.
THEOREM ChainIsSound == Spec => []IInv
  BY ChainStart, StepKeeps, PTL DEF Spec

\* load() and record() do not fork the chain, whatever lines are torn, glued or lost and
\* whenever the process dies, unless a load() threw and an entry followed.
THEOREM NeverForks == Spec => []ChainNeverForks
<1>1. IInv => ChainNeverForks
  BY DEF IInv, Ordered, ChainNeverForks, OneChain, Parses
<1>. QED
  BY <1>1, ChainIsSound, PTL

------------------------------------------------------------------------------
\* Induction over 0..n, on a set rather than on a predicate.
LEMMA NatSetInduction ==
    ASSUME NEW n \in Nat, NEW S, 0 \in S, \A k \in 0..(n-1) : k \in S => k + 1 \in S
    PROVE  \A k \in 0..n : k \in S
<1>. DEFINE T == {k \in 0..n : k \notin S}
<1>1. SUFFICES ASSUME T # {} PROVE FALSE
  OBVIOUS
<1>2. T \subseteq Nat /\ T # {}
  BY <1>1
<1>3. \E x \in T : \A y \in T : ~(<<y, x>> \in OpToRel(<, Nat))
  <2>. HIDE DEF T
  <2>. QED
    BY <1>2, NatLessThanWellFounded, WFMin
<1>4. PICK x \in T : \A y \in T : ~(y < x)
  BY <1>2, <1>3 DEF OpToRel
<1>5. x # 0 /\ x \in 0..n /\ x - 1 \in 0..(n-1)
  BY <1>4
<1>6. x - 1 \in S
  BY <1>4, <1>5
<1>. QED
  BY <1>4, <1>5, <1>6

\* f starts with a and takes the step h[i] at each place i.
Iterates(f, n, A, a, h) == f \in [0..n -> A] /\ f[0] = a /\ \A i \in 1..n : f[i] = h[i][f[i - 1]]

\* A recursive function on 0..n whose steps stay in A satisfies its equation.
LEMMA Recursion ==
    ASSUME NEW n \in Nat, NEW A, NEW a \in A, NEW h \in [1..n -> [A -> A]]
    PROVE  \E f : Iterates(f, n, A, a, h)
<1>. DEFINE Good(k) == {f \in [0..n -> A] : \A i \in 0..k : f[i] = IF i = 0 THEN a ELSE h[i][f[i - 1]]}
<1>. DEFINE S == {k \in 0..n : Good(k) # {}}
<1>1. 0 \in S
  <2>1. [i \in 0..n |-> a] \in Good(0)
    OBVIOUS
  <2>. QED
    BY <2>1
<1>2. ASSUME NEW k \in 0..(n-1), k \in S
      PROVE  k + 1 \in S
  <2>1. PICK f \in [0..n -> A] : \A i \in 0..k : f[i] = IF i = 0 THEN a ELSE h[i][f[i - 1]]
    BY <1>2
  <2>2. f[k] \in A /\ k + 1 \in 1..n /\ h[k + 1][f[k]] \in A
    BY <2>1
  <2>. DEFINE g == [f EXCEPT ![k + 1] = h[k + 1][f[k]]]
  <2>3. g \in [0..n -> A]
    BY <2>2
  <2>4. ASSUME NEW i \in 0..(k + 1)
        PROVE  g[i] = IF i = 0 THEN a ELSE h[i][g[i - 1]]
    <3>1. CASE i = k + 1
      BY <2>2, <3>1
    <3>2. CASE i # k + 1
      <4>1. i \in 0..k /\ g[i] = f[i] /\ i \in 0..n
        BY <2>2, <3>2
      <4>2. i # 0 => g[i - 1] = f[i - 1]
        BY <4>1, <2>2
      <4>. QED
        BY <2>1, <4>1, <4>2
    <3>. QED
      BY <3>1, <3>2
  <2>5. g \in Good(k + 1)
    BY <2>3, <2>4
  <2>. HIDE DEF Good, g
  <2>6. Good(k + 1) # {} /\ k + 1 \in 0..n
    BY <2>2, <2>5
  <2>. QED
    BY <2>6
<1>3. n \in S
  <2>. HIDE DEF S
  <2>1. \A k \in 0..n : k \in S
    BY <1>1, <1>2, NatSetInduction
  <2>. QED
    BY <2>1
<1>4. PICK f \in [0..n -> A] : \A i \in 0..n : f[i] = IF i = 0 THEN a ELSE h[i][f[i - 1]]
  BY <1>3
<1>. QED
  BY <1>4 DEF Iterates

\* The picks of a sequence, one place after the other.
LEMMA KeptBy ==
    ASSUME NEW A, NEW s \in Seq(A), NEW T
    PROVE  \E f \in [0..Len(s) -> Seq(A)] :
              /\ Kept(s, T) = f[Len(s)]
              /\ f[0] = <<>>
              /\ \A i \in 1..Len(s) : f[i] = IF i \in T THEN Append(f[i - 1], s[i]) ELSE f[i - 1]
<1>. DEFINE n == Len(s)
<1>. DEFINE h == [i \in 1..n |-> [q \in Seq(A) |-> IF i \in T THEN Append(q, s[i]) ELSE q]]
<1>. DEFINE P(f) == f = [i \in 0..n |-> IF i = 0 THEN <<>> ELSE IF i \in T THEN Append(f[i - 1], s[i]) ELSE f[i - 1]]
<1>1. n \in Nat /\ <<>> \in Seq(A) /\ h \in [1..n -> [Seq(A) -> Seq(A)]]
  OBVIOUS
<1>2. PICK f \in [0..n -> Seq(A)] : f[0] = <<>> /\ \A i \in 1..n : f[i] = h[i][f[i - 1]]
  <2>1. \E f : Iterates(f, n, Seq(A), <<>>, h)
    <3>. HIDE DEF h, n
    <3>. QED
      BY <1>1, Recursion
  <2>. HIDE DEF h, n
  <2>. QED
    BY <2>1 DEF Iterates
<1>3. ASSUME NEW i \in 0..n
      PROVE  (IF i = 0 THEN <<>> ELSE h[i][f[i - 1]])
                = (IF i = 0 THEN <<>> ELSE IF i \in T THEN Append(f[i - 1], s[i]) ELSE f[i - 1])
  <2>1. CASE i = 0
    BY <2>1
  <2>2. CASE i # 0
    <3>1. i \in 1..n /\ i - 1 \in 0..n
      BY <1>1, <2>2
    <3>2. f[i - 1] \in Seq(A)
      BY <3>1
    <3>3. h[i] = [q \in Seq(A) |-> IF i \in T THEN Append(q, s[i]) ELSE q]
      BY <3>1
    <3>. QED
      BY <2>2, <3>2, <3>3
  <2>. QED
    BY <2>1, <2>2
<1>4. P(f)
  <2>1. \A i \in 0..n : f[i] = IF i = 0 THEN <<>> ELSE h[i][f[i - 1]]
    <3>. HIDE DEF h
    <3>. QED
      BY <1>1, <1>2
  <2>2. f = [i \in 0..n |-> f[i]]
    BY <1>2
  <2>. HIDE DEF h, n
  <2>. QED
    BY <1>3, <2>1, <2>2
<1>5. \A g : P(g) => g \in [0..n -> Seq(A)]
  <2>1. SUFFICES ASSUME NEW g, P(g) PROVE g \in [0..n -> Seq(A)]
    OBVIOUS
  <2>. DEFINE S == {i \in 0..n : g[i] \in Seq(A)}
  <2>2. 0 \in S
    BY <2>1, <1>1
  <2>3. \A k \in 0..(n - 1) : k \in S => k + 1 \in S
    <3>1. ASSUME NEW k \in 0..(n - 1), k \in S PROVE k + 1 \in S
      <4>1. k + 1 \in 1..n /\ (k + 1) - 1 = k /\ g[k] \in Seq(A)
        BY <3>1
      <4>2. g[k + 1] = IF k + 1 \in T THEN Append(g[k], s[k + 1]) ELSE g[k]
        <5>1. k + 1 \in 0..n /\ k + 1 # 0
          BY <1>1, <4>1
        <5>2. g[k + 1] = IF k + 1 = 0 THEN <<>>
                         ELSE IF k + 1 \in T THEN Append(g[(k + 1) - 1], s[k + 1]) ELSE g[(k + 1) - 1]
          <6>. HIDE DEF n
          <6>. QED
            BY <2>1, <5>1
        <5>. QED
          BY <4>1, <5>1, <5>2
      <4>3. s[k + 1] \in A
        BY <4>1
      <4>. QED
        BY <4>1, <4>2, <4>3
    <3>. QED
      BY <3>1
  <2>4. \A k \in 0..n : k \in S
    <3>. HIDE DEF S
    <3>. QED
      BY <1>1, <2>2, <2>3, NatSetInduction
  <2>. QED
    BY <2>1, <2>4
<1>6. PICK g : P(g) /\ Kept(s, T) = g[n]
  BY <1>4 DEF Kept
<1>7. g[0] = <<>> /\ \A i \in 1..n : g[i] = IF i \in T THEN Append(g[i - 1], s[i]) ELSE g[i - 1]
  <2>1. ASSUME NEW i \in 0..n
        PROVE  g[i] = IF i = 0 THEN <<>> ELSE IF i \in T THEN Append(g[i - 1], s[i]) ELSE g[i - 1]
    <3>. HIDE DEF n
    <3>. QED
      BY <1>6, <2>1
  <2>2. 0 \in 0..n /\ \A i \in 1..n : i \in 0..n /\ i # 0
    BY <1>1
  <2>. QED
    BY <2>1, <2>2
<1>. QED
  BY <1>5, <1>6, <1>7

\* Keeping everything beyond a place keeps the rest of the sequence.
LEMMA KeptSuffix ==
    ASSUME NEW A, NEW s \in Seq(A), NEW h \in 0..Len(s), NEW T, \A i \in 1..Len(s) : i \in T <=> i > h
    PROVE  Kept(s, T) = [k \in 1..(Len(s) - h) |-> s[h + k]]
<1>. DEFINE n == Len(s)
<1>1. n \in Nat
  OBVIOUS
<1>2. PICK f \in [0..n -> Seq(A)] :
              /\ Kept(s, T) = f[n]
              /\ f[0] = <<>>
              /\ \A i \in 1..n : f[i] = IF i \in T THEN Append(f[i - 1], s[i]) ELSE f[i - 1]
  BY KeptBy
<1>. DEFINE Tail0(i) == IF i <= h THEN <<>> ELSE [k \in 1..(i - h) |-> s[h + k]]
<1>. DEFINE S == {i \in 0..n : f[i] = Tail0(i)}
<1>3. 0 \in S
  BY <1>1, <1>2
<1>4. ASSUME NEW k \in 0..(n - 1), k \in S PROVE k + 1 \in S
  <2>1. k + 1 \in 1..n /\ (k + 1) - 1 = k /\ f[k] = Tail0(k)
    BY <1>4
  <2>2. f[k + 1] = IF k + 1 > h THEN Append(f[k], s[k + 1]) ELSE f[k]
    BY <1>2, <2>1
  <2>3. CASE k + 1 <= h
    BY <2>1, <2>2, <2>3
  <2>4. CASE k + 1 > h
    <3>1. f[k + 1] = Append(f[k], s[k + 1]) /\ f[k] \in Seq(A) /\ s[k + 1] \in A
      BY <1>2, <2>1, <2>2, <2>4
    <3>2. CASE k = h
      <4>1. f[k] = <<>>
        BY <2>1, <3>2
      <4>2. f[k + 1] = <<s[k + 1]>>
        BY <3>1, <4>1
      <4>3. [j \in 1..((k + 1) - h) |-> s[h + j]] = <<s[k + 1]>>
        BY <3>2, <2>1
      <4>4. Tail0(k + 1) = [j \in 1..((k + 1) - h) |-> s[h + j]] /\ k + 1 \in 0..n
        BY <2>1, <2>4
      <4>. QED
        BY <4>2, <4>3, <4>4
    <3>3. CASE k > h
      <4>1. f[k] = [j \in 1..(k - h) |-> s[h + j]] /\ Len(f[k]) = k - h
        BY <2>1, <3>1, <3>3
      <4>2. Append(f[k], s[k + 1]) = [j \in 1..((k + 1) - h) |-> s[h + j]]
        BY <3>1, <3>3, <2>1, <4>1
      <4>3. Tail0(k + 1) = [j \in 1..((k + 1) - h) |-> s[h + j]] /\ k + 1 \in 0..n
        BY <2>1, <2>4
      <4>. QED
        BY <3>1, <4>2, <4>3
    <3>. QED
      BY <2>4, <3>2, <3>3
  <2>. QED
    BY <2>3, <2>4
<1>5. \A i \in 0..n : i \in S
  <2>. HIDE DEF S
  <2>. QED
    BY <1>1, <1>3, <1>4, NatSetInduction
<1>6. f[n] = Tail0(n)
  BY <1>1, <1>5
<1>7. CASE n <= h
  <2>1. n = h
    BY <1>1, <1>7
  <2>2. [k \in 1..(n - h) |-> s[h + k]] = <<>>
    BY <1>1, <2>1
  <2>. QED
    BY <1>2, <1>6, <1>7, <2>2
<1>. QED
  BY <1>1, <1>2, <1>6, <1>7

\* What is kept of a sequence comes from the places named.
LEMMA KeptMembers ==
    ASSUME NEW A, NEW s \in Seq(A), NEW T
    PROVE  /\ Kept(s, T) \in Seq(A)
           /\ \A k \in DOMAIN Kept(s, T) : \E i \in 1..Len(s) : i \in T /\ Kept(s, T)[k] = s[i]
<1>. DEFINE n == Len(s)
<1>. DEFINE From(q) == \A k \in DOMAIN q : \E i \in 1..n : i \in T /\ q[k] = s[i]
<1>1. PICK f \in [0..n -> Seq(A)] :
              /\ Kept(s, T) = f[n]
              /\ f[0] = <<>>
              /\ \A i \in 1..n : f[i] = IF i \in T THEN Append(f[i - 1], s[i]) ELSE f[i - 1]
  BY KeptBy
<1>. DEFINE S == {i \in 0..n : From(f[i])}
<1>2. n \in Nat
  OBVIOUS
<1>3. 0 \in S
  BY <1>1, <1>2
<1>4. ASSUME NEW j \in 0..(n - 1), j \in S PROVE j + 1 \in S
  <2>1. j + 1 \in 1..n /\ j + 1 \in 0..n /\ (j + 1) - 1 = j /\ f[j] \in Seq(A) /\ From(f[j])
    BY <1>1, <1>4
  <2>2. f[j + 1] = IF j + 1 \in T THEN Append(f[j], s[j + 1]) ELSE f[j]
    BY <1>1, <2>1
  <2>3. ASSUME j + 1 \in T, NEW k \in DOMAIN Append(f[j], s[j + 1])
        PROVE  \E i \in 1..n : i \in T /\ Append(f[j], s[j + 1])[k] = s[i]
    <3>1. CASE k \in DOMAIN f[j]
      <4>1. Append(f[j], s[j + 1])[k] = f[j][k]
        BY <2>1, <3>1
      <4>. QED
        BY <2>1, <3>1, <4>1
    <3>2. CASE k = Len(f[j]) + 1
      <4>1. Append(f[j], s[j + 1])[k] = s[j + 1]
        BY <2>1, <3>2
      <4>. QED
        BY <2>1, <2>3, <4>1
    <3>. QED
      BY <2>1, <2>3, <3>1, <3>2
  <2>4. From(f[j + 1])
    BY <2>1, <2>2, <2>3
  <2>. HIDE DEF From
  <2>. QED
    BY <2>1, <2>4
<1>5. \A i \in 0..n : i \in S
  <2>. HIDE DEF S
  <2>. QED
    BY <1>2, <1>3, <1>4, NatSetInduction
<1>6. From(f[n]) /\ f[n] \in Seq(A)
  <2>1. n \in 0..n
    BY <1>2
  <2>. HIDE DEF From, n
  <2>. QED
    BY <1>1, <1>5, <2>1
<1>. QED
  BY <1>1, <1>6

LEMMA EntriesAreNumbered ==
    ASSUME lines \in Seq(LineType)
    PROVE  /\ Entries \in Seq(Numbered)
           /\ \A k \in DOMAIN Entries : InFile(Entries[k])
<1>. DEFINE T == {i \in DOMAIN lines : Parses(lines[i])}
<1>. DEFINE P == Kept(lines, T)
<1>1. /\ P \in Seq(LineType)
      /\ \A k \in DOMAIN P : \E i \in 1..Len(lines) : i \in T /\ P[k] = lines[i]
  <2>. HIDE DEF T
  <2>. QED
    BY KeptMembers
<1>2. Entries = [i \in DOMAIN P |-> P[i].e]
  BY DEF Entries
<1>3. DOMAIN P = 1..Len(P) /\ Len(P) \in Nat /\ \A k \in DOMAIN P : P[k].e \in Numbered
  <2>1. \A l \in LineType : l.e \in Numbered
    BY DEF LineType
  <2>2. P \in Seq(LineType)
    BY <1>1
  <2>. HIDE DEF P
  <2>. QED
    BY <2>1, <2>2
<1>4. \A k \in DOMAIN P : \E i \in DOMAIN lines : Parses(lines[i]) /\ lines[i].e = P[k].e
  BY <1>1
<1>. HIDE DEF P
<1>5. Entries \in Seq(Numbered) /\ DOMAIN Entries = DOMAIN P /\ \A k \in DOMAIN P : Entries[k] = P[k].e
  BY <1>2, <1>3
<1>. QED
  BY <1>4, <1>5 DEF InFile

LEMMA MissingIsNumbered ==
    ASSUME lines \in Seq(LineType), NEW highest
    PROVE  /\ Missing(highest) \in Seq(Numbered)
           /\ \A k \in DOMAIN Missing(highest) : InFile(Missing(highest)[k])
<1>. DEFINE T == {i \in DOMAIN Entries : Entries[i].seq > highest}
<1>1. Entries \in Seq(Numbered) /\ DOMAIN Entries = 1..Len(Entries) /\ \A k \in DOMAIN Entries : InFile(Entries[k])
  BY EntriesAreNumbered
<1>2. /\ Kept(Entries, T) \in Seq(Numbered)
      /\ \A k \in DOMAIN Kept(Entries, T) : \E i \in 1..Len(Entries) : i \in T /\ Kept(Entries, T)[k] = Entries[i]
  <2>. HIDE DEF T
  <2>. QED
    BY <1>1, KeptMembers
<1>3. Missing(highest) = Kept(Entries, T)
  BY DEF Missing
<1>. HIDE DEF T
<1>. QED
  BY <1>1, <1>2, <1>3 DEF InFile

------------------------------------------------------------------------------
CopyType ==
    /\ rows \in [Writes -> Numbered] /\ queue \in Seq(Numbered) /\ sent \in Numbered
    /\ writes \in 0..MaxWrites /\ torn \in Nat

\* A recorded entry has a complete line, unless a line that does not parse gives it away.
Noticed ==
    \/ \E i \in DOMAIN lines : lines[i].kind = "junk"
    \/ \A e \in acked : \E i \in DOMAIN lines : lines[i].kind = "entry" /\ lines[i].e = e

\* The files where nothing was torn, ...
Entire == \A i \in DOMAIN lines : lines[i].kind = "entry"

\* ... and where no chain was forked: numbered without a gap, every link intact, no entry twice.
Clean ==
    /\ \A i \in DOMAIN lines :
          /\ lines[i].kind = "entry" /\ lines[i].e.seq = i
          /\ lines[i].e.prev = (IF i = 1 THEN 0 ELSE lines[i - 1].e.id)
          /\ lines[i].e.id <= writes
    /\ \A i, j \in DOMAIN lines : i < j => lines[i].e.id < lines[j].e.id

LastOf(h) == h.seq = Len(lines) /\ h.id = IF lines = <<>> THEN 0 ELSE lines[Len(lines)].e.id

\* Everything on its way to the table, and in it, is in the files.
Copies ==
    /\ \A s \in Writes : rows[s] # NoEntry => rows[s].seq = s /\ InFile(rows[s])
    /\ \A k \in DOMAIN queue : InFile(queue[k])
    /\ sent # NoEntry => InFile(sent)

\* flush() awaits the statement of an entry that is still queued.
UnderWay == (sent # NoEntry => queue # <<>>) /\ (applied => sent # NoEntry)

FInv ==
    /\ IInv /\ CopyType /\ UnderWay /\ Noticed
    /\ torn = 0 => Entire /\ Copies
    /\ torn = 0 /\ "forked" \notin upset => Clean /\ (loaded /\ ~unread => LastOf(head))

------------------------------------------------------------------------------
LEMMA LinesOf ==
    ASSUME ChainType
    PROVE  /\ lines \in Seq(LineType) /\ Len(lines) \in Nat /\ DOMAIN lines = 1..Len(lines)
           /\ \A i \in DOMAIN lines : lines[i] \in LineType /\ lines[i].e \in Numbered
<1>1. lines \in Seq(LineType)
  BY DEF ChainType
<1>2. \A l \in LineType : l.e \in Numbered
  BY DEF LineType
<1>. QED
  BY <1>1, <1>2

LEMMA ChainLast ==
    ASSUME ChainType, Clean, loaded => LastOf(head)
    PROVE  LastOf(ChainHead)
<1>1. Len(lines) \in Nat /\ DOMAIN lines = 1..Len(lines)
  BY LinesOf
<1>2. \A i \in DOMAIN lines : Parses(lines[i]) /\ lines[i].e.seq = i
  BY DEF Clean, Parses
<1>3. CASE lines = <<>>
  <2>1. Newest = {}
    BY <1>3 DEF Newest
  <2>2. Loaded.seq = 0 /\ Loaded.id = 0
    BY <2>1 DEF Loaded
  <2>. QED
    BY <1>3, <2>2 DEF ChainHead, LastOf
<1>4. CASE lines # <<>>
  <2>1. Len(lines) \in Newest /\ Newest \subseteq {Len(lines)}
    BY <1>1, <1>2, <1>4 DEF Newest
  <2>2. (CHOOSE i \in Newest : TRUE) = Len(lines)
    BY <2>1
  <2>3. Loaded = [seq |-> lines[Len(lines)].e.seq, id |-> lines[Len(lines)].e.id]
    BY <2>1, <2>2 DEF Loaded
  <2>4. lines[Len(lines)].e.seq = Len(lines)
    BY <1>1, <1>2, <1>4
  <2>5. LastOf(Loaded)
    BY <1>4, <2>3, <2>4 DEF LastOf
  <2>. QED
    BY <2>5 DEF ChainHead
<1>. QED
  BY <1>3, <1>4

\* A line added to entire files, ...
LEMMA EntireWriting ==
    ASSUME ChainType, Entire, lines' = Written("entry")
    PROVE  lines' = Append(lines, [kind |-> "entry", month |-> month, e |-> NextEntry])
<1>1. Len(lines) \in Nat /\ DOMAIN lines = 1..Len(lines) /\ lines \in Seq(LineType)
  BY LinesOf
<1>2. lines # <<>> => lines[Len(lines)].kind = "entry"
  BY <1>1 DEF Entire
<1>. QED
  BY <1>2 DEF Written, Last

\* ... and to clean ones.
LEMMA CleanWriting ==
    ASSUME ChainType, Clean, loaded => LastOf(head), lines' = Written("entry"), writes' = writes + 1
    PROVE  /\ lines' = Append(lines, [kind |-> "entry", month |-> month, e |-> NextEntry])
           /\ NextEntry.seq = Len(lines) + 1 /\ NextEntry.id = writes + 1
           /\ NextEntry.prev = IF lines = <<>> THEN 0 ELSE lines[Len(lines)].e.id
           /\ Clean'
<1>1. Len(lines) \in Nat /\ DOMAIN lines = 1..Len(lines) /\ lines \in Seq(LineType) /\ writes \in Nat
  BY LinesOf DEF ChainType
<1>2. /\ NextEntry.seq = Len(lines) + 1 /\ NextEntry.id = writes + 1
      /\ NextEntry.prev = IF lines = <<>> THEN 0 ELSE lines[Len(lines)].e.id
  BY ChainLast, NextIsNumbered DEF LastOf
<1>. DEFINE l == [kind |-> "entry", month |-> month, e |-> NextEntry]
<1>3. lines' = Append(lines, l)
  BY EntireWriting DEF Clean, Entire
<1>4. /\ DOMAIN lines' = 1..(Len(lines) + 1) /\ Len(lines') = Len(lines) + 1
      /\ \A i \in DOMAIN lines : lines'[i] = lines[i]
      /\ lines'[Len(lines) + 1] = l /\ l.kind = "entry" /\ l.e = NextEntry
  <2>1. l.kind = "entry" /\ l.e = NextEntry
    OBVIOUS
  <2>. HIDE DEF l
  <2>. QED
    BY <1>1, <1>3, <2>1
<1>5. \A i \in DOMAIN lines : lines[i].e.id \in Nat
  BY LinesOf DEF Numbered
<1>6. ASSUME NEW i \in DOMAIN lines'
      PROVE  /\ lines'[i].kind = "entry" /\ lines'[i].e.seq = i
             /\ lines'[i].e.prev = (IF i = 1 THEN 0 ELSE lines'[i - 1].e.id)
             /\ lines'[i].e.id <= writes'
  <2>. HIDE DEF l
  <2>1. CASE i \in DOMAIN lines
    <3>1. i # 1 => i - 1 \in DOMAIN lines
      BY <1>1, <2>1
    <3>. QED
      BY <1>1, <1>4, <1>5, <2>1, <3>1 DEF Clean
  <2>2. CASE i = Len(lines) + 1
    <3>1. lines = <<>> <=> i = 1
      BY <1>1, <2>2
    <3>2. i # 1 => i - 1 = Len(lines) /\ Len(lines) \in DOMAIN lines
      BY <1>1, <2>2
    <3>. QED
      BY <1>1, <1>2, <1>4, <2>2, <3>1, <3>2
  <2>. QED
    BY <1>1, <1>4, <2>1, <2>2
<1>7. ASSUME NEW i \in DOMAIN lines', NEW j \in DOMAIN lines', i < j
      PROVE  lines'[i].e.id < lines'[j].e.id
  <2>. HIDE DEF l
  <2>1. i \in DOMAIN lines
    BY <1>1, <1>4, <1>7
  <2>2. CASE j \in DOMAIN lines
    BY <1>4, <1>7, <2>1, <2>2 DEF Clean
  <2>3. CASE j = Len(lines) + 1
    <3>1. lines'[i].e.id <= writes /\ lines'[i].e.id \in Nat
      BY <1>4, <1>5, <2>1 DEF Clean
    <3>. QED
      BY <1>1, <1>2, <1>4, <2>3, <3>1
  <2>. QED
    BY <1>1, <1>4, <2>2, <2>3
<1>. QED
  BY <1>2, <1>3, <1>6, <1>7 DEF Clean

\* What is in the files stays there when a line is added.
LEMMA StaysInFile ==
    ASSUME lines \in Seq(LineType), NEW l \in LineType, l.kind = "entry", lines' = Append(lines, l), NEW CONSTANT e
    PROVE  /\ InFile(e) => InFile(e)'
           /\ l.e = e => InFile(e)'
<1>1. /\ DOMAIN lines = 1..Len(lines) /\ Len(lines) \in Nat
      /\ DOMAIN lines' = 1..(Len(lines) + 1)
      /\ \A i \in DOMAIN lines : lines'[i] = lines[i]
      /\ lines'[Len(lines) + 1] = l
  OBVIOUS
<1>2. Parses(l)
  BY DEF Parses
<1>3. InFile(e) => \E i \in DOMAIN lines' : Parses(lines'[i]) /\ lines'[i].e = e
  BY <1>1 DEF InFile
<1>4. l.e = e => \E i \in DOMAIN lines' : Parses(lines'[i]) /\ lines'[i].e = e
  BY <1>1, <1>2
<1>. QED
  BY <1>3, <1>4 DEF InFile, Parses

LEMMA EnqueuedFrom ==
    ASSUME queue \in Seq(Numbered), NEW e \in Numbered
    PROVE  /\ Enqueued(e) \in Seq(Numbered) /\ Enqueued(e) # <<>>
           /\ \A k \in DOMAIN Enqueued(e) : Enqueued(e)[k] = e \/ \E j \in DOMAIN queue : Enqueued(e)[k] = queue[j]
           /\ Len(queue) < MaxQueue => Enqueued(e) = Append(queue, e)
<1>. DEFINE q == Append(queue, e)
<1>. DEFINE m == 1 + (IF Len(q) > MaxQueue THEN Len(q) - MaxQueue ELSE 0)
<1>1. /\ q \in Seq(Numbered) /\ Len(q) = Len(queue) + 1 /\ Len(q) \in Nat /\ DOMAIN q = 1..Len(q)
      /\ \A j \in DOMAIN q : q[j] = e \/ \E i \in DOMAIN queue : q[j] = queue[i]
  OBVIOUS
<1>2. MaxQueue \in Nat \ {0}
  BY AuditConstants
<1>. HIDE DEF q
<1>3. m \in Nat \ {0} /\ m <= Len(q) /\ (Len(q) <= MaxQueue => m = 1)
  BY <1>1, <1>2
<1>4. Enqueued(e) = SubSeq(q, m, Len(q))
  BY DEF Enqueued, q
<1>. HIDE DEF m
<1>5. SubSeq(q, m, Len(q)) \in Seq(Numbered) /\ SubSeq(q, m, Len(q)) # <<>>
  <2>1. SubSeq(q, m, Len(q)) \in Seq(Numbered)
    BY <1>1, <1>3
  <2>2. Len(SubSeq(q, m, Len(q))) = Len(q) + 1 - m
    BY <1>1, <1>3
  <2>3. \A z \in Seq(Numbered) : Len(z) # 0 => z # <<>>
    OBVIOUS
  <2>. QED
    BY <1>1, <1>3, <2>1, <2>2, <2>3
<1>6. \A k \in DOMAIN SubSeq(q, m, Len(q)) :
         SubSeq(q, m, Len(q))[k] = q[m + k - 1] /\ m + k - 1 \in DOMAIN q
  BY <1>1, <1>3
<1>7. m = 1 => SubSeq(q, m, Len(q)) = q
  BY <1>1
<1>8. Len(queue) < MaxQueue => Enqueued(e) = q
  BY <1>1, <1>2, <1>3, <1>4, <1>7
<1>. QED
  BY <1>1, <1>4, <1>5, <1>6, <1>8 DEF q

LEMMA FlushSends ==
    ASSUME CopyType, NEW q \in Seq(Numbered), Flush(q)
    PROVE  /\ sent' \in Numbered
           /\ sent' = sent \/ (q # <<>> /\ sent' = q[1] /\ 1 \in DOMAIN q)
<1>1. q # <<>> => 1 \in DOMAIN q /\ q[1] \in Numbered
  OBVIOUS
<1>2. sent' = sent \/ (q # <<>> /\ sent' = q[1])
  BY DEF Flush
<1>. QED
  BY <1>1, <1>2 DEF CopyType

\* A recorded line is noticed, or the line it was glued to is.
LEMMA NoticeKept ==
    ASSUME ChainType, Noticed, NEW kind \in {"entry", "whole", "part"}, lines' = Written(kind),
           acked' = acked \/ (kind = "entry" /\ acked' = acked \union {NextEntry})
    PROVE  Noticed'
<1>1. Len(lines) \in Nat /\ DOMAIN lines = 1..Len(lines) /\ lines \in Seq(LineType)
  BY LinesOf
<1>. DEFINE l == [kind |-> kind, month |-> month, e |-> NextEntry]
<1>2. CASE /\ lines # <<>> /\ lines[Len(lines)].kind \in {"whole", "part"}
           /\ lines' = [lines EXCEPT ![Len(lines)].kind = IF kind = "entry" THEN "junk" ELSE "part"]
  <2>1. Len(lines) \in DOMAIN lines /\ lines[Len(lines)] \in LineType
    BY <1>1, <1>2
  <2>2. DOMAIN lines' = DOMAIN lines /\ \A i \in DOMAIN lines : i # Len(lines) => lines'[i] = lines[i]
    BY <1>1, <1>2
  <2>3. lines'[Len(lines)].kind = IF kind = "entry" THEN "junk" ELSE "part"
    BY <1>2, <2>1 DEF LineType
  <2>4. \A i \in DOMAIN lines : lines[i].kind \in {"entry", "junk"} => lines'[i] = lines[i]
    BY <1>2, <2>2
  <2>5. CASE kind = "entry"
    BY <2>1, <2>2, <2>3, <2>5 DEF Noticed
  <2>6. CASE acked' = acked
    <3>1. CASE \E i \in DOMAIN lines : lines[i].kind = "junk"
      BY <2>2, <2>4, <3>1 DEF Noticed
    <3>2. CASE \A e \in acked : \E i \in DOMAIN lines : lines[i].kind = "entry" /\ lines[i].e = e
      BY <2>2, <2>4, <2>6, <3>2 DEF Noticed
    <3>. QED
      BY <3>1, <3>2 DEF Noticed
  <2>. QED
    BY <2>5, <2>6
<1>3. CASE lines' = Append(lines, l)
  <2>1. l.kind = kind /\ l.e = NextEntry
    OBVIOUS
  <2>. HIDE DEF l
  <2>2. /\ DOMAIN lines' = 1..(Len(lines) + 1) /\ \A i \in DOMAIN lines : lines'[i] = lines[i]
        /\ lines'[Len(lines) + 1] = l
    BY <1>1, <1>3
  <2>3. \A i \in DOMAIN lines : i \in DOMAIN lines'
    BY <1>1, <2>2
  <2>4. Len(lines) + 1 \in DOMAIN lines'
    BY <1>1, <2>2
  <2>5. CASE \E i \in DOMAIN lines : lines[i].kind = "junk"
    BY <2>2, <2>3, <2>5 DEF Noticed
  <2>6. CASE \A e \in acked : \E i \in DOMAIN lines : lines[i].kind = "entry" /\ lines[i].e = e
    <3>1. ASSUME NEW e \in acked'
          PROVE  \E i \in DOMAIN lines' : lines'[i].kind = "entry" /\ lines'[i].e = e
      <4>1. CASE e \in acked
        BY <2>2, <2>3, <2>6, <4>1
      <4>2. CASE kind = "entry" /\ e = NextEntry
        BY <2>1, <2>2, <2>4, <4>2
      <4>. QED
        BY <3>1, <4>1, <4>2
    <3>. QED
      BY <3>1 DEF Noticed
  <2>. QED
    BY <2>5, <2>6 DEF Noticed
<1>. QED
  BY <1>2, <1>3 DEF Written, Last

\* A step that leaves the files alone.
Unwritten ==
    /\ UNCHANGED <<lines, torn, acked>>
    /\ writes' \in {writes, writes + 1} /\ writes' <= MaxWrites
    /\ "forked" \notin upset' => "forked" \notin upset
    /\ \/ UNCHANGED <<loaded, head, unread>>
       \/ loaded' = TRUE /\ head' = ChainHead /\ unread' = unread
       \/ loaded' = FALSE
       \/ ~loaded /\ head' = Head0 /\ unread' = (Loaded.seq # 0)

LEMMA CopiesMove ==
    ASSUME FInv, IInv', Unwritten,
           rows' \in [Writes -> Numbered], queue' \in Seq(Numbered), sent' \in Numbered,
           Copies => Copies', UnderWay'
    PROVE  FInv'
<1>0. UNCHANGED <<lines, torn, acked>> /\ ChainType
  BY DEF Unwritten, FInv, IInv
<1>1. writes \in Nat /\ writes' \in 0..MaxWrites /\ torn' \in Nat /\ MaxWrites \in Nat
  BY AuditConstants DEF FInv, CopyType, Unwritten
<1>2. CopyType'
  BY <1>1 DEF CopyType
<1>3. Noticed'
  BY <1>0 DEF FInv, Noticed
<1>4. ASSUME torn' = 0
      PROVE  Entire' /\ Copies'
  BY <1>0, <1>4 DEF FInv, Entire
<1>5. ASSUME torn' = 0, "forked" \notin upset'
      PROVE  Clean' /\ (loaded' /\ ~unread' => LastOf(head)')
  <2>1. Clean /\ (loaded /\ ~unread => LastOf(head))
    BY <1>0, <1>5 DEF FInv, Unwritten
  <2>2. Clean'
    <3>1. \A i \in DOMAIN lines : lines[i].e.id \in Nat
      BY <1>0, LinesOf DEF Numbered
    <3>2. writes <= writes' /\ writes' \in Nat
      BY <1>1 DEF Unwritten
    <3>. QED
      BY <1>0, <1>1, <2>1, <3>1, <3>2 DEF Clean
  <2>3. ~loaded \/ ~unread => LastOf(ChainHead)
    BY <1>0, <2>1, ChainLast
  <2>4. CASE UNCHANGED <<loaded, head, unread>>
    BY <1>0, <2>1, <2>2, <2>4 DEF LastOf
  <2>5. CASE loaded' = TRUE /\ head' = ChainHead /\ unread' = unread
    BY <1>0, <2>2, <2>3, <2>5 DEF LastOf
  <2>6. CASE ~loaded /\ head' = Head0 /\ unread' = (Loaded.seq # 0)
    <3>1. LastOf(Loaded)
      BY <2>3, <2>6 DEF ChainHead
    <3>2. Len(lines) = 0 => lines = <<>>
      BY <1>0, LinesOf
    <3>. QED
      BY <1>0, <2>2, <2>6, <3>1, <3>2 DEF LastOf, Head0
  <2>. QED
    BY <2>2, <2>4, <2>5, <2>6 DEF Unwritten
<1>. QED
  BY <1>2, <1>3, <1>4, <1>5 DEF FInv

\* A line that was cut, or that spoiled another: nothing is claimed any more but the notice.
LEMMA TornMoves ==
    ASSUME FInv, IInv', NEW kind \in {"whole", "part"}, lines' = Written(kind), acked' = acked,
           writes' = writes + 1, writes < MaxWrites, torn' = torn + 1,
           rows' \in [Writes -> Numbered], queue' \in Seq(Numbered), sent' \in Numbered, UnderWay'
    PROVE  FInv'
<1>1. writes \in Nat /\ torn \in Nat /\ MaxWrites \in Nat
  BY AuditConstants DEF FInv, CopyType
<1>2. CopyType' /\ torn' # 0
  BY <1>1 DEF CopyType
<1>3. Noticed'
  <2>1. ChainType /\ Noticed /\ kind \in {"entry", "whole", "part"}
    BY DEF FInv, IInv
  <2>. QED
    BY <2>1, NoticeKept
<1>. QED
  BY <1>2, <1>3 DEF FInv

LEMMA RecordMoves ==
    ASSUME FInv, IInv', Record
    PROVE  FInv'
<1>1. /\ writes \in Nat /\ torn \in Nat /\ MaxWrites \in Nat /\ writes < MaxWrites /\ writes' = writes + 1
      /\ lines' = Written("entry") /\ torn' = torn /\ rows' = rows
      /\ acked' = acked \union {NextEntry}
  BY AuditConstants DEF FInv, CopyType, Record, CanRecord
<1>2. NextEntry \in Numbered /\ queue \in Seq(Numbered) /\ CopyType /\ ChainType
  BY NextIsNumbered DEF FInv, IInv, CopyType
<1>3. /\ queue' \in Seq(Numbered)
      /\ \A k \in DOMAIN queue' : queue'[k] = NextEntry \/ \E j \in DOMAIN queue : queue'[k] = queue[j]
  BY <1>2, EnqueuedFrom DEF Record
<1>4. Flush(queue')
  BY DEF Record
<1>5. sent' \in Numbered /\ (sent' = sent \/ (queue' # <<>> /\ sent' = queue'[1] /\ 1 \in DOMAIN queue'))
  BY <1>2, <1>3, <1>4, FlushSends
<1>6. CopyType'
  BY <1>1, <1>2, <1>3, <1>5 DEF CopyType
<1>7. Noticed'
  BY <1>1, <1>2, NoticeKept DEF FInv
<1>. DEFINE l == [kind |-> "entry", month |-> month, e |-> NextEntry]
<1>8. ASSUME torn' = 0
      PROVE  Entire' /\ Copies'
  <2>1. Entire /\ Copies
    BY <1>1, <1>8 DEF FInv
  <2>2. lines' = Append(lines, l)
    BY <1>1, <1>2, <2>1, EntireWriting
  <2>3. l \in LineType /\ l.kind = "entry" /\ l.e = NextEntry
    BY <1>2 DEF LineType, Kind, ChainType
  <2>. HIDE DEF l
  <2>4. lines \in Seq(LineType) /\ Len(lines) \in Nat
    BY <1>2, LinesOf
  <2>5. Entire'
    <3>1. DOMAIN lines = 1..Len(lines) /\ DOMAIN lines' = 1..(Len(lines) + 1)
      BY <2>2, <2>4
    <3>2. lines'[Len(lines) + 1] = l /\ \A i \in 1..Len(lines) : lines'[i] = lines[i]
      BY <2>2, <2>4
    <3>. QED
      BY <2>1, <2>3, <2>4, <3>1, <3>2 DEF Entire
  <2>6. \A e : InFile(e) \/ e = NextEntry => InFile(e)'
    BY <2>2, <2>3, <2>4, StaysInFile
  <2>7. \A k \in DOMAIN queue' : InFile(queue[k])'
    BY <1>3, <2>1, <2>6 DEF Copies, InFile
  <2>8. sent' # NoEntry => InFile(sent)'
    <3>1. CASE sent' = sent
      BY <2>1, <2>6, <3>1 DEF Copies, InFile
    <3>2. CASE sent' = queue'[1] /\ 1 \in DOMAIN queue'
      BY <2>7, <3>2 DEF InFile
    <3>. QED
      BY <1>5, <3>1, <3>2
  <2>9. \A s \in Writes : rows'[s] # NoEntry => rows'[s].seq = s /\ InFile(rows[s])'
    BY <1>1, <2>1, <2>6 DEF Copies, InFile
  <2>10. Copies'
    BY <2>7, <2>8, <2>9 DEF Copies
  <2>. QED
    BY <2>5, <2>10
<1>10. ASSUME torn' = 0, "forked" \notin upset'
      PROVE  Clean' /\ LastOf(head)'
  <2>1. Clean /\ (loaded => LastOf(head))
    BY <1>1, <1>10 DEF FInv, Record, Forks
  <2>2. lines' = Append(lines, l) /\ NextEntry.seq = Len(lines) + 1 /\ Clean'
    BY <1>1, <1>2, <2>1, CleanWriting
  <2>3. head'.seq = NextEntry.seq /\ head'.id = NextEntry.id /\ l.e = NextEntry
    BY DEF Record
  <2>. HIDE DEF l
  <2>4. lines \in Seq(LineType) /\ Len(lines) \in Nat
    BY <1>2, LinesOf
  <2>5. Len(lines') = Len(lines) + 1 /\ lines' # <<>> /\ lines'[Len(lines) + 1] = l
    BY <2>2, <2>4
  <2>. QED
    BY <2>2, <2>3, <2>5 DEF LastOf
<1>9. UnderWay'
  <2>1. queue # <<>> => queue' # <<>>
    BY <1>2, EnqueuedFrom DEF Record
  <2>2. UNCHANGED <<sent, applied>> \/ (queue' # <<>> /\ applied' = FALSE)
    BY <1>4 DEF Flush
  <2>. QED
    BY <2>1, <2>2 DEF FInv, UnderWay
<1>. QED
  BY <1>6, <1>7, <1>8, <1>9, <1>10 DEF FInv

LEMMA NoEntryIsNumbered == NoEntry \in Numbered
  BY DEF NoEntry, Numbered

LEMMA InsertMoves ==
    ASSUME FInv, IInv', Insert
    PROVE  FInv'
<1>1. CopyType /\ UNCHANGED <<lines, torn, acked, writes, loaded, head, queue, sent, unread, upset>> /\ writes \in 0..MaxWrites
  BY DEF FInv, CopyType, Insert, ghosts
<1>2. rows' = [rows EXCEPT ![sent.seq] = IF @ = NoEntry THEN sent ELSE @] /\ sent # NoEntry
  BY DEF Insert
<1>3. rows' \in [Writes -> Numbered]
  BY <1>1, <1>2 DEF CopyType
<1>4. ASSUME Copies PROVE Copies'
  <2>1. ASSUME NEW s \in Writes, rows'[s] # NoEntry
        PROVE  rows'[s].seq = s /\ InFile(rows[s])'
    <3>1. rows'[s] = rows[s] \/ (s = sent.seq /\ rows'[s] = sent)
      BY <1>1, <1>2 DEF CopyType
    <3>. QED
      BY <1>1, <1>2, <1>4, <2>1, <3>1 DEF Copies, InFile
  <2>. QED
    BY <1>1, <1>4, <2>1 DEF Copies, InFile
<1>5. UnderWay'
  BY <1>1, <1>2 DEF FInv, Insert, UnderWay
<1>8. Unwritten
  BY <1>1, AuditConstants DEF Unwritten
<1>. QED
  BY <1>1, <1>3, <1>4, <1>5, <1>8, CopiesMove DEF CopyType

LEMMA FlushNextMoves ==
    ASSUME FInv, IInv', FlushNext
    PROVE  FInv'
<1>1. /\ CopyType /\ UNCHANGED <<lines, torn, acked, writes, loaded, head, rows, unread, upset>> /\ writes \in 0..MaxWrites
      /\ queue # <<>> /\ queue \in Seq(Numbered)
  BY DEF FInv, CopyType, UnderWay, FlushNext, ghosts
<1>2. queue' = Tail(queue) /\ (sent' = NoEntry \/ (queue' # <<>> /\ sent' = queue'[1]))
  BY DEF FlushNext
<1>3. queue' \in Seq(Numbered) /\ \A k \in DOMAIN queue' : k + 1 \in DOMAIN queue /\ queue'[k] = queue[k + 1]
  BY <1>1, <1>2
<1>4. queue' # <<>> => 1 \in DOMAIN queue' /\ queue'[1] \in Numbered
  BY <1>3
<1>5. sent' \in Numbered
  BY <1>2, <1>4, NoEntryIsNumbered
<1>6. ASSUME Copies PROVE Copies'
  <2>1. \A k \in DOMAIN queue' : InFile(queue[k])'
    BY <1>1, <1>3, <1>6 DEF Copies, InFile
  <2>2. sent' # NoEntry => InFile(sent)'
    BY <1>2, <1>4, <2>1 DEF InFile
  <2>3. \A s \in Writes : rows'[s] # NoEntry => rows'[s].seq = s /\ InFile(rows[s])'
    BY <1>1, <1>6 DEF Copies, InFile
  <2>. QED
    BY <2>1, <2>2, <2>3 DEF Copies
<1>7. UnderWay'
  BY DEF FlushNext, UnderWay
<1>8. Unwritten
  BY <1>1, AuditConstants DEF Unwritten
<1>. QED
  BY <1>1, <1>3, <1>5, <1>6, <1>7, <1>8, CopiesMove DEF CopyType

LEMMA BackfillMoves ==
    ASSUME FInv, IInv', Backfill
    PROVE  FInv'
<1>1. /\ CopyType /\ UNCHANGED <<lines, torn, acked, writes, loaded, head, rows, unread, upset>> /\ writes \in 0..MaxWrites
      /\ queue \in Seq(Numbered) /\ lines \in Seq(LineType)
  BY LinesOf DEF FInv, IInv, CopyType, Backfill, ghosts
<1>. DEFINE more == Missing(max)
<1>2. queue' = more \o queue /\ (sent' = sent \/ Flush(queue'))
  BY DEF Backfill
<1>3. more \in Seq(Numbered) /\ \A k \in DOMAIN more : InFile(more[k])
  BY <1>1, MissingIsNumbered
<1>. HIDE DEF more
<1>4. /\ queue' \in Seq(Numbered)
      /\ \A k \in DOMAIN queue' : \/ k \in DOMAIN more /\ queue'[k] = more[k]
                                  \/ k - Len(more) \in DOMAIN queue /\ queue'[k] = queue[k - Len(more)]
  BY <1>1, <1>2, <1>3
<1>5. sent' \in Numbered /\ (sent' = sent \/ (queue' # <<>> /\ sent' = queue'[1] /\ 1 \in DOMAIN queue'))
  BY <1>1, <1>2, <1>4, FlushSends DEF CopyType
<1>6. ASSUME Copies PROVE Copies'
  <2>0. \A k \in DOMAIN queue' : InFile(queue'[k])
    BY <1>3, <1>4, <1>6 DEF Copies
  <2>1. \A k \in DOMAIN queue' : InFile(queue[k])'
    BY <1>1, <2>0 DEF InFile
  <2>2. sent' # NoEntry => InFile(sent)'
    BY <1>1, <1>5, <1>6, <2>1 DEF Copies, InFile
  <2>3. \A s \in Writes : rows'[s] # NoEntry => rows'[s].seq = s /\ InFile(rows[s])'
    BY <1>1, <1>6 DEF Copies, InFile
  <2>. QED
    BY <2>1, <2>2, <2>3 DEF Copies
<1>7. UnderWay'
  <2>1. queue # <<>> => queue' # <<>>
    BY <1>1, <1>2, <1>3
  <2>2. UNCHANGED <<sent, applied>> \/ (queue' # <<>> /\ applied' = FALSE)
    BY DEF Backfill, Flush
  <2>. QED
    BY <2>1, <2>2 DEF FInv, UnderWay
<1>8. Unwritten
  BY <1>1, AuditConstants DEF Unwritten
<1>. QED
  BY <1>1, <1>4, <1>5, <1>6, <1>7, <1>8, CopiesMove DEF CopyType

LEMMA QuietMoves ==
    ASSUME FInv, IInv', Unwritten, rows' = rows,
           queue' = queue \/ queue' = <<>>, sent' = sent \/ sent' = NoEntry, applied' = applied \/ applied' = FALSE,
           queue' = queue \/ sent' = NoEntry, sent' = sent \/ applied' = FALSE
    PROVE  FInv'
<1>1. CopyType /\ UnderWay
  BY DEF FInv
<1>2. queue' \in Seq(Numbered) /\ sent' \in Numbered /\ rows' \in [Writes -> Numbered]
  <2>1. <<>> \in Seq(Numbered)
    OBVIOUS
  <2>. QED
    BY <1>1, <2>1, NoEntryIsNumbered DEF CopyType
<1>3. UnderWay'
  BY <1>1 DEF UnderWay
<1>4. Copies => Copies'
  BY DEF Copies, InFile, Unwritten
<1>. QED
  BY <1>2, <1>3, <1>4, CopiesMove

LEMMA FilesStep ==
    ASSUME FInv, [Next]_vars
    PROVE  FInv'
<1>0. IInv'
  BY StepKeeps DEF FInv
<1>1. writes \in 0..MaxWrites /\ MaxWrites \in Nat /\ CopyType /\ UnderWay
  BY AuditConstants DEF FInv, CopyType
<1>2. writes <= MaxWrites /\ (writes < MaxWrites => writes + 1 <= MaxWrites)
  BY <1>1
<1>3. CASE Record
  BY <1>0, <1>3, RecordMoves
<1>4. CASE RecordThrows \/ LoadThrows
  <2>1. Unwritten /\ rows' = rows /\ UNCHANGED <<queue, sent, applied>>
    BY <1>2, <1>4 DEF RecordThrows, LoadThrows, CanRecord, Unwritten, Head0, ghosts
  <2>. QED
    BY <1>0, <2>1, QuietMoves
<1>5. ASSUME NEW kind \in {"whole", "part"}, RecordTorn(kind)
      PROVE  FInv'
  <2>1. /\ lines' = Written(kind) /\ acked' = acked /\ writes' = writes + 1 /\ writes < MaxWrites /\ torn' = torn + 1
        /\ UNCHANGED <<rows, queue, sent, applied>>
    BY <1>5 DEF RecordTorn, CanRecord
  <2>. QED
    BY <1>0, <1>1, <2>1, TornMoves DEF CopyType, UnderWay
<1>6. ASSUME NEW kind \in {"whole", "part"}, DieTorn(kind)
      PROVE  FInv'
  <2>1. /\ lines' = Written(kind) /\ acked' = acked /\ writes' = writes + 1 /\ writes < MaxWrites /\ torn' = torn + 1
        /\ rows' = rows /\ queue' = <<>> /\ sent' = NoEntry /\ applied' = FALSE
    BY <1>6 DEF DieTorn, CanRecord, Reboot
  <2>2. queue' \in Seq(Numbered) /\ sent' \in Numbered /\ UnderWay' /\ rows' \in [Writes -> Numbered]
    BY <1>1, <2>1, NoEntryIsNumbered DEF CopyType, UnderWay
  <2>. QED
    BY <1>0, <2>1, <2>2, TornMoves
<1>7. CASE Crash
  <2>1. rows' = rows /\ queue' = <<>> /\ sent' = NoEntry /\ applied' = FALSE
    BY <1>7 DEF Crash, Reboot
  <2>2. Unwritten
    BY <1>2, <1>7 DEF Crash, Reboot, Unwritten
  <2>. QED
    BY <1>0, <2>1, <2>2, QuietMoves
<1>8. CASE NextMonth \/ FlushFails \/ StartFails \/ StartDb \/ Migrated \/ ReadMax \/ UNCHANGED vars
  <2>1. /\ UNCHANGED <<lines, rows, torn, acked, writes, loaded, head, queue, unread, upset>>
        /\ UNCHANGED <<sent, applied>> \/ (sent' = NoEntry /\ applied' = FALSE)
    BY <1>8 DEF NextMonth, FlushFails, StartFails, StartDb, Migrated, ReadMax, vars, process, ghosts
  <2>2. Unwritten
    BY <1>2, <2>1 DEF Unwritten
  <2>. QED
    BY <1>0, <2>1, <2>2, QuietMoves
<1>9. CASE Insert
  BY <1>0, <1>9, InsertMoves
<1>10. CASE FlushNext
  BY <1>0, <1>10, FlushNextMoves
<1>11. CASE Backfill
  BY <1>0, <1>11, BackfillMoves
<1>. QED
  BY <1>3, <1>4, <1>5, <1>6, <1>7, <1>8, <1>9, <1>10, <1>11 DEF Next, DbStep

LEMMA FilesStart == Init => FInv
<1>. SUFFICES ASSUME Init PROVE FInv
  OBVIOUS
<1>1. IInv
  BY ChainStart
<1>2. /\ lines = <<>> /\ rows = [s \in Writes |-> NoEntry] /\ writes = 0 /\ torn = 0 /\ acked = {}
      /\ loaded = FALSE /\ queue = <<>> /\ sent = NoEntry /\ applied = FALSE
  BY DEF Init, Boot
<1>3. CopyType /\ UnderWay
  BY <1>2, NoEntryIsNumbered, AuditConstants DEF CopyType, UnderWay
<1>4. Noticed
  BY <1>2 DEF Noticed
<1>5. Clean /\ Entire /\ Copies
  BY <1>2 DEF Clean, Entire, Copies
<1>. QED
  BY <1>1, <1>2, <1>3, <1>4, <1>5 DEF FInv

\* Whatever happens, FInv holds: without torn lines everything queued, sent or in the table is
\* in the files, and until a load() throws they are one chain with nothing missing.
THEOREM FilesAreSound == Spec => []FInv
  BY FilesStart, FilesStep, PTL DEF Spec

\* verifyDb() raises no false alarm: a row of the table never differs from the files where
\* no line is torn, whatever is lost, dropped, sent twice or restarted.
THEOREM RowsMatch == Spec => []RowsAreTheFiles
<1>1. FInv => RowsAreTheFiles
  BY DEF FInv, Copies, RowsAreTheFiles
<1>. QED
  BY <1>1, FilesAreSound, PTL

\* verifyFiles() notices every recorded entry that is not in the files.
THEOREM VerifyNotices == Spec => []VerifyHonest
<1>1. FInv => VerifyHonest
  <2>. SUFFICES ASSUME FInv, VerifyFiles, NEW e \in acked
                PROVE  InFile(e)
    BY DEF VerifyHonest
  <2>1. \A i \in DOMAIN lines : lines[i].kind # "junk"
    BY DEF VerifyFiles, Parses
  <2>. QED
    BY <2>1 DEF FInv, Noticed, InFile, Parses
<1>. QED
  BY <1>1, FilesAreSound, PTL

------------------------------------------------------------------------------
Idle == queue = <<>> /\ sent = NoEntry /\ ~flushing /\ ~applied

\* The entries before the queue, which is always the end of the files.
Before == Len(lines) - Len(queue)

\* The table holds the first n entries.
Trail(n) ==
    /\ n \in 0..Len(lines) /\ \A s \in Writes : rows[s] # NoEntry <=> s <= n
    /\ db # "on" => Idle
    /\ max = -1 \/ (db = "reading" /\ max = n)
    /\ db = "on" =>
          /\ Before \in 0..n /\ n <= Before + 1
          /\ \A k \in DOMAIN queue : queue[k] = lines[Before + k].e
          /\ flushing <=> sent # NoEntry
          /\ sent # NoEntry => queue # <<>> /\ sent = queue[1]
          /\ applied => sent # NoEntry /\ n = Before + 1

MInv ==
    /\ FInv /\ db \in DbPhase /\ flushing \in BOOLEAN /\ applied \in BOOLEAN
    /\ Len(lines) <= writes
    /\ Settled => \E n \in Nat : Trail(n)

LEMMA CleanEntries ==
    ASSUME lines \in Seq(LineType), Clean
    PROVE  Entries = [i \in 1..Len(lines) |-> lines[i].e]
<1>. DEFINE T == {i \in DOMAIN lines : Parses(lines[i])}
<1>1. Len(lines) \in Nat /\ DOMAIN lines = 1..Len(lines)
  OBVIOUS
<1>2. \A i \in 1..Len(lines) : i \in T <=> i > 0
  BY <1>1 DEF Clean, Parses
<1>3. Kept(lines, T) = [k \in 1..(Len(lines) - 0) |-> lines[0 + k]]
  <2>1. 0 \in 0..Len(lines)
    BY <1>1
  <2>. HIDE DEF T
  <2>. QED
    BY <1>2, <2>1, KeptSuffix
<1>. DEFINE P == Kept(lines, T)
<1>4. DOMAIN P = 1..Len(lines) /\ \A i \in 1..Len(lines) : P[i] = lines[i]
  <2>. HIDE DEF T
  <2>. QED
    BY <1>1, <1>3
<1>5. Entries = [i \in DOMAIN P |-> P[i].e]
  BY DEF Entries
<1>. HIDE DEF P
<1>. QED
  BY <1>4, <1>5

LEMMA CleanMissing ==
    ASSUME lines \in Seq(LineType), Clean, NEW n \in 0..Len(lines)
    PROVE  Missing(n) = [k \in 1..(Len(lines) - n) |-> lines[n + k].e]
<1>. DEFINE E == Entries
<1>. DEFINE T == {i \in DOMAIN E : E[i].seq > n}
<1>1. /\ E \in Seq(Numbered) /\ Len(lines) \in Nat /\ DOMAIN lines = 1..Len(lines)
      /\ E = [i \in 1..Len(lines) |-> lines[i].e]
  BY CleanEntries, EntriesAreNumbered
<1>. HIDE DEF E
<1>2. Len(E) = Len(lines) /\ DOMAIN E = 1..Len(lines)
  BY <1>1
<1>3. \A i \in 1..Len(E) : E[i].seq = i
  BY <1>1, <1>2 DEF Clean
<1>4. \A i \in 1..Len(E) : i \in T <=> i > n
  BY <1>2, <1>3
<1>5. Kept(E, T) = [k \in 1..(Len(E) - n) |-> E[n + k]]
  <2>1. n \in 0..Len(E) /\ E \in Seq(Numbered)
    BY <1>1, <1>2
  <2>. HIDE DEF T
  <2>. QED
    BY <1>4, <2>1, KeptSuffix
<1>6. \A k \in 1..(Len(lines) - n) : E[n + k] = lines[n + k].e
  BY <1>1
<1>7. Missing(n) = Kept(E, T)
  BY DEF Missing, E
<1>. HIDE DEF T
<1>. QED
  BY <1>2, <1>5, <1>6, <1>7

------------------------------------------------------------------------------
\* What MInv says of the pieces, for the steps below.
LEMMA MirrorFacts ==
    ASSUME MInv
    PROVE  /\ ChainType /\ CopyType
           /\ torn = 0 /\ "forked" \notin upset => Clean /\ (loaded /\ ~unread => LastOf(head)) /\ Copies
           /\ lines \in Seq(LineType) /\ Len(lines) \in Nat /\ DOMAIN lines = 1..Len(lines)
           /\ queue \in Seq(Numbered) /\ Len(queue) \in Nat /\ DOMAIN queue = 1..Len(queue)
           /\ writes \in 0..MaxWrites /\ MaxWrites \in Nat /\ Len(lines) <= MaxWrites
<1>1. /\ ChainType /\ CopyType
      /\ torn = 0 /\ "forked" \notin upset => Clean /\ (loaded /\ ~unread => LastOf(head)) /\ Copies
  BY DEF MInv, FInv, IInv
<1>2. queue \in Seq(Numbered) /\ writes \in 0..MaxWrites /\ MaxWrites \in Nat
  BY <1>1, AuditConstants DEF CopyType
<1>3. lines \in Seq(LineType) /\ Len(lines) \in Nat /\ DOMAIN lines = 1..Len(lines)
  BY <1>1, LinesOf
<1>4. Len(lines) <= MaxWrites
  BY <1>2, <1>3 DEF MInv
<1>. QED
  BY <1>1, <1>2, <1>3, <1>4

\* A record() that upsets nothing: load() had read the files, start() is at no await, and
\* the queue has room.
LEMMA QuietRecord ==
    ASSUME Record, Settled'
    PROVE  ~unread /\ db \notin {"migrating", "reading"} /\ (Connected => ~(Len(queue) >= MaxQueue))
<1>1. /\ Forks = {}
      /\ (IF db \in {"migrating", "reading"} THEN {"early"} ELSE {}) = {}
      /\ (IF Connected /\ Len(queue) >= MaxQueue THEN {"dropped"} ELSE {}) = {}
  BY DEF Record, Settled
<1>2. \A x : {x} # {}
  OBVIOUS
<1>. QED
  BY <1>1, <1>2 DEF Forks

LEMMA RecordTrails ==
    ASSUME MInv, Settled, Settled', NEW n \in Nat, Trail(n), Record
    PROVE  Trail(n)'
<1>0. ~unread /\ db \notin {"migrating", "reading"} /\ (Connected => ~(Len(queue) >= MaxQueue))
  BY QuietRecord
<1>1. /\ ChainType /\ CopyType /\ Clean /\ (loaded => LastOf(head)) /\ Copies
      /\ lines \in Seq(LineType) /\ Len(lines) \in Nat /\ DOMAIN lines = 1..Len(lines)
      /\ queue \in Seq(Numbered) /\ Len(queue) \in Nat /\ DOMAIN queue = 1..Len(queue)
      /\ writes \in 0..MaxWrites /\ MaxWrites \in Nat /\ Len(lines) <= MaxWrites
  BY <1>0, MirrorFacts DEF Settled
<1>2. /\ writes < MaxWrites /\ writes' = writes + 1 /\ lines' = Written("entry") /\ db \notin {"migrating", "reading"}
      /\ UNCHANGED <<rows, db, max>> /\ Flush(queue')
      /\ IF Connected THEN queue' = Enqueued(NextEntry) ELSE queue' = queue
  BY <1>0 DEF Record, CanRecord
<1>. DEFINE l == [kind |-> "entry", month |-> month, e |-> NextEntry]
<1>3. lines' = Append(lines, l) /\ NextEntry \in Numbered
  BY <1>1, <1>2, CleanWriting, NextIsNumbered
<1>4. l.e = NextEntry
  OBVIOUS
<1>. HIDE DEF l
<1>5. /\ Len(lines') = Len(lines) + 1 /\ lines'[Len(lines) + 1].e = NextEntry
      /\ \A i \in DOMAIN lines : lines'[i] = lines[i]
  BY <1>1, <1>2, <1>3, <1>4 DEF MInv
<1>6. n \in 0..Len(lines') /\ \A s \in Writes : rows'[s] # NoEntry <=> s <= n
  BY <1>1, <1>2, <1>5 DEF Trail
<1>7. max' = -1 \/ (db' = "reading" /\ max' = n)
  BY <1>2 DEF Trail
<1>8. CASE db # "on"
  <2>1. ~Connected
    BY <1>2, <1>8 DEF Connected
  <2>2. queue' = <<>> /\ Idle
    BY <1>2, <1>8, <2>1 DEF Trail, Idle
  <2>3. UNCHANGED <<sent, flushing, applied>>
    BY <1>2, <2>1 DEF Flush
  <2>. QED
    BY <1>2, <1>5, <1>6, <1>7, <1>8, <2>2, <2>3 DEF Trail, Idle
<1>9. CASE db = "on"
  <2>1. /\ Before \in 0..n /\ n <= Before + 1 /\ Before = Len(lines) - Len(queue)
        /\ \A k \in DOMAIN queue : queue[k] = lines[Before + k].e
        /\ flushing <=> sent # NoEntry
        /\ sent # NoEntry => queue # <<>> /\ sent = queue[1]
        /\ applied => sent # NoEntry /\ n = Before + 1
    BY <1>9 DEF Trail, Before
  <2>2. Len(queue) < MaxQueue
    BY <1>0, <1>1, <1>9, AuditConstants DEF Connected
  <2>3. queue' = Append(queue, NextEntry)
    BY <1>1, <1>2, <1>3, <1>9, <2>2, EnqueuedFrom DEF Connected
  <2>4. /\ Len(queue') = Len(queue) + 1 /\ queue' # <<>> /\ queue'[Len(queue) + 1] = NextEntry
        /\ DOMAIN queue' = 1..(Len(queue) + 1)
        /\ \A k \in DOMAIN queue : queue'[k] = queue[k]
    BY <1>1, <1>3, <2>3
  <2>5. Before' = Before /\ Before \in Nat /\ Before + Len(queue) = Len(lines)
    BY <1>1, <1>5, <2>1, <2>4 DEF Before
  <2>6. ASSUME NEW k \in DOMAIN queue'
        PROVE  queue'[k] = lines'[Before + k].e
    <3>1. CASE k \in DOMAIN queue
      <4>1. Before + k \in DOMAIN lines
        BY <1>1, <2>5, <3>1
      <4>. QED
        BY <1>5, <2>1, <2>4, <3>1, <4>1
    <3>2. CASE k = Len(queue) + 1
      BY <1>1, <1>5, <2>4, <2>5, <3>2
    <3>. QED
      BY <1>1, <2>4, <3>1, <3>2
  <2>7. /\ flushing' <=> sent' # NoEntry
        /\ sent' # NoEntry => sent' = queue'[1]
        /\ applied' => sent' # NoEntry /\ n = Before + 1
    <3>1. CASE flushing
      <4>1. UNCHANGED <<flushing, sent, applied>>
        BY <1>2, <3>1 DEF Flush
      <4>2. 1 \in DOMAIN queue /\ sent = queue[1]
        BY <1>1, <2>1, <3>1
      <4>. QED
        BY <2>1, <2>4, <4>1, <4>2
    <3>2. CASE ~flushing
      <4>1. flushing' = TRUE /\ sent' = queue'[1] /\ applied' = FALSE
        BY <1>2, <1>9, <2>4, <3>2 DEF Flush, Connected
      <4>2. 1 \in DOMAIN queue'
        BY <1>1, <2>4
      <4>3. queue'[1] # NoEntry
        <5>1. queue'[1] = lines'[Before + 1].e /\ Before + 1 \in 1..Len(lines')
          BY <1>1, <1>5, <2>5, <2>6, <4>2
        <5>2. \A i \in 1..Len(lines') : lines'[i].e.seq # 0
          <6>1. NextEntry.seq # 0
            BY <1>1, <1>2, CleanWriting
          <6>2. \A i \in DOMAIN lines : lines[i].e.seq = i /\ i # 0
            BY <1>1 DEF Clean
          <6>. QED
            BY <1>1, <1>5, <6>1, <6>2
        <5>. QED
          BY <5>1, <5>2 DEF NoEntry
      <4>. QED
        BY <4>1, <4>3
    <3>. QED
      BY <3>1, <3>2
  <2>. QED
    BY <1>2, <1>5, <1>6, <1>7, <1>9, <2>1, <2>4, <2>5, <2>6, <2>7 DEF Trail, Before
<1>. QED
  BY <1>8, <1>9

LEMMA InsertTrails ==
    ASSUME MInv, Settled, NEW n \in Nat, Trail(n), Insert
    PROVE  Trail(n)' \/ (n + 1 \in 0..Len(lines) /\ Trail(n + 1)')
<1>1. /\ CopyType /\ Clean
      /\ lines \in Seq(LineType) /\ Len(lines) \in Nat /\ DOMAIN lines = 1..Len(lines)
      /\ queue \in Seq(Numbered) /\ Len(queue) \in Nat /\ DOMAIN queue = 1..Len(queue)
      /\ MaxWrites \in Nat /\ Len(lines) <= MaxWrites
  BY MirrorFacts DEF Settled
<1>2. /\ sent # NoEntry /\ ~applied /\ applied' = TRUE
      /\ rows' = [rows EXCEPT ![sent.seq] = IF @ = NoEntry THEN sent ELSE @]
      /\ UNCHANGED <<lines, db, max, queue, flushing, sent>>
  BY DEF Insert
<1>3. db = "on"
  BY <1>2 DEF Trail, Idle
<1>4. /\ Before \in 0..n /\ n <= Before + 1 /\ n \in 0..Len(lines) /\ max = -1 /\ Before = Len(lines) - Len(queue)
      /\ \A k \in DOMAIN queue : queue[k] = lines[Before + k].e
      /\ flushing <=> sent # NoEntry
      /\ queue # <<>> /\ sent = queue[1]
      /\ \A s \in Writes : rows[s] # NoEntry <=> s <= n
  BY <1>2, <1>3 DEF Trail, Before
<1>5. 1 \in DOMAIN queue /\ Before + 1 \in DOMAIN lines
  BY <1>1, <1>4
<1>6. sent.seq = Before + 1 /\ Before + 1 \in Writes
  BY <1>1, <1>4, <1>5 DEF Clean, Writes
<1>7. rows' = [rows EXCEPT ![Before + 1] = IF @ = NoEntry THEN sent ELSE @]
  BY <1>2, <1>6
<1>. DEFINE m == Before + 1
<1>8. rows \in [Writes -> Numbered]
  BY <1>1 DEF CopyType
<1>9. \A s \in Writes : rows'[s] # NoEntry <=> (s <= n \/ s = m)
  BY <1>2, <1>4, <1>6, <1>7, <1>8
<1>10. \A s \in Writes : s \in Nat
  BY DEF Writes
<1>11. (n = m \/ n + 1 = m) /\ m \in 0..Len(lines) /\ m \in Nat
  <2>1. Before \in Nat /\ Before + 1 \in 1..Len(lines)
    BY <1>1, <1>4, <1>5
  <2>2. n = Before \/ n = Before + 1
    BY <1>4, <2>1
  <2>. QED
    BY <2>1, <2>2
<1>12. \A s \in Writes : rows'[s] # NoEntry <=> s <= m
  BY <1>9, <1>10, <1>11
<1>13. ASSUME NEW k \in {n, n + 1}, k = m
       PROVE  Trail(k)'
  <2>1. Before' = Before
    BY <1>2 DEF Before
  <2>2. k \in 0..Len(lines') /\ \A s \in Writes : rows'[s] # NoEntry <=> s <= k
    BY <1>2, <1>11, <1>12, <1>13
  <2>3. Before \in 0..k /\ k <= Before + 1 /\ k = Before + 1
    BY <1>4, <1>11, <1>13
  <2>. QED
    BY <1>2, <1>3, <1>4, <2>1, <2>2, <2>3 DEF Trail, Before
<1>. QED
  BY <1>11, <1>13

LEMMA FlushNextTrails ==
    ASSUME MInv, Settled, NEW n \in Nat, Trail(n), FlushNext
    PROVE  Trail(n)'
<1>1. /\ Clean
      /\ lines \in Seq(LineType) /\ Len(lines) \in Nat /\ DOMAIN lines = 1..Len(lines)
      /\ queue \in Seq(Numbered) /\ Len(queue) \in Nat /\ DOMAIN queue = 1..Len(queue)
  BY MirrorFacts DEF Settled
<1>2. applied /\ queue' = Tail(queue) /\ UNCHANGED <<lines, rows, db, max>>
  BY DEF FlushNext
<1>3. db = "on" /\ Connected
  BY <1>2 DEF Trail, Idle, Connected
<1>4. /\ Before \in 0..n /\ n = Before + 1 /\ max = -1 /\ Before = Len(lines) - Len(queue)
      /\ \A k \in DOMAIN queue : queue[k] = lines[Before + k].e
      /\ queue # <<>>
  BY <1>2, <1>3 DEF Trail, Before
<1>5. /\ queue' \in Seq(Numbered) /\ Len(queue') = Len(queue) - 1 /\ DOMAIN queue' = 1..(Len(queue) - 1)
      /\ \A k \in DOMAIN queue' : k + 1 \in DOMAIN queue /\ queue'[k] = queue[k + 1]
  BY <1>1, <1>2, <1>4
<1>6. Before' = n
  BY <1>1, <1>2, <1>4, <1>5 DEF Before
<1>7. \A k \in DOMAIN queue' : queue'[k] = lines'[n + k].e
  <2>1. ASSUME NEW k \in DOMAIN queue'
        PROVE  queue'[k] = lines'[n + k].e
    <3>1. queue'[k] = lines[Before + (k + 1)].e
      BY <1>4, <1>5
    <3>2. Before + (k + 1) = n + k
      BY <1>1, <1>4, <1>5
    <3>. QED
      BY <1>2, <3>1, <3>2
  <2>. QED
    BY <2>1
<1>8. /\ flushing' <=> sent' # NoEntry
      /\ sent' # NoEntry => queue' # <<>> /\ sent' = queue'[1]
      /\ ~applied'
  <2>1. CASE queue' = <<>>
    BY <2>1 DEF FlushNext
  <2>2. CASE queue' # <<>>
    <3>1. flushing' = TRUE /\ sent' = queue'[1] /\ applied' = FALSE
      BY <1>3, <2>2 DEF FlushNext
    <3>2. 1 \in DOMAIN queue' /\ 1 + 1 \in DOMAIN queue
      BY <1>5, <2>2
    <3>3. n + 1 \in DOMAIN lines /\ queue'[1] = lines[n + 1].e
      BY <1>1, <1>2, <1>4, <1>5, <1>7, <3>2
    <3>4. queue'[1].seq = n + 1 /\ n + 1 # 0
      BY <1>1, <3>3 DEF Clean
    <3>. QED
      BY <2>2, <3>1, <3>4 DEF NoEntry
  <2>. QED
    BY <2>1, <2>2
<1>9. n \in 0..Len(lines') /\ \A s \in Writes : rows'[s] # NoEntry <=> s <= n
  BY <1>2 DEF Trail
<1>10. n \in 0..n /\ n <= n + 1
  OBVIOUS
<1>. QED
  BY <1>2, <1>3, <1>4, <1>6, <1>7, <1>8, <1>9, <1>10 DEF Trail, Before

LEMMA BackfillTrails ==
    ASSUME MInv, Settled, NEW n \in Nat, Trail(n), Backfill
    PROVE  Trail(n)'
<1>1. /\ Clean
      /\ lines \in Seq(LineType) /\ Len(lines) \in Nat /\ DOMAIN lines = 1..Len(lines)
  BY MirrorFacts DEF Settled
<1>2. /\ db = "reading" /\ max # -1 /\ db' = "on" /\ max' = -1
      /\ queue' = Missing(max) \o queue
      /\ IF Missing(max) = <<>> THEN UNCHANGED <<flushing, sent, applied>> ELSE Flush(queue')
      /\ UNCHANGED <<lines, rows>>
  BY DEF Backfill
<1>3. max = n /\ Idle /\ n \in 0..Len(lines) /\ \A s \in Writes : rows[s] # NoEntry <=> s <= n
  BY <1>2 DEF Trail
<1>. DEFINE more == [k \in 1..(Len(lines) - n) |-> lines[n + k].e]
<1>4. Missing(n) = more
  BY <1>1, <1>3, CleanMissing
<1>5. Missing(n) \in Seq(Numbered)
  BY <1>1, MissingIsNumbered
<1>6. more \in Seq(Numbered) /\ Len(more) = Len(lines) - n /\ DOMAIN more = 1..(Len(lines) - n)
  BY <1>1, <1>3, <1>4, <1>5
<1>7. queue' = more
  <2>. HIDE DEF more
  <2>. QED
    BY <1>2, <1>3, <1>4, <1>6 DEF Idle
<1>8. Before' = n
  <2>. HIDE DEF more
  <2>1. Len(queue') = Len(lines) - n /\ Len(lines') = Len(lines)
    BY <1>2, <1>6, <1>7
  <2>. QED
    BY <1>1, <1>3, <2>1 DEF Before
<1>9. \A k \in DOMAIN queue' : queue'[k] = lines'[n + k].e
  BY <1>2, <1>6, <1>7
<1>10. /\ flushing' <=> sent' # NoEntry
       /\ sent' # NoEntry => queue' # <<>> /\ sent' = queue'[1]
       /\ ~applied'
  <2>. HIDE DEF more
  <2>1. CASE more = <<>>
    BY <1>2, <1>3, <1>4, <2>1 DEF Idle
  <2>2. CASE more # <<>>
    <3>1. flushing' = TRUE /\ sent' = queue'[1] /\ applied' = FALSE /\ queue' # <<>>
      BY <1>2, <1>3, <1>4, <1>7, <2>2 DEF Flush, Connected, Idle
    <3>2. 1 \in DOMAIN queue' /\ n + 1 \in DOMAIN lines
      BY <1>1, <1>3, <1>6, <1>7, <2>2
    <3>3. queue'[1].seq = n + 1 /\ n + 1 # 0
      BY <1>1, <1>2, <1>9, <3>2 DEF Clean
    <3>. QED
      BY <3>1, <3>3 DEF NoEntry
  <2>. QED
    BY <2>1, <2>2
<1>11. n \in 0..n /\ n <= n + 1 /\ n \in 0..Len(lines') /\ \A s \in Writes : rows'[s] # NoEntry <=> s <= n
  BY <1>2, <1>3
<1>. HIDE DEF more
<1>. QED
  BY <1>2, <1>8, <1>9, <1>10, <1>11 DEF Trail, Before

\* SELECT MAX(seq) over the first n rows.
LEMMA MaxOfPrefix ==
    ASSUME NEW n \in Nat, n <= MaxWrites, \A s \in Writes : rows[s] # NoEntry <=> s <= n
    PROVE  MaxSeq = n
<1>. DEFINE Highest(s) == (s = 0 \/ rows[s] # NoEntry) /\ \A t \in Writes : t > s => rows[t] = NoEntry
<1>1. MaxWrites \in Nat /\ Writes = 1..MaxWrites
  BY AuditConstants DEF Writes
<1>2. n \in 0..MaxWrites /\ Highest(n)
  BY <1>1
<1>3. ASSUME NEW s \in 0..MaxWrites, Highest(s)
      PROVE  s = n
  <2>1. s <= n
    BY <1>1, <1>3
  <2>2. ~(n > s)
    BY <1>1, <1>2, <1>3
  <2>. QED
    BY <2>1, <2>2
<1>. HIDE DEF Highest
<1>4. (CHOOSE s \in 0..MaxWrites : Highest(s)) = n
  BY <1>2, <1>3
<1>. QED
  BY <1>4 DEF MaxSeq, Highest

\* Steps that leave the files, the rows and the statement under way alone, or drop it.
LEMMA QuietTrails ==
    ASSUME MInv, Settled, NEW n \in Nat, Trail(n),
           RecordThrows \/ LoadThrows \/ Crash \/ NextMonth \/ FlushFails \/ StartFails \/ StartDb \/ Migrated \/ ReadMax \/ UNCHANGED vars
    PROVE  Trail(n)' /\ lines' = lines
<1>1. n <= MaxWrites /\ \A s \in Writes : rows[s] # NoEntry <=> s <= n
  <2>1. n <= Len(lines) /\ Len(lines) <= MaxWrites /\ Len(lines) \in Nat /\ MaxWrites \in Nat
    BY MirrorFacts DEF Trail
  <2>. QED
    BY <2>1 DEF Trail
<1>2. CASE RecordThrows \/ LoadThrows \/ NextMonth \/ UNCHANGED vars
  <2>1. UNCHANGED <<lines, rows, db, max, queue, flushing, sent, applied>>
    BY <1>2 DEF RecordThrows, LoadThrows, NextMonth, vars, process
  <2>. QED
    BY <2>1 DEF Trail, Idle, Before
<1>3. CASE Crash
  <2>1. UNCHANGED <<lines, rows>> /\ db' = "new" /\ max' = -1 /\ Idle'
    BY <1>3 DEF Crash, Reboot, Idle
  <2>. QED
    BY <2>1 DEF Trail
<1>4. CASE FlushFails
  <2>1. /\ UNCHANGED <<lines, rows, db, max, queue>> /\ flushing /\ ~flushing' /\ sent' = NoEntry /\ ~applied'
    BY <1>4 DEF FlushFails
  <2>2. db = "on"
    BY <2>1 DEF Trail, Idle
  <2>. QED
    BY <2>1, <2>2 DEF Trail, Before
<1>5. CASE StartFails \/ StartDb \/ Migrated
  <2>1. /\ UNCHANGED <<lines, rows, queue, flushing, sent, applied>> /\ db # "on" /\ db' # "on"
        /\ max' = -1 \/ (max' = max /\ db # "reading")
    BY <1>5 DEF StartFails, StartDb, Migrated
  <2>. QED
    BY <2>1 DEF Trail, Idle
<1>6. CASE ReadMax
  <2>1. UNCHANGED <<lines, rows, db, queue, flushing, sent, applied>> /\ db = "reading" /\ max' = MaxSeq
    BY <1>6 DEF ReadMax
  <2>2. max' = n
    BY <1>1, <2>1, MaxOfPrefix
  <2>. QED
    BY <2>1, <2>2 DEF Trail, Idle
<1>. QED
  BY <1>2, <1>3, <1>4, <1>5, <1>6

\* Where nothing is upset every step writes an entry, copies the next one, or does neither.
LEMMA MirrorMoves ==
    ASSUME MInv, Settled, Settled', NEW n \in Nat, Trail(n), [Next]_vars
    PROVE  \/ Record /\ Trail(n)'
           \/ lines' = lines /\ (Trail(n)' \/ (n + 1 \in 0..Len(lines) /\ Trail(n + 1)'))
<1>1. \A kind : ~RecordTorn(kind) /\ ~DieTorn(kind)
  BY DEF Settled, RecordTorn, DieTorn
<1>2. CASE Record
  BY <1>2, RecordTrails
<1>3. CASE Insert
  <2>1. lines' = lines
    BY <1>3 DEF Insert
  <2>. QED
    BY <1>3, <2>1, InsertTrails
<1>4. CASE FlushNext
  <2>1. lines' = lines
    BY <1>4 DEF FlushNext
  <2>. QED
    BY <1>4, <2>1, FlushNextTrails
<1>5. CASE Backfill
  <2>1. lines' = lines
    BY <1>5 DEF Backfill
  <2>. QED
    BY <1>5, <2>1, BackfillTrails
<1>6. CASE RecordThrows \/ LoadThrows \/ Crash \/ NextMonth \/ FlushFails \/ StartFails \/ StartDb \/ Migrated \/ ReadMax \/ UNCHANGED vars
  BY <1>6, QuietTrails
<1>. QED
  BY <1>1, <1>2, <1>3, <1>4, <1>5, <1>6 DEF Next, DbStep

\* A process that ends with the table complete leaves a copy of the files.
LEMMA CrashMends ==
    ASSUME MInv, Crash, Settled', ~Settled
    PROVE  lines' = lines /\ Len(lines) \in Nat /\ Clean /\ Trail(Len(lines))'
<1>1. /\ UNCHANGED <<lines, rows, torn>> /\ db' = "new" /\ max' = -1 /\ Idle'
      /\ upset' = IF Complete THEN upset \ {"early", "dropped"} ELSE upset
  BY DEF Crash, Reboot, Idle
<1>2. torn = 0 /\ "forked" \notin upset /\ Complete
  BY <1>1 DEF Settled
<1>3. /\ Clean /\ Copies /\ CopyType
      /\ lines \in Seq(LineType) /\ Len(lines) \in Nat /\ DOMAIN lines = 1..Len(lines)
      /\ MaxWrites \in Nat /\ Len(lines) <= MaxWrites
  BY <1>2, MirrorFacts
<1>4. DOMAIN Entries = 1..Len(lines) /\ \A i \in 1..Len(lines) : Entries[i].seq = i
  <2>1. Entries = [i \in 1..Len(lines) |-> lines[i].e]
    BY <1>3, CleanEntries
  <2>. QED
    BY <1>3, <2>1 DEF Clean
<1>5. ASSUME NEW s \in Writes
      PROVE  rows[s] # NoEntry <=> s <= Len(lines)
  <2>1. s \in Nat /\ s # 0
    BY <1>3, <1>5 DEF Writes
  <2>2. ASSUME s <= Len(lines) PROVE rows[s] # NoEntry
    BY <1>2, <1>4, <2>1, <2>2 DEF Complete
  <2>3. ASSUME rows[s] # NoEntry PROVE s <= Len(lines)
    <3>1. rows[s].seq = s /\ \E i \in DOMAIN lines : lines[i].e = rows[s]
      BY <1>3, <2>3 DEF Copies, InFile
    <3>2. PICK i \in DOMAIN lines : lines[i].e.seq = s
      BY <3>1
    <3>. QED
      BY <1>3, <3>2 DEF Clean
  <2>. QED
    BY <2>2, <2>3
<1>6. Len(lines) \in 0..Len(lines)
  BY <1>3
<1>. QED
  BY <1>1, <1>3, <1>5, <1>6 DEF Trail

\* What is upset is upset until a process ends.
LEMMA UpsetStays ==
    ASSUME MInv, [Next]_vars, Settled', ~Crash
    PROVE  Settled
<1>1. torn \in Nat
  BY MirrorFacts DEF CopyType
<1>2. torn' \in {torn, torn + 1} /\ upset \subseteq upset'
  BY DEF Next, DbStep, Record, RecordThrows, LoadThrows, RecordTorn, DieTorn, NextMonth, FlushFails, StartFails,
         Insert, FlushNext, StartDb, Migrated, ReadMax, Backfill, vars, ghosts
<1>. QED
  BY <1>1, <1>2 DEF Settled

LEMMA MirrorStep ==
    ASSUME MInv, [Next]_vars
    PROVE  MInv'
<1>1. FInv'
  BY FilesStep DEF MInv
<1>3. db' \in DbPhase
  <2>1. db' = db \/ db' \in {"new", "migrating", "reading", "on", "off"}
    BY DEF Next, DbStep, Record, RecordThrows, LoadThrows, RecordTorn, DieTorn, Crash, Reboot, NextMonth, FlushFails,
           StartFails, Insert, FlushNext, StartDb, Migrated, ReadMax, Backfill, vars, process
  <2>. QED
    BY <2>1 DEF MInv, DbPhase
<1>4. flushing' \in BOOLEAN /\ applied' \in BOOLEAN
  <2>1. UNCHANGED <<flushing, applied>> \/ (flushing' \in BOOLEAN /\ applied' \in BOOLEAN)
        \/ (flushing' = flushing /\ applied' = TRUE)
    BY DEF Next, DbStep, Record, RecordThrows, LoadThrows, RecordTorn, DieTorn, Crash, Reboot, NextMonth, FlushFails,
           StartFails, Insert, FlushNext, StartDb, Migrated, ReadMax, Backfill, Flush, vars, process
  <2>. QED
    BY <2>1 DEF MInv
<1>5. Len(lines') <= writes'
  <2>1. \/ writes' \in {writes, writes + 1} /\ lines' = lines
        \/ writes' = writes + 1 /\ \E kind : lines' = Written(kind)
    BY DEF Next, DbStep, Record, RecordThrows, LoadThrows, RecordTorn, DieTorn, Crash, NextMonth, FlushFails, StartFails,
           Insert, FlushNext, StartDb, Migrated, ReadMax, Backfill, vars
  <2>2. writes \in Nat /\ Len(lines) \in Nat /\ Len(lines) <= writes /\ lines \in Seq(LineType)
    BY MirrorFacts DEF MInv
  <2>3. ASSUME NEW kind, lines' = Written(kind) PROVE Len(lines') \in {Len(lines), Len(lines) + 1}
    <3>1. \/ \E k : lines' = [lines EXCEPT ![Len(lines)].kind = k]
          \/ \E l : lines' = Append(lines, l)
      BY <2>3 DEF Written
    <3>. QED
      BY <2>2, <3>1
  <2>. QED
    BY <2>1, <2>2, <2>3
<1>6. ASSUME Settled' PROVE \E n \in Nat : Trail(n)'
  <2>1. CASE Settled
    <3>1. PICK n \in Nat : Trail(n)
      BY <2>1 DEF MInv
    <3>2. Trail(n)' \/ Trail(n + 1)'
      BY <1>6, <2>1, <3>1, MirrorMoves
    <3>3. n + 1 \in Nat
      OBVIOUS
    <3>. QED
      BY <3>2, <3>3
  <2>2. CASE ~Settled
    <3>1. Crash
      BY <1>6, <2>2, UpsetStays
    <3>. QED
      BY <1>6, <2>2, <3>1, CrashMends
  <2>. QED
    BY <2>1, <2>2
<1>. QED
  BY <1>1, <1>3, <1>4, <1>5, <1>6 DEF MInv

LEMMA MirrorStart == Init => MInv
<1>. SUFFICES ASSUME Init PROVE MInv
  OBVIOUS
<1>1. FInv
  BY FilesStart
<1>2. /\ lines = <<>> /\ rows = [s \in Writes |-> NoEntry] /\ writes = 0 /\ torn = 0
      /\ db = "new" /\ max = -1 /\ queue = <<>> /\ sent = NoEntry /\ flushing = FALSE /\ applied = FALSE
  BY DEF Init, Boot
<1>3. Trail(0)
  <2>1. \A s \in Writes : ~(s <= 0) /\ rows[s] = NoEntry
    BY <1>2 DEF Writes
  <2>. QED
    BY <1>2, <2>1 DEF Trail, Idle
<1>4. Len(lines) <= writes /\ 0 \in Nat
  BY <1>2
<1>. QED
  BY <1>1, <1>2, <1>3, <1>4 DEF MInv, DbPhase

\* Where nothing is upset, the table holds the first entries of the files, and the queue the
\* rest.
THEOREM MirrorIsSound == Spec => []MInv
  BY MirrorStart, MirrorStep, PTL DEF Spec

\* Where nothing is upset an empty queue means a complete table: backfill() and flush() leave
\* no entry behind, whatever fails and whenever the process dies.
THEOREM QueueEmptied == Spec => []CaughtUp
<1>1. ASSUME MInv PROVE CaughtUp
  <2>. SUFFICES ASSUME Settled, db = "on", queue = <<>>, NEW i \in DOMAIN Entries
                PROVE  rows[Entries[i].seq] # NoEntry
    BY DEF CaughtUp, Complete
  <2>1. PICK n \in Nat : Trail(n)
    BY <1>1 DEF MInv
  <2>2. Clean /\ lines \in Seq(LineType) /\ Len(lines) \in Nat /\ DOMAIN lines = 1..Len(lines)
        /\ Len(lines) <= MaxWrites /\ MaxWrites \in Nat
    BY <1>1, MirrorFacts DEF Settled
  <2>3. Entries = [j \in 1..Len(lines) |-> lines[j].e]
    BY <2>2, CleanEntries
  <2>4. i \in 1..Len(lines) /\ Entries[i].seq = i
    BY <2>2, <2>3 DEF Clean
  <2>5. n = Len(lines)
    <3>1. Before = Len(lines)
      BY <2>2 DEF Before
    <3>2. n \in 0..Len(lines) /\ Len(lines) \in 0..n
      BY <2>1, <3>1 DEF Trail
    <3>3. \A x, y \in Nat : x \in 0..y /\ y \in 0..x => x = y
      OBVIOUS
    <3>4. n \in Nat /\ Len(lines) \in Nat
      BY <2>1, <2>2
    <3>. QED
      BY <3>2, <3>3, <3>4
  <2>6. i \in Writes /\ i <= n
    BY <2>2, <2>4, <2>5 DEF Writes
  <2>. QED
    BY <2>1, <2>4, <2>6 DEF Trail
<1>. QED
  BY <1>1, MirrorIsSound, PTL

------------------------------------------------------------------------------
LogOf(l) == [i \in 1..Len(l) |-> [id |-> l[i].e.id, prev |-> l[i].e.prev]]

LEMMA LogIs ==
    ASSUME ChainType, Clean
    PROVE  Log = LogOf(lines)
<1>1. Len(lines) \in Nat /\ Entries = [i \in 1..Len(lines) |-> lines[i].e]
  BY LinesOf, CleanEntries
<1>2. DOMAIN Entries = 1..Len(lines) /\ \A i \in 1..Len(lines) : Entries[i] = lines[i].e
  BY <1>1
<1>. QED
  BY <1>2 DEF Log, LogOf

LEMMA CopiedIs ==
    ASSUME MInv, NEW n \in Nat, Trail(n)
    PROVE  Copied = n
<1>. DEFINE have == {s \in Writes : rows[s] # NoEntry}
<1>1. n \in 0..MaxWrites /\ MaxWrites \in Nat
  BY MirrorFacts DEF Trail
<1>2. have = 1..n
  BY <1>1 DEF Trail, Writes
<1>3. \A m \in 0..MaxWrites : have = 1..m => m = n
  <2>1. ASSUME NEW m \in 0..MaxWrites, 1..n = 1..m PROVE m = n
    <3>1. n <= m
      BY <1>1, <2>1
    <3>2. m <= n
      BY <1>1, <2>1
    <3>. QED
      BY <1>1, <3>1, <3>2
  <2>. QED
    BY <1>2, <2>1
<1>. HIDE DEF have
<1>4. (CHOOSE m \in 0..MaxWrites : have = 1..m) = n
  BY <1>1, <1>2, <1>3
<1>. QED
  BY <1>1, <1>2, <1>4 DEF Copied, have

\* Record is Append1 of the abstract log.
LEMMA RecordAppends ==
    ASSUME MInv, Settled, Settled', Record
    PROVE  \E h \in (0..MaxWrites) \ {0} :
              /\ \A i \in 1..Len(LogOf(lines)) : LogOf(lines)[i].id # h
              /\ LogOf(lines') = Append(LogOf(lines), [id |-> h, prev |-> Abstract!HashOf(LogOf(lines))])
<1>1. /\ ChainType /\ Clean /\ (loaded => LastOf(head))
      /\ lines \in Seq(LineType) /\ Len(lines) \in Nat /\ DOMAIN lines = 1..Len(lines)
      /\ writes \in 0..MaxWrites /\ MaxWrites \in Nat
  BY MirrorFacts, QuietRecord DEF Settled
<1>2. writes < MaxWrites /\ writes' = writes + 1 /\ lines' = Written("entry")
  BY DEF Record, CanRecord
<1>. DEFINE l == [kind |-> "entry", month |-> month, e |-> NextEntry]
<1>3. /\ lines' = Append(lines, l) /\ NextEntry.id = writes + 1
      /\ NextEntry.prev = IF lines = <<>> THEN 0 ELSE lines[Len(lines)].e.id
  BY <1>1, <1>2, CleanWriting
<1>4. l.e = NextEntry
  OBVIOUS
<1>. HIDE DEF l
<1>. DEFINE h == writes + 1
<1>5. h \in (0..MaxWrites) \ {0}
  BY <1>1, <1>2
<1>6. /\ Len(lines') = Len(lines) + 1 /\ lines'[Len(lines) + 1].e = NextEntry
      /\ \A i \in 1..Len(lines) : lines'[i] = lines[i]
  BY <1>1, <1>3, <1>4
<1>. DEFINE L == LogOf(lines)
<1>. DEFINE R == [id : Nat, prev : Nat]
<1>. HIDE DEF R
<1>7. /\ Len(L) = Len(lines) /\ L \in Seq(R)
      /\ \A i \in 1..Len(lines) : L[i] = [id |-> lines[i].e.id, prev |-> lines[i].e.prev]
      /\ \A i \in 1..Len(lines) : L[i].id = lines[i].e.id
  <2>1. \A i \in 1..Len(lines) : lines[i].e.id \in Nat /\ lines[i].e.prev \in Nat
    BY <1>1, LinesOf DEF Numbered
  <2>2. \A i \in 1..Len(lines) : [id |-> lines[i].e.id, prev |-> lines[i].e.prev] \in R
    BY <2>1 DEF R
  <2>. QED
    BY <1>1, <2>2 DEF LogOf
<1>8. \A i \in 1..Len(L) : L[i].id # h
  <2>1. \A i \in 1..Len(lines) : lines[i].e.id <= writes /\ lines[i].e.id \in Nat
    BY <1>1, LinesOf DEF Clean, Numbered
  <2>. HIDE DEF L
  <2>2. \A i \in 1..Len(lines) : L[i].id # h
    BY <1>1, <1>7, <2>1
  <2>. QED
    BY <1>7, <2>2
<1>9. NextEntry.prev = Abstract!HashOf(L)
  <2>. HIDE DEF L
  <2>1. lines = <<>> <=> L = <<>>
    <3>1. \A S : \A z \in Seq(S) : z = <<>> <=> Len(z) = 0
      OBVIOUS
    <3>. QED
      BY <1>1, <1>7, <3>1
  <2>2. lines # <<>> => L[Len(L)].id = lines[Len(lines)].e.id
    <3>1. lines # <<>> => Len(lines) \in 1..Len(lines)
      BY <1>1
    <3>. QED
      BY <1>7, <3>1
  <2>. QED
    BY <1>3, <2>1, <2>2 DEF Abstract!HashOf
<1>10. LogOf(lines') = Append(L, [id |-> h, prev |-> Abstract!HashOf(L)])
  <2>. DEFINE r == [id |-> h, prev |-> Abstract!HashOf(L)]
  <2>1. r = [id |-> NextEntry.id, prev |-> NextEntry.prev]
    BY <1>3, <1>9
  <2>2. LogOf(lines') = [i \in 1..(Len(lines) + 1) |-> [id |-> lines'[i].e.id, prev |-> lines'[i].e.prev]]
    BY <1>6 DEF LogOf
  <2>. HIDE DEF r, L
  <2>3. Append(L, r) = [i \in 1..(Len(lines) + 1) |-> IF i = Len(lines) + 1 THEN r ELSE L[i]]
    <3>1. L \in Seq(R) /\ Len(L) = Len(lines) /\ Len(L) \in Nat
      BY <1>1, <1>7
    <3>2. r \in R
      <4>1. NextEntry \in Numbered
        BY <1>1, NextIsNumbered
      <4>. QED
        BY <2>1, <4>1 DEF R, Numbered
    <3>. DEFINE z == Append(L, r)
    <3>3. /\ DOMAIN z = 1..(Len(lines) + 1) /\ z \in Seq(R)
          /\ \A i \in 1..(Len(lines) + 1) : z[i] = IF i = Len(lines) + 1 THEN r ELSE L[i]
      BY <3>1, <3>2
    <3>4. z = [i \in DOMAIN z |-> z[i]]
      <4>. HIDE DEF z
      <4>. QED
        BY <3>3
    <3>. HIDE DEF z
    <3>5. z = [i \in 1..(Len(lines) + 1) |-> IF i = Len(lines) + 1 THEN r ELSE L[i]]
      BY <3>3, <3>4
    <3>. QED
      BY <3>5 DEF z
  <2>4. \A i \in 1..(Len(lines) + 1) :
           [id |-> lines'[i].e.id, prev |-> lines'[i].e.prev] = IF i = Len(lines) + 1 THEN r ELSE L[i]
    BY <1>1, <1>6, <1>7, <2>1
  <2>5. LogOf(lines') = Append(L, r)
    BY <2>2, <2>3, <2>4
  <2>. QED
    BY <2>5 DEF r
<1>. QED
  BY <1>5, <1>8, <1>10

LEMMA StepImplements ==
    ASSUME MInv, MInv', [Next]_vars, (ChainType /\ Clean => Log = LogOf(lines))',
           \A n \in Nat : (Trail(n) => Copied = n)'
    PROVE  [Abstract!Next]_Abstract!vars
<1>1. CASE ~Settled'
  BY <1>1 DEF Abstract!Next, Abstract!Break, Settled
<1>2. ASSUME Settled, Settled'
      PROVE  [Abstract!Next]_Abstract!vars
  <2>1. PICK n \in Nat : Trail(n)
    BY <1>2 DEF MInv
  <2>2. Log = LogOf(lines) /\ Copied = n
    BY <1>2, <2>1, LogIs, CopiedIs, MirrorFacts DEF Settled
  <2>3. Log' = LogOf(lines')
    BY <1>2 DEF LogOf, Settled, MInv, FInv, IInv
  <2>4. \/ Record /\ Trail(n)'
        \/ lines' = lines /\ (Trail(n)' \/ (n + 1 \in 0..Len(lines) /\ Trail(n + 1)'))
    BY <1>2, <2>1, MirrorMoves
  <2>5. (~Settled)' = ~Settled
    BY <1>2
  <2>6. CASE Record /\ Trail(n)'
    <3>1. Copied' = Copied
      BY <2>1, <2>2, <2>6
    <3>2. \E h \in (0..MaxWrites) \ {0} :
                /\ \A i \in 1..Len(Log) : Log[i].id # h
                /\ Log' = Append(Log, [id |-> h, prev |-> Abstract!HashOf(Log)])
      BY <1>2, <2>2, <2>3, <2>6, RecordAppends
    <3>. QED
      BY <1>2, <2>5, <3>1, <3>2 DEF Abstract!Next, Abstract!Append1
  <2>7. CASE lines' = lines /\ Trail(n)'
    <3>1. Copied' = Copied /\ Log' = Log
      BY <2>1, <2>2, <2>3, <2>7
    <3>. QED
      BY <2>5, <3>1 DEF Abstract!vars
  <2>8. CASE lines' = lines /\ n + 1 \in 0..Len(lines) /\ Trail(n + 1)'
    <3>1. Copied' = Copied + 1 /\ Log' = Log
      BY <2>1, <2>2, <2>3, <2>8
    <3>2. Len(Log) = Len(lines) /\ Copied < Len(Log)
      BY <2>2, <2>8, MirrorFacts DEF LogOf
    <3>. QED
      BY <1>2, <2>5, <3>1, <3>2 DEF Abstract!Next, Abstract!Copy
  <2>. QED
    BY <2>4, <2>6, <2>7, <2>8
<1>3. ASSUME ~Settled, Settled'
      PROVE  [Abstract!Next]_Abstract!vars
  <2>1. Crash
    BY <1>3, UpsetStays
  <2>2. lines' = lines /\ Len(lines) \in Nat /\ Clean /\ Trail(Len(lines))'
    BY <1>3, <2>1, CrashMends
  <2>3. Log = LogOf(lines) /\ Log' = LogOf(lines')
    BY <1>3, <2>2, LogIs, MirrorFacts DEF LogOf, Settled, MInv, FInv, IInv
  <2>4. Copied' = Len(lines) /\ Len(Log) = Len(lines) /\ Log' = Log
    BY <2>2, <2>3 DEF LogOf
  <2>5. (~Settled)' = FALSE
    BY <1>3
  <2>. QED
    BY <1>3, <2>4, <2>5 DEF Abstract!Next, Abstract!Mend
<1>. QED
  BY <1>1, <1>2, <1>3

LEMMA StartImplements ==
    ASSUME Init
    PROVE  Abstract!Init
<1>1. /\ MInv /\ lines = <<>> /\ rows = [s \in Writes |-> NoEntry] /\ MaxWrites \in Nat
      /\ Settled
  BY MirrorStart, AuditConstants DEF Init, Settled
<1>2. Log = <<>>
  BY <1>1, LogIs, MirrorFacts DEF LogOf, Settled
<1>3. Trail(0)
  <2>1. PICK n \in Nat : Trail(n)
    BY <1>1 DEF MInv
  <2>2. n = 0
    BY <1>1, <2>1 DEF Trail
  <2>. QED
    BY <2>1, <2>2
<1>4. Copied = 0
  BY <1>1, <1>3, CopiedIs
<1>5. (~Settled) = FALSE
  BY <1>1
<1>. QED
  BY <1>2, <1>4, <1>5 DEF Abstract!Init

\* The files and the table implement the log that is appended to and copied in order, one
\* entry at a time, that may break when the chain or the queue is upset, and that is whole
\* again when a process ends with the table complete.
THEOREM MirrorImplements == Spec => ImplementsLog
<1>1. ChainType /\ Clean => Log = LogOf(lines)
  BY LogIs
<1>2. (ChainType /\ Clean => Log = LogOf(lines))'
  BY <1>1, PTL
<1>3. MInv => \A n \in Nat : Trail(n) => Copied = n
  BY CopiedIs
<1>4. MInv' => (\A n \in Nat : Trail(n) => Copied = n)'
  BY <1>3, PTL
<1>5. MInv /\ MInv' /\ [Next]_vars => [Abstract!Next]_Abstract!vars
  BY <1>2, <1>4, StepImplements
<1>6. Init => Abstract!Init
  BY StartImplements
<1>. QED
  BY <1>5, <1>6, MirrorIsSound, PTL DEF Spec, ImplementsLog, Abstract!Spec
=============================================================================
