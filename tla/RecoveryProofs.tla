--------------------------- MODULE RecoveryProofs ---------------------------
(***************************************************************************)
(* Proofs about Recovery, for any transactions, pages and budgets: the     *)
(* write-ahead rule, and that redo may start at the checkpoint, when no    *)
(* checkpoint passes a page in the windows "append" and "write".           *)
(***************************************************************************)
EXTENDS Recovery, TLAPS

Elements(s) == {s[i] : i \in DOMAIN s}

\* The log is a sequence, the LSAs are numbers, and a page has its fields.
PageShape(p) ==
  /\ disk[p].lsa \in Nat
  /\ DOMAIN buf[p] = {"val", "ran", "lsa", "dirty", "oldest", "latch"}
  /\ buf[p].lsa \in Nat /\ buf[p].oldest \in Nat /\ buf[p].dirty \in BOOLEAN
  /\ buf[p].latch \in Tran \cup {NoTran}
  /\ image[p] = NoImage \/ image[p].lsa \in Nat
ThreadShape(t) == DOMAIN thread[t] = {"pc", "scan", "lsa"} /\ thread[t].lsa \in 0..Len(log)
Shape ==
  /\ log \in Seq(Elements(log))
  /\ flushed \in 0..Len(log) /\ chkptLsa \in 0..flushed /\ pos \in Nat
  /\ DOMAIN disk = Page /\ DOMAIN buf = Page /\ DOMAIN image = Page /\ DOMAIN thread = Tran
  /\ \A p \in Page : PageShape(p)
  /\ \A t \in Tran : ThreadShape(t)
  /\ DOMAIN chk = {"pc", "new", "todo"} /\ chk.new \in 0..flushed

\* LSAs only grow on the way from the disk to the copy that is written, the
\* buffer and the record of the change in progress.
LsaOrder(p) ==
  /\ disk[p].lsa <= flushed /\ disk[p].lsa <= buf[p].lsa /\ buf[p].lsa <= Len(log)
  /\ image[p] # NoImage => disk[p].lsa <= image[p].lsa /\ image[p].lsa <= buf[p].lsa
  /\ buf[p].oldest <= buf[p].lsa
  /\ buf[p].latch # NoTran => buf[p].lsa < thread[buf[p].latch].lsa
PageOrder(p) == LsaOrder(p) /\ (buf[p].dirty => buf[p].oldest # 0)

\* What restart relies on: a single thread, and pages that are those of the
\* disk or redone up to pos.
PageRestart(p) ==
  /\ phase \in {"down", "redo", "undo", "checkpoint"} => buf[p].latch = NoTran
  /\ phase = "down" => image[p] = NoImage /\ buf[p].lsa = disk[p].lsa
  /\ phase = "redo" => buf[p].lsa < pos \/ buf[p].lsa = disk[p].lsa

\* A logged change that is not on disk is in a copy that is being written, in
\* a dirty buffer, on its way to the buffer, or still to be redone.
Held(p, i) ==
  \/ i <= disk[p].lsa
  \/ image[p] # NoImage /\ i <= image[p].lsa
  \/ buf[p].dirty /\ buf[p].oldest <= i /\ i <= buf[p].lsa
  \/ buf[p].latch # NoTran /\ thread[buf[p].latch].lsa = i
  \/ phase = "down"
  \/ phase = "redo" /\ pos <= i

\* The page is past the flush of the checkpoint in progress, and what that says.
PageChkpt(p) ==
  chk.pc = "header" \/ (chk.pc = "flush" /\ p \notin chk.todo) =>
    \A i \in ChangesOf(p) : i < chk.new => i <= disk[p].lsa

PageInv(p) == /\ PageOrder(p) /\ PageRestart(p) /\ PageChkpt(p)
              /\ \A i \in ChangesOf(p) : Held(p, i) /\ (i < chkptLsa => i <= disk[p].lsa)

RInv == /\ Shape
        /\ chk.pc # "idle" => phase \in {"up", "checkpoint"}
        /\ phase = "redo" => pos > 0
        /\ \A p \in Page : PageInv(p)

-----------------------------------------------------------------------------
\* Appending a record keeps the records before it.
LEMMA AppendFacts ==
  ASSUME NEW s, s \in Seq(Elements(s)), NEW e
  PROVE  /\ Append(s, e) \in Seq(Elements(Append(s, e)))
         /\ Len(Append(s, e)) = Len(s) + 1 /\ Len(s) \in Nat
         /\ \A i \in 1..Len(s) : Append(s, e)[i] = s[i]
         /\ Append(s, e)[Len(s) + 1] = e
<1> DEFINE S == Elements(s) \cup {e}
<1>1. s \in Seq(S) /\ e \in S
  OBVIOUS
<1>2. /\ Append(s, e) \in Seq(S) /\ Len(Append(s, e)) = Len(s) + 1 /\ Len(s) \in Nat
      /\ \A i \in 1..Len(s) : Append(s, e)[i] = s[i]
      /\ Append(s, e)[Len(s) + 1] = e
  <2> HIDE DEF S
  <2> QED BY <1>1
<1>3. Append(s, e) \in Seq(Elements(Append(s, e)))
  <2> HIDE DEF S
  <2> QED BY <1>2 DEF Elements
<1> QED BY Zenon, <1>2, <1>3

\* Flush forces the log up to n and never takes it back.
LEMMA FlushFacts ==
  ASSUME NEW n \in Nat, flushed \in Nat, Flush(n)
  PROVE  flushed' \in Nat /\ flushed <= flushed' /\ n <= flushed' /\ flushed' \in {flushed, n}
<1>1. \E x \in {flushed, n} : \A y \in {flushed, n} : x >= y
  <2>1. CASE n >= flushed
    BY <2>1
  <2>2. CASE n < flushed
    BY <2>2
  <2> QED BY <2>1, <2>2
<1>2. Max({flushed, n}) \in {flushed, n} /\ \A y \in {flushed, n} : Max({flushed, n}) >= y
  BY Zenon, <1>1 DEF Max
<1> QED BY Zenon, <1>2 DEF Flush

-----------------------------------------------------------------------------
\* The steps that touch no page: they may append records of other kinds, force
\* the log, and move threads that are not in the middle of a change.
LogGrows ==
  /\ log' \in Seq(Elements(log')) /\ Len(log) <= Len(log')
  /\ \A i \in 1..Len(log) : log'[i] = log[i]
  /\ \A i \in 1..Len(log') : i > Len(log) => log'[i].type \notin Redoable
ThreadsMove ==
  /\ DOMAIN thread' = Tran
  /\ \A t \in Tran : /\ ThreadShape(t)'
                     /\ Latched(t) => thread'[t].lsa = thread[t].lsa
Quiet ==
  /\ LogGrows /\ ThreadsMove
  /\ flushed' \in flushed..Len(log')
  /\ UNCHANGED <<chkptLsa, disk, buf, image, phase, pos>>

\* ChangesOf only depends on the records of the kinds that redo looks at.
LEMMA SameChanges ==
  ASSUME Shape, LogGrows, NEW p \in Page
  PROVE  ChangesOf(p)' = ChangesOf(p)
<1>1. /\ DOMAIN log = 1..Len(log) /\ DOMAIN log' = 1..Len(log')
      /\ Len(log) \in Nat /\ Len(log') \in Nat
  BY DEF Shape, LogGrows
<1> QED BY <1>1 DEF ChangesOf, LogGrows, Redoable

\* A quiet step keeps the invariant when it keeps what it says of a checkpoint.
LEMMA QuietStep ==
  ASSUME RInv, Quiet,
         DOMAIN chk' = {"pc", "new", "todo"}, chk'.new \in 0..flushed',
         chk'.pc # "idle" => phase \in {"up", "checkpoint"},
         \A p \in Page : PageChkpt(p)'
  PROVE  RInv'
<1>1. Shape'
  <2>1. Len(log) \in Nat /\ Len(log') \in Nat
    BY DEF RInv, Shape, Quiet, LogGrows
  <2>2. \A p \in Page : PageShape(p)'
    BY Zenon DEF RInv, Shape, Quiet, PageShape
  <2> QED BY <2>1, <2>2 DEF RInv, Shape, Quiet, LogGrows, ThreadsMove
<1>2. ASSUME NEW p \in Page
      PROVE  PageInv(p)'
  <2>1. PageInv(p) /\ PageShape(p) /\ Len(log) \in Nat /\ Len(log') \in Nat
    BY DEF RInv, Shape, Quiet, LogGrows
  <2>2. buf[p].latch # NoTran => thread'[buf[p].latch].lsa = thread[buf[p].latch].lsa
    BY Zenon, <2>1 DEF Quiet, ThreadsMove, PageShape, Latched
  <2>3. PageOrder(p)'
    BY <2>1, <2>2 DEF PageInv, PageOrder, LsaOrder, PageShape, Quiet, LogGrows, RInv, Shape
  <2>4. PageRestart(p)'
    BY Zenon, <2>1 DEF PageInv, PageRestart, Quiet
  <2>5. ChangesOf(p)' = ChangesOf(p)
    BY Zenon, SameChanges DEF RInv, Quiet
  <2>6. \A i \in ChangesOf(p)' : Held(p, i)' /\ (i < chkptLsa' => i <= disk'[p].lsa)
    BY Zenon, <2>1, <2>2, <2>5 DEF PageInv, Held, Quiet
  <2> QED BY Zenon, <2>3, <2>4, <2>6 DEF PageInv
<1> QED BY Zenon, <1>1, <1>2 DEF RInv, Quiet

\* A quiet step that leaves the checkpoint alone keeps the invariant.
LEMMA QuietKeeps ==
  ASSUME RInv, Quiet, chk' = chk
  PROVE  RInv'
<1>1. \A p \in Page : PageChkpt(p)'
  BY Zenon, SameChanges DEF RInv, PageInv, PageChkpt, Quiet
<1>2. chk'.new \in 0..flushed'
  BY DEF RInv, Shape, Quiet, LogGrows
<1> QED BY Zenon, <1>1, <1>2, QuietStep DEF RInv, Shape

\* How a thread moves in a quiet step.
LEMMA ThreadSteps ==
  ASSUME RInv, Len(log') \in Nat, Len(log) <= Len(log'), NEW t \in Tran,
         \/ thread' = thread
         \/ \E pc : Goto(t, pc)
         \/ \E pc, scan : thread' = [thread EXCEPT ![t].pc = pc, ![t].scan = scan]
         \/ ~Latched(t) /\ thread' = [thread EXCEPT ![t] = Idle]
         \/ ~Latched(t) /\ NextLsa <= Len(log') /\ \E pc : GotoWith(t, pc, NextLsa)
  PROVE  ThreadsMove
<1>1. Len(log) \in Nat /\ DOMAIN thread = Tran /\ \A u \in Tran : ThreadShape(u)
  BY DEF RInv, Shape
<1>2. ASSUME NEW u \in Tran
      PROVE  ThreadShape(u)' /\ (Latched(u) => thread'[u].lsa = thread[u].lsa)
  <2>1. CASE thread' = thread
    BY <1>1, <2>1 DEF ThreadShape
  <2>2. CASE \E pc : Goto(t, pc)
    <3>1. PICK pc : thread' = [thread EXCEPT ![t] = [thread[t] EXCEPT !.pc = pc]]
      BY Zenon, <2>2 DEF Goto
    <3>2. thread'[u] = thread[u] \/ thread'[u] = [thread[u] EXCEPT !.pc = pc]
      BY Zenon, <1>1, <3>1
    <3>3. DOMAIN thread'[u] = DOMAIN thread[u]
      BY Zenon, <3>2
    <3>4. thread'[u].lsa = thread[u].lsa
      BY Zenon, <1>1, <3>2 DEF ThreadShape
    <3> QED BY <1>1, <3>3, <3>4 DEF ThreadShape
  <2>3. CASE \E pc, scan : thread' = [thread EXCEPT ![t].pc = pc, ![t].scan = scan]
    <3>1. PICK pc, scan : thread' = [thread EXCEPT ![t].pc = pc, ![t].scan = scan]
      BY Zenon, <2>3
    <3>2. thread'[u] = thread[u] \/ thread'[u] = [thread[u] EXCEPT !.pc = pc, !.scan = scan]
      BY Zenon, <1>1, <3>1
    <3>3. DOMAIN thread'[u] = DOMAIN thread[u]
      BY Zenon, <3>2
    <3>4. thread'[u].lsa = thread[u].lsa
      BY Zenon, <1>1, <3>2 DEF ThreadShape
    <3> QED BY <1>1, <3>3, <3>4 DEF ThreadShape
  <2>4. CASE ~Latched(t) /\ thread' = [thread EXCEPT ![t] = Idle]
    <3>1. CASE u = t
      <4>1. thread'[u] = [pc |-> "idle", scan |-> 0, lsa |-> 0] /\ ~Latched(u)
        BY Zenon, <1>1, <2>4, <3>1 DEF Idle
      <4> QED BY <1>1, <4>1 DEF ThreadShape
    <3>2. CASE u # t
      <4>1. thread'[u] = thread[u]
        BY Zenon, <1>1, <2>4, <3>2
      <4> QED BY <1>1, <4>1 DEF ThreadShape
    <3> QED BY Zenon, <3>1, <3>2
  <2>5. CASE ~Latched(t) /\ NextLsa <= Len(log') /\ \E pc : GotoWith(t, pc, NextLsa)
    <3>1. PICK pc : thread' = [thread EXCEPT ![t].pc = pc, ![t].lsa = NextLsa]
      BY Zenon, <2>5 DEF GotoWith
    <3>2. CASE u = t
      <4>1. thread'[u] = [thread[u] EXCEPT !.pc = pc, !.lsa = NextLsa] /\ ~Latched(u)
        BY Zenon, <1>1, <2>5, <3>1, <3>2
      <4>2. DOMAIN thread'[u] = DOMAIN thread[u]
        BY Zenon, <4>1
      <4>3. thread'[u].lsa = NextLsa /\ NextLsa \in 0..Len(log')
        BY <1>1, <2>5, <4>1 DEF ThreadShape, NextLsa
      <4> QED BY Zenon, <1>1, <4>1, <4>2, <4>3 DEF ThreadShape
    <3>3. CASE u # t
      <4>1. thread'[u] = thread[u]
        BY Zenon, <1>1, <3>1, <3>3
      <4> QED BY <1>1, <4>1 DEF ThreadShape
    <3> QED BY <3>2, <3>3
  <2> QED BY Zenon, <2>1, <2>2, <2>3, <2>4, <2>5
<1>3. DOMAIN thread' = Tran
  BY Zenon, <1>1 DEF Goto, GotoWith
<1> QED BY Zenon, <1>2, <1>3 DEF ThreadsMove

\* Such steps are quiet when the log does not change, ...
LEMMA QuietSame ==
  ASSUME RInv, log' = log, ThreadsMove,
         flushed' = flushed \/ (\E n \in 0..Len(log) : Flush(n)),
         UNCHANGED <<chkptLsa, disk, buf, image, phase, pos>>
  PROVE  Quiet
<1>1. log \in Seq(Elements(log)) /\ Len(log) \in Nat /\ flushed \in 0..Len(log)
  BY DEF RInv, Shape
<1>2. LogGrows
  BY <1>1 DEF LogGrows
<1>3. flushed' \in flushed..Len(log')
  <2>1. ASSUME NEW n \in 0..Len(log), Flush(n)
        PROVE  flushed' \in flushed..Len(log)
    BY <1>1, <2>1, FlushFacts
  <2> QED BY <1>1, <2>1
<1> QED BY Zenon, <1>2, <1>3 DEF Quiet

\* ... and when they append a record that redo does not look at.
LEMMA QuietAppend ==
  ASSUME RInv, NEW r, r.type \notin Redoable, log' = Append(log, r), ThreadsMove,
         flushed' = flushed \/ Flush(NextLsa),
         UNCHANGED <<chkptLsa, disk, buf, image, phase, pos>>
  PROVE  Quiet
<1>1. log \in Seq(Elements(log)) /\ Len(log) \in Nat /\ flushed \in 0..Len(log)
  BY DEF RInv, Shape
<1>2. LogGrows /\ Len(log') = Len(log) + 1
  BY <1>1, AppendFacts DEF LogGrows
<1>3. flushed' \in flushed..Len(log')
  <2>1. ASSUME Flush(NextLsa)
        PROVE  flushed' \in flushed..Len(log')
    BY <1>1, <1>2, <2>1, FlushFacts DEF NextLsa
  <2> QED BY <1>1, <1>2, <2>1
<1> QED BY Zenon, <1>2, <1>3 DEF Quiet

-----------------------------------------------------------------------------
\* The quiet actions of a transaction.
LEMMA TranQuiet ==
  ASSUME RInv, NEW t \in Tran,
         \/ StartSystemOp(t) \/ CommitStart(t) \/ CommitUnlock(t) \/ AbortStart(t)
         \/ AbortUnlock(t) \/ AbortEnd(t) \/ FinishStart(t)
  PROVE  RInv'
<1>1. /\ log' = log /\ flushed' = flushed
      /\ UNCHANGED <<chkptLsa, disk, buf, image, chk, phase, pos>>
  BY Zenon DEF StartSystemOp, CommitStart, CommitUnlock, AbortStart, AbortUnlock, AbortEnd, FinishStart
<1>2. \/ thread' = thread
      \/ \E pc : Goto(t, pc)
      \/ \E pc, scan : thread' = [thread EXCEPT ![t].pc = pc, ![t].scan = scan]
      \/ ~Latched(t) /\ thread' = [thread EXCEPT ![t] = Idle]
  BY Zenon DEF StartSystemOp, CommitStart, CommitUnlock, AbortStart, AbortUnlock, AbortEnd, FinishStart, At
<1>3. Len(log') \in Nat /\ Len(log) <= Len(log')
  BY <1>1 DEF RInv, Shape
<1>4. ThreadsMove
  BY Zenon, <1>2, <1>3, ThreadSteps
<1> QED BY Zenon, <1>1, <1>4, QuietSame, QuietKeeps

\* The actions that force the log for a record appended before.
LEMMA TranFlushes ==
  ASSUME RInv, NEW t \in Tran, CommitEnd(t) \/ PrepareEnd(t)
  PROVE  RInv'
<1>1. log' = log /\ Flush(thread[t].lsa) /\ UNCHANGED <<chkptLsa, disk, buf, image, chk, phase, pos>>
  BY Zenon DEF CommitEnd, PrepareEnd
<1>2. (\E pc : Goto(t, pc)) \/ (~Latched(t) /\ thread' = [thread EXCEPT ![t] = Idle])
  BY Zenon DEF CommitEnd, PrepareEnd, At
<1>3. Len(log') \in Nat /\ Len(log) <= Len(log') /\ thread[t].lsa \in 0..Len(log)
  BY <1>1 DEF RInv, Shape, ThreadShape
<1>4. ThreadsMove
  BY Zenon, <1>2, <1>3, ThreadSteps
<1> QED BY Zenon, <1>1, <1>3, <1>4, QuietSame, QuietKeeps

\* The actions that append one record that redo does not look at.
LEMMA TranAppends ==
  ASSUME RInv, NEW t \in Tran, NEW r, r.type \notin Redoable, log' = Append(log, r),
         \/ thread' = thread
         \/ \E pc : Goto(t, pc)
         \/ \E pc, scan : thread' = [thread EXCEPT ![t].pc = pc, ![t].scan = scan]
         \/ ~Latched(t) /\ thread' = [thread EXCEPT ![t] = Idle]
         \/ ~Latched(t) /\ \E pc : GotoWith(t, pc, NextLsa),
         flushed' = flushed \/ Flush(NextLsa),
         UNCHANGED <<chkptLsa, disk, buf, image, chk, phase, pos>>
  PROVE  RInv'
<1>1. log \in Seq(Elements(log)) /\ Len(log) \in Nat
  BY DEF RInv, Shape
<1>2. Len(log') \in Nat /\ Len(log) <= Len(log') /\ NextLsa <= Len(log')
  BY <1>1, AppendFacts DEF NextLsa
<1>3. ThreadsMove
  BY Zenon, <1>2, ThreadSteps
<1> QED BY Zenon, <1>3, QuietAppend, QuietKeeps

\* The actions that append one record which redo does not look at.
LEMMA AppendActions ==
  ASSUME RInv, NEW t \in Tran,
         \/ CommitPostpone(t) \/ CommitAppend(t) \/ AbortTopope(t) \/ AbortAppend(t)
         \/ PrepareAppend(t) \/ FinishEnd(t) \/ UndoNothing(t)
  PROVE  RInv'
<1>1. UNCHANGED <<chkptLsa, disk, buf, image, chk, phase, pos>> /\ (flushed' = flushed \/ Flush(NextLsa))
  BY Zenon DEF CommitPostpone, CommitAppend, AbortTopope, TopResult, AbortAppend, PrepareAppend,
               FinishEnd, UndoNothing, UndoComplete
<1>2. \/ thread' = thread
      \/ \E pc : Goto(t, pc)
      \/ \E pc, scan : thread' = [thread EXCEPT ![t].pc = pc, ![t].scan = scan]
      \/ ~Latched(t) /\ thread' = [thread EXCEPT ![t] = Idle]
      \/ ~Latched(t) /\ \E pc : GotoWith(t, pc, NextLsa)
  BY Zenon DEF CommitPostpone, CommitAppend, AbortTopope, AbortAppend, PrepareAppend, FinishEnd,
               UndoNothing, At
<1>3. \/ log' = Append(log, WithPostpone(t)) \/ log' = Append(log, TopEnd("ABORT_TOPOPE", t))
      \/ log' = Append(log, Record("COMMIT", t)) \/ log' = Append(log, Record("ABORT", t))
      \/ log' = Append(log, Prepare(t))
  BY Zenon DEF CommitPostpone, CommitAppend, AbortTopope, TopResult, AbortAppend, PrepareAppend,
               FinishEnd, UndoNothing, UndoComplete
<1>4. PICK r : r.type \notin Redoable /\ log' = Append(log, r)
  BY Zenon, <1>3 DEF WithPostpone, TopEnd, Record, Prepare, Redoable
<1> QED BY Zenon, <1>1, <1>2, <1>4, TranAppends

\* The end of a system operation.
LEMMA EndSystemOpStep ==
  ASSUME RInv, NEW t \in Tran, EndSystemOp(t)
  PROVE  RInv'
<1>1. flushed' = flushed /\ UNCHANGED <<chkptLsa, disk, buf, image, chk, phase, pos>>
  BY Zenon DEF EndSystemOp
<1>2. thread' = thread \/ \E pc : Goto(t, pc)
  BY Zenon DEF EndSystemOp
<1>3. log' = log \/ log' = Append(log, TopEnd("COMMIT_TOPOPE", t))
  BY Zenon DEF EndSystemOp, TopResult
<1>4. CASE log' = log
  <2>1. Len(log') \in Nat /\ Len(log) <= Len(log')
    BY <1>4 DEF RInv, Shape
  <2>2. ThreadsMove
    BY Zenon, <1>2, <2>1, ThreadSteps
  <2> QED BY Zenon, <1>1, <1>4, <2>2, QuietSame, QuietKeeps
<1>5. CASE log' = Append(log, TopEnd("COMMIT_TOPOPE", t))
  <2>1. TopEnd("COMMIT_TOPOPE", t).type \notin Redoable
    BY Zenon DEF TopEnd, Redoable
  <2> QED BY Zenon, <1>1, <1>2, <1>5, <2>1, TranAppends
<1> QED BY Zenon, <1>3, <1>4, <1>5

\* A postpone appends its record, and before it a head when it is the first.
LEMMA PostponeStep ==
  ASSUME RInv, NEW t \in Tran, NEW p \in Page, Postpone(t, p)
  PROVE  RInv'
<1> DEFINE head == IF tdes[t].tail = 0 THEN Append(log, Record("DUMMY_HEAD_POSTPONE", t)) ELSE log
<1>1. /\ flushed' = flushed /\ thread' = thread
      /\ UNCHANGED <<chkptLsa, disk, buf, image, chk, phase, pos>>
  BY Zenon DEF Postpone
<1>2. PICK r : r.type = "POSTPONE" /\ log' = Append(head, r)
  BY DEF Postpone
<1>3. log \in Seq(Elements(log)) /\ Len(log) \in Nat /\ flushed \in 0..Len(log)
  BY DEF RInv, Shape
<1>4. /\ head \in Seq(Elements(head)) /\ Len(head) \in Nat /\ Len(log) <= Len(head)
      /\ \A i \in 1..Len(log) : head[i] = log[i]
      /\ \A i \in 1..Len(head) : i > Len(log) => head[i].type \notin Redoable
  <2>1. Record("DUMMY_HEAD_POSTPONE", t).type \notin Redoable
    BY Zenon DEF Record, Redoable
  <2>2. CASE tdes[t].tail = 0
    BY <1>3, <2>1, <2>2, AppendFacts
  <2>3. CASE tdes[t].tail # 0
    BY <1>3, <2>3
  <2> QED BY Zenon, <2>2, <2>3
<1>5. LogGrows
  <2> HIDE DEF head
  <2>1. r.type \notin Redoable
    BY Zenon, <1>2 DEF Redoable
  <2> QED BY <1>2, <1>3, <1>4, <2>1, AppendFacts DEF LogGrows
<1>6. Len(log') \in Nat /\ Len(log) <= Len(log')
  BY <1>3, <1>5 DEF LogGrows
<1>7. ThreadsMove
  BY Zenon, <1>1, <1>6, ThreadSteps
<1>8. Quiet
  BY <1>1, <1>3, <1>5, <1>6, <1>7 DEF Quiet
<1> QED BY Zenon, <1>1, <1>8, QuietKeeps

-----------------------------------------------------------------------------
BufField == {"val", "ran", "lsa", "dirty", "oldest", "latch"}

\* Executing a record changes what the page holds and not its bookkeeping.
LEMMA ExecutedFacts ==
  ASSUME NEW b, NEW i, NEW r, r.type \in Redoable, DOMAIN b = BufField
  PROVE  LET e == Executed(b, i, r)
         IN /\ DOMAIN e = BufField
            /\ e.lsa = b.lsa /\ e.dirty = b.dirty /\ e.oldest = b.oldest /\ e.latch = b.latch
<1>1. CASE r.type = "UNDOREDO"
  BY Zenon, <1>1 DEF Executed, BufField
<1>2. CASE r.type = "COMPENSATE"
  BY Zenon, <1>2 DEF Executed, BufField
<1>3. CASE r.type = "RUN_POSTPONE"
  BY Zenon, <1>3 DEF Executed, BufField
<1> QED BY Zenon, <1>1, <1>2, <1>3 DEF Redoable

\* pgbuf_set_lsa on such a page.
LEMMA SetLsaFacts ==
  ASSUME NEW b, NEW lsa, DOMAIN b = BufField
  PROVE  LET e == SetLsa(b, lsa)
         IN /\ DOMAIN e = BufField
            /\ e.lsa = lsa /\ e.dirty = TRUE /\ e.latch = b.latch
            /\ e.oldest = IF b.oldest = 0 THEN lsa ELSE b.oldest
BY Zenon DEF SetLsa, BufField

\* A redoable record appended: the change of its page, and of no other page.
LEMMA ChangesGrow ==
  ASSUME Shape, NEW r, log' = Append(log, r), NEW p \in Page
  PROVE  /\ \A i \in ChangesOf(p)' : i \in ChangesOf(p) \/ (i = NextLsa /\ r.page = p)
         /\ ChangesOf(p) \subseteq 1..Len(log)
<1>1. log \in Seq(Elements(log)) /\ Len(log) \in Nat
  BY DEF Shape
<1>2. /\ log' \in Seq(Elements(log')) /\ Len(log') = Len(log) + 1
      /\ \A i \in 1..Len(log) : log'[i] = log[i]
      /\ log'[Len(log) + 1] = r
  BY <1>1, AppendFacts
<1>3. DOMAIN log = 1..Len(log) /\ DOMAIN log' = 1..(Len(log) + 1)
  BY <1>1, <1>2
<1> QED BY <1>1, <1>2, <1>3 DEF ChangesOf, NextLsa

\* A record of a change is appended and its page changed under the latch.
LEMMA ChangeStep ==
  ASSUME RInv, NEW t \in Tran, phase \in {"up", "postpone"}, ~Latched(t),
         NEW q, NEW r, NEW scan, r.type \in Redoable, r.page = q, Change(t, q, r, scan),
         UNCHANGED <<flushed, chkptLsa, disk, image, chk, phase, pos>>
  PROVE  RInv'
<1>1. /\ buf[q].latch = NoTran /\ log' = Append(log, r)
      /\ buf' = [buf EXCEPT ![q] = [Executed(buf[q], NextLsa, r) EXCEPT !.latch = t]]
      /\ thread' = [thread EXCEPT ![t].lsa = NextLsa, ![t].scan = scan]
  BY Zenon DEF Change
<1>2. /\ log \in Seq(Elements(log)) /\ Len(log) \in Nat /\ flushed \in 0..Len(log)
      /\ DOMAIN thread = Tran /\ DOMAIN buf = Page
  BY DEF RInv, Shape
<1>3. log' \in Seq(Elements(log')) /\ Len(log') = Len(log) + 1
  BY Zenon, <1>1, <1>2, AppendFacts
<1>4. ASSUME NEW u \in Tran
      PROVE  ThreadShape(u)' /\ (u # t => thread'[u] = thread[u]) /\ (u = t => thread'[u].lsa = NextLsa)
  <2>1. ThreadShape(u)
    BY Zenon DEF RInv, Shape
  <2>2. CASE u = t
    <3>1. thread'[u] = [thread[u] EXCEPT !.lsa = NextLsa, !.scan = scan]
      BY Zenon, <1>1, <1>2, <2>2
    <3>2. DOMAIN thread'[u] = DOMAIN thread[u] /\ thread'[u].lsa = NextLsa
      BY Zenon, <2>1, <3>1 DEF ThreadShape
    <3> QED BY <1>2, <1>3, <2>1, <2>2, <3>2 DEF ThreadShape, NextLsa
  <2>3. CASE u # t
    <3>1. thread'[u] = thread[u]
      BY Zenon, <1>1, <1>2, <2>3
    <3> QED BY <1>2, <1>3, <2>1, <2>3, <3>1 DEF ThreadShape
  <2> QED BY Zenon, <2>2, <2>3
<1>5. ASSUME NEW p \in Page
      PROVE  /\ p # q => buf'[p] = buf[p]
             /\ p = q => /\ DOMAIN buf'[p] = BufField /\ buf'[p].latch = t
                         /\ buf'[p].lsa = buf[p].lsa /\ buf'[p].dirty = buf[p].dirty
                         /\ buf'[p].oldest = buf[p].oldest
  <2>1. CASE p # q
    BY Zenon, <1>1, <1>2, <2>1
  <2>2. CASE p = q
    <3> DEFINE e == Executed(buf[p], NextLsa, r)
    <3>1. PageShape(p) /\ DOMAIN buf[p] = BufField
      BY Zenon DEF RInv, Shape, PageShape, BufField
    <3>2. /\ DOMAIN e = BufField
          /\ e.lsa = buf[p].lsa /\ e.dirty = buf[p].dirty /\ e.oldest = buf[p].oldest
      BY <3>1, ExecutedFacts
    <3>3. buf'[p] = [e EXCEPT !.latch = t]
      BY Zenon, <1>1, <1>2, <2>2
    <3> HIDE DEF e
    <3> QED BY Zenon, <2>2, <3>2, <3>3 DEF BufField
  <2> QED BY Zenon, <2>1, <2>2
<1>6. Shape'
  <2>1. DOMAIN thread' = Tran /\ DOMAIN buf' = Page
    BY Zenon, <1>1, <1>2
  <2>2. ASSUME NEW p \in Page
        PROVE  PageShape(p)'
    <3>1. PageShape(p)
      BY Zenon DEF RInv, Shape
    <3> QED BY Zenon, <1>5, <3>1 DEF PageShape, BufField
  <2> QED BY <1>2, <1>3, <1>4, <2>1, <2>2 DEF RInv, Shape
<1>7. ASSUME NEW p \in Page
      PROVE  PageInv(p)'
  <2>1. PageInv(p) /\ PageShape(p)
    BY Zenon DEF RInv, Shape
  <2>2. /\ buf'[p].lsa = buf[p].lsa /\ buf'[p].dirty = buf[p].dirty
        /\ buf'[p].oldest = buf[p].oldest
        /\ buf'[p].latch = IF p = q THEN t ELSE buf[p].latch
    BY Zenon, <1>5
  <2>3. p # q /\ buf[p].latch # NoTran => buf[p].latch # t /\ thread'[buf[p].latch] = thread[buf[p].latch]
    BY Zenon, <1>4, <2>1 DEF PageShape, Latched
  <2>4. p = q => thread'[buf'[p].latch].lsa = NextLsa
    BY Zenon, <1>4, <2>2
  <2>5. t # NoTran
    BY Zenon, RecoveryAssumption
  <2>6. PageOrder(p)'
    BY <1>1, <1>2, <1>3, <2>1, <2>2, <2>3, <2>4 DEF PageInv, PageOrder, LsaOrder, PageShape, NextLsa
  <2>7. PageRestart(p)'
    BY Zenon, <2>1, <2>2 DEF PageInv, PageRestart
  <2>8. \A i \in ChangesOf(p)' : i \in ChangesOf(p) \/ (i = NextLsa /\ p = q)
    BY Zenon, <1>1, ChangesGrow DEF RInv
  <2>9. PageChkpt(p)'
    BY <1>2, <2>1, <2>8 DEF PageInv, PageChkpt, RInv, Shape, NextLsa
  <2>10. ASSUME NEW i \in ChangesOf(p)'
         PROVE  Held(p, i)' /\ (i < chkptLsa' => i <= disk'[p].lsa)
    <3>1. CASE i \in ChangesOf(p)
      <4>1. Held(p, i) /\ (i < chkptLsa => i <= disk[p].lsa)
        BY Zenon, <2>1, <3>1 DEF PageInv
      <4>2. buf[p].latch # NoTran => p # q
        BY Zenon, <1>1
      <4> QED BY Zenon, <2>2, <2>3, <4>1, <4>2 DEF Held
    <3>2. CASE i = NextLsa /\ p = q
      <4>1. Held(p, i)'
        BY Zenon, <2>2, <2>4, <2>5, <3>2 DEF Held
      <4>2. ~(i < chkptLsa')
        BY <1>2, <3>2 DEF NextLsa, RInv, Shape
      <4> QED BY Zenon, <4>1, <4>2
    <3> QED BY Zenon, <2>8, <3>1, <3>2
  <2> QED BY Zenon, <2>6, <2>7, <2>9, <2>10 DEF PageInv
<1> QED BY Zenon, <1>6, <1>7 DEF RInv

\* The actions that change a page: an update, a compensation, a run postpone.
LEMMA ChangeActions ==
  ASSUME RInv, NEW t \in Tran,
         RunPostpone(t) \/ Rollback(t) \/ \E p \in Page : Update(t, p)
  PROVE  RInv'
<1>1. CASE RunPostpone(t)
  <2> DEFINE i == NextPostpone(t)
  <2>1. /\ phase \in {"up", "postpone"} /\ ~Latched(t) /\ Change(t, log[i].page, RunOf(t, i), i + 1)
        /\ UNCHANGED <<flushed, chkptLsa, disk, image, chk, phase, pos>>
    BY Zenon, <1>1 DEF RunPostpone, At
  <2>2. RunOf(t, i).type \in Redoable /\ RunOf(t, i).page = log[i].page
    BY Zenon DEF RunOf, Redoable
  <2> HIDE DEF i
  <2> QED BY Zenon, <2>1, <2>2, ChangeStep
<1>2. CASE \E p \in Page : Update(t, p)
  <2>1. PICK p \in Page : Update(t, p)
    BY Zenon, <1>2
  <2>2. /\ phase = "up" /\ ~Latched(t) /\ Change(t, p, UndoRedo(t, p), 0)
        /\ UNCHANGED <<flushed, chkptLsa, disk, image, chk, phase, pos>>
    BY Zenon, <2>1 DEF Update, Active, Running, At
  <2>3. UndoRedo(t, p).type \in Redoable /\ UndoRedo(t, p).page = p
    BY Zenon DEF UndoRedo, Redoable
  <2>4. phase \in {"up", "postpone"}
    BY Zenon, <2>2
  <2> QED BY Zenon, <2>2, <2>3, <2>4, ChangeStep
<1>3. CASE Rollback(t)
  <2> DEFINE i == tdes[t].undo
  <2>1. /\ phase = "up" /\ ~Latched(t)
        /\ UNCHANGED <<flushed, chkptLsa, disk, image, chk, phase, pos>>
        /\ Change(t, log[i].page, Compensation(t, i), 0) \/ UNCHANGED <<log, buf, thread>>
    BY Zenon, <1>3 DEF Rollback, Running, At
  <2>2. CASE UNCHANGED <<log, buf, thread>>
    <3>1. log' = log /\ thread' = thread /\ buf' = buf
      BY Zenon, <2>2
    <3>2. Len(log') \in Nat /\ Len(log) <= Len(log')
      BY <3>1 DEF RInv, Shape
    <3>3. ThreadsMove
      BY Zenon, <3>1, <3>2, ThreadSteps
    <3> QED BY Zenon, <2>1, <3>1, <3>3, QuietSame, QuietKeeps
  <2>3. CASE Change(t, log[i].page, Compensation(t, i), 0)
    <3>1. Compensation(t, i).type \in Redoable /\ Compensation(t, i).page = log[i].page
      BY Zenon DEF Compensation, Redoable
    <3>2. phase \in {"up", "postpone"}
      BY Zenon, <2>1
    <3> HIDE DEF i
    <3> QED BY Zenon, <2>1, <2>3, <3>1, <3>2, ChangeStep
  <2> QED BY Zenon, <2>1, <2>2, <2>3
<1> QED BY Zenon, <1>1, <1>2, <1>3

-----------------------------------------------------------------------------
\* The LSA of the change in progress becomes that of its page.
LEMMA SetPageLsaStep ==
  ASSUME RInv, NEW t \in Tran, SetPageLsa(t)
  PROVE  RInv'
<1>1. PICK q \in Page : /\ buf[q].latch = t
                        /\ buf' = [buf EXCEPT ![q] = [SetLsa(buf[q], thread[t].lsa) EXCEPT !.latch = NoTran]]
  BY Zenon DEF SetPageLsa
<1>2. UNCHANGED <<log, flushed, chkptLsa, disk, image, thread, chk, phase, pos>>
  BY Zenon DEF SetPageLsa
<1>3. /\ Len(log) \in Nat /\ flushed \in 0..Len(log) /\ DOMAIN buf = Page /\ t # NoTran
      /\ thread[t].lsa \in 0..Len(log)
  BY RecoveryAssumption DEF RInv, Shape, ThreadShape
<1>4. ASSUME NEW p \in Page
      PROVE  /\ p # q => buf'[p] = buf[p]
             /\ p = q => /\ DOMAIN buf'[p] = BufField /\ buf'[p].latch = NoTran
                         /\ buf'[p].lsa = thread[t].lsa /\ buf'[p].dirty = TRUE
                         /\ buf'[p].oldest = IF buf[p].oldest = 0 THEN thread[t].lsa ELSE buf[p].oldest
  <2>1. CASE p # q
    BY Zenon, <1>1, <1>3, <2>1
  <2>2. CASE p = q
    <3> DEFINE e == SetLsa(buf[p], thread[t].lsa)
    <3>1. DOMAIN buf[p] = BufField
      BY Zenon DEF RInv, Shape, PageShape, BufField
    <3>2. /\ DOMAIN e = BufField /\ e.lsa = thread[t].lsa /\ e.dirty = TRUE
          /\ e.oldest = IF buf[p].oldest = 0 THEN thread[t].lsa ELSE buf[p].oldest
      BY Zenon, <3>1, SetLsaFacts
    <3>3. buf'[p] = [e EXCEPT !.latch = NoTran]
      BY Zenon, <1>1, <1>3, <2>2
    <3> HIDE DEF e
    <3> QED BY Zenon, <2>2, <3>2, <3>3 DEF BufField
  <2> QED BY Zenon, <2>1, <2>2
<1> DEFINE old == buf[q].oldest
<1>q. /\ DOMAIN buf'[q] = BufField /\ buf'[q].latch = NoTran /\ buf'[q].lsa = thread[t].lsa
      /\ buf'[q].oldest = IF old = 0 THEN thread[t].lsa ELSE old
  BY Zenon, <1>4
<1>d. buf'[q].dirty = TRUE
  BY Zenon, <1>4
<1>o. buf[q].lsa < thread[t].lsa /\ buf[q].lsa \in Nat /\ old \in Nat /\ old <= buf[q].lsa
  BY Zenon, <1>1, <1>3 DEF RInv, Shape, PageInv, PageOrder, LsaOrder, PageShape
<1>n. buf'[q].oldest \in Nat /\ buf'[q].oldest # 0 /\ buf'[q].oldest <= thread[t].lsa
  BY <1>3, <1>q, <1>o
<1>5. Shape'
  <2>1. DOMAIN buf' = Page
    BY Zenon, <1>1, <1>3
  <2>2. ASSUME NEW p \in Page
        PROVE  PageShape(p)'
    <3>1. PageShape(p)
      BY Zenon DEF RInv, Shape
    <3>2. CASE p # q
      BY Zenon, <1>2, <1>4, <3>1, <3>2 DEF PageShape
    <3>3. CASE p = q
      <4>1. /\ DOMAIN buf'[p] = BufField /\ buf'[p].latch = NoTran
            /\ buf'[p].lsa \in Nat /\ buf'[p].oldest \in Nat
        BY <1>3, <1>q, <1>n, <3>3
      <4>2. buf'[p].dirty \in BOOLEAN
        BY Zenon, <1>d, <3>3
      <4> QED BY Zenon, <1>2, <3>1, <4>1, <4>2 DEF PageShape, BufField
    <3> QED BY Zenon, <3>2, <3>3
  <2>3. \A u \in Tran : ThreadShape(u)'
    BY Zenon, <1>2 DEF RInv, Shape, ThreadShape
  <2> QED BY Zenon, <1>2, <2>1, <2>2, <2>3 DEF RInv, Shape
<1>6. ASSUME NEW p \in Page
      PROVE  PageInv(p)'
  <2>1. PageInv(p) /\ PageShape(p)
    BY Zenon DEF RInv, Shape
  <2>2. ChangesOf(p)' = ChangesOf(p)
    BY Zenon, <1>2 DEF ChangesOf
  <2>3. CASE p # q
    BY Zenon, <1>2, <1>4, <2>1, <2>2, <2>3 DEF PageInv, PageOrder, LsaOrder, PageRestart, PageChkpt, Held
  <2>4. CASE p = q
    <3>1. buf[p].lsa < thread[t].lsa /\ phase \notin {"down", "redo"}
      BY Zenon, <1>1, <1>3, <2>1, <2>4 DEF PageInv, PageOrder, LsaOrder, PageRestart
    <3>2. PageOrder(p)'
      <4>1. /\ buf'[p].lsa = thread[t].lsa /\ buf'[p].latch = NoTran
            /\ buf'[p].oldest # 0 /\ buf'[p].oldest <= buf'[p].lsa
        BY Zenon, <1>q, <1>n, <2>4
      <4> QED BY <1>2, <1>3, <2>1, <3>1, <4>1 DEF PageInv, PageOrder, LsaOrder, PageShape
    <3>3. PageRestart(p)'
      BY Zenon, <1>2, <1>4, <2>1, <2>4, <3>1 DEF PageInv, PageRestart
    <3>4. PageChkpt(p)'
      BY Zenon, <1>2, <2>1, <2>2 DEF PageInv, PageChkpt
    <3>5. ASSUME NEW i \in ChangesOf(p)'
          PROVE  Held(p, i)' /\ (i < chkptLsa' => i <= disk'[p].lsa)
      <4>1. Held(p, i) /\ (i < chkptLsa => i <= disk[p].lsa) /\ i \in Nat
        BY <2>1, <2>2 DEF PageInv, ChangesOf, RInv, Shape
      <4>2. /\ buf'[p].dirty /\ buf'[p].lsa = thread[t].lsa
            /\ buf'[p].oldest = IF buf[p].oldest = 0 THEN thread[t].lsa ELSE buf[p].oldest
        BY Zenon, <1>q, <1>d, <2>4
      <4>3. CASE buf[p].dirty /\ buf[p].oldest <= i /\ i <= buf[p].lsa
        BY <1>2, <1>3, <2>1, <3>1, <4>1, <4>2, <4>3 DEF Held, PageInv, PageOrder, LsaOrder, PageShape
      <4>4. CASE thread[t].lsa = i
        BY <1>2, <1>3, <2>1, <3>1, <4>1, <4>2, <4>4 DEF Held, PageInv, PageOrder, LsaOrder, PageShape
      <4>5. CASE i <= disk[p].lsa \/ (image[p] # NoImage /\ i <= image[p].lsa)
        BY Zenon, <1>2, <4>1, <4>5 DEF Held
      <4> QED BY Zenon, <1>1, <2>4, <3>1, <4>1, <4>3, <4>4, <4>5 DEF Held
    <3> QED BY Zenon, <3>2, <3>3, <3>4, <3>5 DEF PageInv
  <2> QED BY <2>3, <2>4
<1> QED BY Zenon, <1>2, <1>5, <1>6 DEF RInv

-----------------------------------------------------------------------------
\* A page is copied and declared clean.
LEMMA FlushStartStep ==
  ASSUME RInv, NEW q \in Page, FlushStart(q)
  PROVE  RInv'
<1>1. /\ phase # "down" /\ buf[q].dirty /\ buf[q].latch = NoTran /\ image[q] = NoImage
      /\ image' = [image EXCEPT ![q] = OnDisk(buf[q])]
      /\ buf' = [buf EXCEPT ![q].dirty = FALSE, ![q].oldest = 0]
      /\ UNCHANGED <<log, flushed, chkptLsa, disk, thread, chk, phase, pos>>
  BY Zenon DEF FlushStart
<1>2. DOMAIN buf = Page /\ DOMAIN image = Page /\ Len(log) \in Nat /\ \A p \in Page : PageShape(p)
  BY DEF RInv, Shape
<1>3. \A p \in Page : p # q => buf'[p] = buf[p] /\ image'[p] = image[p]
  BY Zenon, <1>1, <1>2
<1>4. buf'[q] = [buf[q] EXCEPT !.dirty = FALSE, !.oldest = 0]
  BY Zenon, <1>1, <1>2
<1>5. /\ DOMAIN buf'[q] = BufField /\ buf'[q].lsa = buf[q].lsa /\ buf'[q].oldest = 0
      /\ buf'[q].latch = NoTran
  BY <1>1, <1>2, <1>4 DEF PageShape, BufField
<1>6. buf'[q].dirty = FALSE
  BY Zenon, <1>2, <1>4 DEF PageShape
<1>7. image'[q].lsa = buf[q].lsa /\ image'[q] # NoImage
  <2>1. image'[q] = OnDisk(buf[q])
    BY Zenon, <1>1, <1>2
  <2>2. image'[q].lsa = buf[q].lsa
    BY <2>1 DEF OnDisk
  <2> QED BY <1>2, <2>2 DEF PageShape, NoImage
<1>8. Shape'
  <2>1. DOMAIN buf' = Page /\ DOMAIN image' = Page
    BY Zenon, <1>1, <1>2
  <2>2. ASSUME NEW p \in Page
        PROVE  PageShape(p)'
    <3>1. CASE p # q
      BY Zenon, <1>1, <1>2, <1>3, <3>1 DEF PageShape
    <3>2. CASE p = q
      <4>1. buf'[p].dirty \in BOOLEAN
        BY Zenon, <1>6, <3>2
      <4> QED BY Zenon, <1>1, <1>2, <1>5, <1>7, <3>2, <4>1 DEF PageShape, BufField
    <3> QED BY Zenon, <3>1, <3>2
  <2>3. \A u \in Tran : ThreadShape(u)'
    BY Zenon, <1>1 DEF RInv, Shape, ThreadShape
  <2> QED BY Zenon, <1>1, <2>1, <2>2, <2>3 DEF RInv, Shape
<1>9. ASSUME NEW p \in Page
      PROVE  PageInv(p)'
  <2>1. PageInv(p) /\ PageShape(p)
    BY Zenon DEF RInv, Shape
  <2>2. ChangesOf(p)' = ChangesOf(p)
    BY Zenon, <1>1 DEF ChangesOf
  <2>3. CASE p # q
    BY Zenon, <1>1, <1>3, <2>1, <2>2, <2>3 DEF PageInv, PageOrder, LsaOrder, PageRestart, PageChkpt, Held
  <2>4. CASE p = q
    <3>1. PageOrder(p)'
      BY <1>1, <1>2, <1>5, <1>6, <1>7, <2>1, <2>4 DEF PageInv, PageOrder, LsaOrder, PageShape
    <3>2. PageRestart(p)'
      BY Zenon, <1>1, <1>5, <2>1, <2>4 DEF PageInv, PageRestart
    <3>3. PageChkpt(p)'
      BY Zenon, <1>1, <2>1, <2>2 DEF PageInv, PageChkpt
    <3>4. \A i \in ChangesOf(p)' : Held(p, i)' /\ (i < chkptLsa' => i <= disk'[p].lsa)
      BY Zenon, <1>1, <1>7, <2>1, <2>2, <2>4 DEF PageInv, Held
    <3> QED BY Zenon, <3>1, <3>2, <3>3, <3>4 DEF PageInv
  <2> QED BY <2>3, <2>4
<1> QED BY Zenon, <1>1, <1>8, <1>9 DEF RInv

\* The copy is written, with the log forced up to it.
LEMMA FlushEndStep ==
  ASSUME RInv, NEW q \in Page, FlushEnd(q)
  PROVE  RInv'
<1>1. /\ image[q] # NoImage /\ Flush(image[q].lsa)
      /\ disk' = [disk EXCEPT ![q] = image[q]]
      /\ image' = [image EXCEPT ![q] = NoImage]
      /\ UNCHANGED <<log, chkptLsa, buf, thread, chk, phase, pos>>
  BY Zenon DEF FlushEnd
<1>2. /\ DOMAIN disk = Page /\ DOMAIN image = Page /\ Len(log) \in Nat /\ flushed \in 0..Len(log)
      /\ \A p \in Page : PageShape(p) /\ PageOrder(p)
  BY DEF RInv, Shape, PageInv
<1>3. image[q].lsa \in 0..Len(log) /\ disk[q].lsa <= image[q].lsa
  BY <1>1, <1>2 DEF PageShape, PageOrder, LsaOrder
<1>4. flushed' \in flushed..Len(log) /\ image[q].lsa <= flushed'
  BY <1>1, <1>2, <1>3, FlushFacts
<1>5. /\ \A p \in Page : p # q => disk'[p] = disk[p] /\ image'[p] = image[p]
      /\ disk'[q].lsa = image[q].lsa /\ image'[q] = NoImage
  BY Zenon, <1>1, <1>2
<1>6. Shape'
  <2>1. \A p \in Page : PageShape(p)'
    BY Zenon, <1>1, <1>2, <1>3, <1>5 DEF PageShape
  <2>2. \A u \in Tran : ThreadShape(u)'
    BY Zenon, <1>1 DEF RInv, Shape, ThreadShape
  <2>3. DOMAIN disk' = Page /\ DOMAIN image' = Page
    BY Zenon, <1>1, <1>2
  <2> QED BY <1>1, <1>2, <1>4, <2>1, <2>2, <2>3 DEF RInv, Shape
<1>7. ASSUME NEW p \in Page
      PROVE  PageInv(p)'
  <2>1. PageInv(p) /\ PageShape(p)
    BY DEF RInv, Shape
  <2>2. ChangesOf(p)' = ChangesOf(p) /\ ChangesOf(p) \subseteq Nat
    BY <1>1 DEF ChangesOf, RInv, Shape
  <2>8. /\ buf' = buf /\ log' = log /\ thread' = thread /\ phase' = phase /\ pos' = pos
        /\ chk' = chk /\ chkptLsa' = chkptLsa
    BY Zenon, <1>1
  <2>3. disk'[p].lsa \in Nat /\ disk[p].lsa <= disk'[p].lsa /\ disk'[p].lsa <= buf[p].lsa
    BY <1>1, <1>2, <1>3, <1>5 DEF PageShape, PageOrder, LsaOrder
  <2>4. PageOrder(p)'
    <3>1. LsaOrder(p) /\ flushed \in Nat /\ flushed' \in Nat /\ flushed <= flushed'
      BY <1>2, <1>4, <2>1 DEF PageInv, PageOrder
    <3>2. ASSUME p # q PROVE LsaOrder(p)'
      <4>1. disk'[p].lsa <= flushed'
        BY <1>5, <2>3, <3>1, <3>2 DEF LsaOrder
      <4> QED BY Zenon, <1>5, <2>8, <3>1, <3>2, <4>1 DEF LsaOrder
    <3>3. ASSUME p = q PROVE LsaOrder(p)'
      <4>1. disk'[p].lsa <= flushed' /\ image'[p] = NoImage
        BY Zenon, <1>4, <1>5, <3>3
      <4> QED BY Zenon, <2>3, <2>8, <3>1, <4>1 DEF LsaOrder
    <3>4. buf'[p].dirty => buf'[p].oldest # 0
      BY Zenon, <2>1, <2>8 DEF PageInv, PageOrder
    <3> QED BY Zenon, <3>2, <3>3, <3>4 DEF PageOrder
  <2>5. PageRestart(p)'
    <3>1. phase = "down" => image'[p] = NoImage /\ buf[p].lsa = disk'[p].lsa
      BY Zenon, <1>1, <1>5, <2>1 DEF PageInv, PageRestart
    <3>2. buf[p].lsa = disk[p].lsa => buf[p].lsa = disk'[p].lsa
      BY <2>1, <2>3 DEF PageShape
    <3> QED BY Zenon, <2>1, <2>8, <3>1, <3>2 DEF PageInv, PageRestart
  <2>6. PageChkpt(p)'
    <3>1. \A i \in ChangesOf(p) : i <= disk[p].lsa => i <= disk'[p].lsa
      BY <2>1, <2>2, <2>3 DEF PageShape
    <3> QED BY Zenon, <2>1, <2>2, <2>8, <3>1 DEF PageInv, PageChkpt
  <2>7. ASSUME NEW i \in ChangesOf(p)'
        PROVE  Held(p, i)' /\ (i < chkptLsa' => i <= disk'[p].lsa)
    BY <1>1, <1>5, <2>1, <2>2, <2>3 DEF PageInv, Held, PageShape
  <2> QED BY Zenon, <2>4, <2>5, <2>6, <2>7 DEF PageInv
<1> QED BY Zenon, <1>1, <1>6, <1>7 DEF RInv

-----------------------------------------------------------------------------
\* The start, the table and the end of a checkpoint.
LEMMA ChkptSteps ==
  ASSUME RInv, ChkptStart \/ ChkptEnd
  PROVE  RInv'
<1>1. /\ log \in Seq(Elements(log)) /\ Len(log) \in Nat /\ flushed \in 0..Len(log)
      /\ DOMAIN chk = {"pc", "new", "todo"} /\ chk.new \in 0..flushed
  BY DEF RInv, Shape
<1>2. CASE ChkptStart
  <2>1. /\ log' = Append(log, [type |-> "START_CHKPT", tran |-> NoTran]) /\ Flush(NextLsa)
        /\ chk' = [pc |-> "flush", new |-> NextLsa, todo |-> Page]
        /\ UNCHANGED <<chkptLsa, disk, buf, image, thread, phase, pos>>
    BY Zenon, <1>2 DEF ChkptStart
  <2>2. phase \in {"up", "checkpoint"}
    BY Zenon, <1>2 DEF ChkptStart, Running
  <2>3. Len(log') = Len(log) + 1 /\ NextLsa \in Nat
    BY Zenon, <1>1, <2>1, AppendFacts DEF NextLsa
  <2>4. [type |-> "START_CHKPT", tran |-> NoTran].type \notin Redoable
    BY Zenon DEF Redoable
  <2>5. ThreadsMove
    BY <1>1, <2>1, <2>3 DEF ThreadsMove, RInv, Shape, ThreadShape
  <2>6. Quiet
    BY Zenon, <2>1, <2>4, <2>5, QuietAppend
  <2>7. DOMAIN chk' = {"pc", "new", "todo"} /\ chk'.new \in 0..flushed' /\ \A p \in Page : PageChkpt(p)'
    <3>1. NextLsa <= flushed' /\ flushed' \in Nat
      BY <1>1, <2>1, <2>3, FlushFacts
    <3> QED BY <2>1, <2>3, <3>1 DEF PageChkpt
  <2> QED BY Zenon, <2>1, <2>2, <2>6, <2>7, QuietStep
<1>3. CASE ChkptEnd
  <2>1. PICK r : /\ r.type = "END_CHKPT" /\ log' = Append(log, r)
                 /\ chk.pc = "flush" /\ chk.todo = {} /\ chk' = [chk EXCEPT !.pc = "header"]
                 /\ UNCHANGED <<flushed, chkptLsa, disk, buf, image, thread, phase, pos>>
    BY Zenon, <1>3 DEF ChkptEnd
  <2>2. r.type \notin Redoable
    BY Zenon, <2>1 DEF Redoable
  <2>3. Len(log') = Len(log) + 1
    BY Zenon, <1>1, <2>1, AppendFacts
  <2>4. ThreadsMove
    BY <1>1, <2>1, <2>3 DEF ThreadsMove, RInv, Shape, ThreadShape
  <2>5. Quiet
    BY Zenon, <2>1, <2>2, <2>4, QuietAppend
  <2>6. DOMAIN chk' = {"pc", "new", "todo"} /\ chk'.new = chk.new /\ chk'.pc = "header"
    BY Zenon, <1>1, <2>1
  <2>7. \A p \in Page : PageChkpt(p)'
    <3>1. \A p \in Page : ChangesOf(p)' = ChangesOf(p)
      BY Zenon, <2>5, SameChanges DEF RInv, Quiet
    <3> QED BY Zenon, <2>1, <2>6, <3>1 DEF RInv, PageInv, PageChkpt
  <2>8. chk'.pc # "idle" => phase \in {"up", "checkpoint"}
    BY Zenon, <2>1 DEF RInv
  <2>9. chk'.new \in 0..flushed'
    BY Zenon, <1>1, <2>1, <2>6
  <2> QED BY Zenon, <2>5, <2>6, <2>7, <2>8, <2>9, QuietStep
<1> QED BY Zenon, <1>2, <1>3

\* The header names the checkpoint once its pages are on disk.
LEMMA ChkptHeaderStep ==
  ASSUME RInv, ChkptHeader
  PROVE  RInv'
<1>1. /\ chk.pc = "header" /\ Flush(Len(log)) /\ chkptLsa' = chk.new /\ chk' = NoChkpt /\ phase' = "up"
      /\ UNCHANGED <<log, disk, buf, image, thread, pos>>
  BY Zenon DEF ChkptHeader
<1>2. Len(log) \in Nat /\ flushed \in 0..Len(log) /\ chk.new \in 0..flushed
  BY DEF RInv, Shape
<1>3. flushed' = Len(log)
  BY <1>1, <1>2, FlushFacts
<1>4. DOMAIN chk' = {"pc", "new", "todo"} /\ chk'.new = 0 /\ chk'.pc = "idle"
  BY Zenon, <1>1 DEF NoChkpt
<1>5. Shape'
  <2>1. \A p \in Page : PageShape(p)'
    BY Zenon, <1>1 DEF RInv, Shape, PageShape
  <2>2. \A u \in Tran : ThreadShape(u)'
    BY Zenon, <1>1 DEF RInv, Shape, ThreadShape
  <2> QED BY <1>1, <1>2, <1>3, <1>4, <2>1, <2>2 DEF RInv, Shape
<1>6. ASSUME NEW p \in Page
      PROVE  PageInv(p)'
  <2>1. PageInv(p) /\ PageShape(p) /\ phase \in {"up", "checkpoint"}
    BY Zenon, <1>1 DEF RInv, Shape
  <2>2. ChangesOf(p)' = ChangesOf(p)
    BY Zenon, <1>1 DEF ChangesOf
  <2>3. PageOrder(p)'
    BY <1>1, <1>2, <1>3, <2>1 DEF PageInv, PageOrder, LsaOrder, PageShape
  <2>4. PageRestart(p)' /\ PageChkpt(p)'
    BY Zenon, <1>1, <1>4 DEF PageRestart, PageChkpt
  <2>5. \A i \in ChangesOf(p)' : Held(p, i)' /\ (i < chkptLsa' => i <= disk'[p].lsa)
    BY Zenon, <1>1, <2>1, <2>2 DEF PageInv, PageChkpt, Held
  <2> QED BY Zenon, <2>3, <2>4, <2>5 DEF PageInv
<1> QED BY Zenon, <1>1, <1>4, <1>5, <1>6 DEF RInv

\* The checkpoint passes a page or writes it.  It passes no page that is being
\* changed or written: the windows "append" and "write" are closed.
LEMMA ChkptFlushStep ==
  ASSUME RInv, NEW q \in Page, ChkptFlush(q), "append" \notin Races, "write" \notin Races
  PROVE  RInv'
<1>1. /\ chk.pc = "flush" /\ q \in chk.todo /\ image[q] = NoImage
      /\ chk' = [chk EXCEPT !.todo = chk.todo \ {q}]
      /\ UNCHANGED <<log, chkptLsa, image, thread, phase, pos>>
  BY Zenon DEF ChkptFlush
<1>2. /\ Len(log) \in Nat /\ flushed \in 0..Len(log) /\ DOMAIN buf = Page /\ DOMAIN disk = Page
      /\ DOMAIN chk = {"pc", "new", "todo"} /\ chk.new \in 0..flushed
      /\ \A p \in Page : PageShape(p) /\ PageInv(p)
  BY DEF RInv, Shape
<1>3. /\ DOMAIN chk' = {"pc", "new", "todo"} /\ chk'.new = chk.new /\ chk'.pc = "flush"
      /\ chk'.todo = chk.todo \ {q} /\ phase \in {"up", "checkpoint"}
  BY Zenon, <1>1, <1>2 DEF RInv
<1>4. ASSUME NEW p \in Page
      PROVE  ChangesOf(p)' = ChangesOf(p) /\ ChangesOf(p) \subseteq Nat
  BY <1>1 DEF ChangesOf, RInv, Shape
<1>5. CASE ChkptPasses(buf[q]) /\ UNCHANGED <<flushed, disk, buf>>
  <2>1. flushed' = flushed /\ disk' = disk /\ buf' = buf
    BY Zenon, <1>5
  <2>2. Shape'
    <3>1. \A p \in Page : PageShape(p)'
      BY Zenon, <1>1, <1>2, <2>1 DEF PageShape
    <3>2. \A u \in Tran : ThreadShape(u)'
      BY Zenon, <1>1 DEF RInv, Shape, ThreadShape
    <3> QED BY Zenon, <1>1, <1>3, <2>1, <3>1, <3>2 DEF RInv, Shape
  <2>3. \A i \in ChangesOf(q) : i < chk.new => i <= disk[q].lsa
    <3>1. TAKE i \in ChangesOf(q)
    <3>2. Held(q, i) /\ i \in Nat
      BY Zenon, <1>2, <1>4 DEF PageInv
    <3>3. PageShape(q) /\ PageOrder(q)
      BY Zenon, <1>2 DEF PageInv
    <3>4. CASE ~buf[q].dirty /\ buf[q].latch = NoTran
      BY Zenon, <1>1, <1>3, <3>2, <3>4 DEF Held
    <3>5. CASE buf[q].dirty /\ buf[q].oldest > chk.new
      BY <1>1, <1>2, <1>3, <3>2, <3>3, <3>5 DEF Held, PageOrder, LsaOrder, PageShape, RInv, Shape, ThreadShape
    <3> QED BY Zenon, <1>5, <3>4, <3>5 DEF ChkptPasses
  <2>4. ASSUME NEW p \in Page
        PROVE  PageInv(p)'
    <3>1. PageChkpt(p)'
      <4>1. CASE p = q
        BY Zenon, <1>3, <1>4, <2>1, <2>3, <4>1 DEF PageChkpt
      <4>2. CASE p # q
        <5>1. PageChkpt(p) /\ chk'.pc = chk.pc /\ (p \notin chk'.todo => p \notin chk.todo)
          BY Zenon, <1>1, <1>2, <1>3, <4>2 DEF PageInv
        <5> QED BY Zenon, <1>3, <1>4, <2>1, <5>1 DEF PageChkpt
      <4> QED BY Zenon, <4>1, <4>2
    <3>2. PageOrder(p)' /\ PageRestart(p)'
      BY Zenon, <1>1, <1>2, <2>1 DEF PageInv, PageOrder, LsaOrder, PageRestart
    <3> QED BY Zenon, <1>1, <1>2, <1>4, <2>1, <3>1, <3>2 DEF PageInv, Held
  <2> QED BY Zenon, <1>1, <1>3, <2>2, <2>4 DEF RInv
<1>6. CASE /\ buf[q].latch = NoTran /\ Flush(buf[q].lsa)
           /\ disk' = [disk EXCEPT ![q] = OnDisk(buf[q])]
           /\ buf' = [buf EXCEPT ![q].dirty = FALSE, ![q].oldest = 0]
  <2>1. flushed' \in flushed..Len(log) /\ buf[q].lsa <= flushed' /\ buf[q].lsa \in Nat
    BY <1>2, <1>6, FlushFacts DEF PageInv, PageOrder, LsaOrder, PageShape
  <2>2. \A p \in Page : p # q => disk'[p] = disk[p] /\ buf'[p] = buf[p]
    BY Zenon, <1>2, <1>6
  <2>3. disk'[q].lsa = buf[q].lsa
    BY Zenon, <1>2, <1>6 DEF OnDisk
  <2>4. buf'[q] = [buf[q] EXCEPT !.dirty = FALSE, !.oldest = 0]
    BY Zenon, <1>2, <1>6
  <2>5. /\ DOMAIN buf'[q] = BufField /\ buf'[q].lsa = buf[q].lsa /\ buf'[q].oldest = 0
        /\ buf'[q].latch = NoTran
    BY <1>2, <1>6, <2>4 DEF PageShape, BufField
  <2>6. buf'[q].dirty = FALSE
    BY Zenon, <1>2, <2>4 DEF PageShape
  <2>7. Shape'
    <3>1. ASSUME NEW p \in Page
          PROVE  PageShape(p)'
      <4>1. CASE p # q
        BY Zenon, <1>1, <1>2, <2>2, <4>1 DEF PageShape
      <4>2. CASE p = q
        <5>1. buf'[p].dirty \in BOOLEAN
          BY Zenon, <2>6, <4>2
        <5> QED BY <1>1, <1>2, <2>1, <2>3, <2>5, <4>2, <5>1 DEF PageShape, BufField
      <4> QED BY Zenon, <4>1, <4>2
    <3>2. \A u \in Tran : ThreadShape(u)'
      BY <1>1 DEF RInv, Shape, ThreadShape
    <3>3. DOMAIN disk' = Page /\ DOMAIN buf' = Page
      BY Zenon, <1>2, <1>6
    <3>4. chkptLsa' \in 0..flushed' /\ chk'.new \in 0..flushed' /\ flushed' \in 0..Len(log)
      BY <1>1, <1>2, <1>3, <2>1 DEF RInv, Shape
    <3> QED BY Zenon, <1>1, <1>3, <3>1, <3>2, <3>3, <3>4 DEF RInv, Shape
  <2>8. ASSUME NEW i \in ChangesOf(q)
        PROVE  i <= disk'[q].lsa
    <3>1. i <= disk[q].lsa \/ i <= buf[q].lsa
      <4>1. phase # "down" /\ phase # "redo"
        BY Zenon, <1>3
      <4> QED BY Zenon, <1>1, <1>2, <1>6, <4>1 DEF PageInv, Held
    <3>2. disk[q].lsa \in Nat /\ buf[q].lsa \in Nat /\ disk[q].lsa <= buf[q].lsa /\ i \in Nat
      BY Zenon, <1>2, <1>4 DEF PageInv, PageOrder, LsaOrder, PageShape
    <3>3. i <= buf[q].lsa
      BY <3>1, <3>2
    <3> QED BY Zenon, <2>3, <3>3
  <2>9. ASSUME NEW p \in Page
        PROVE  PageInv(p)'
    <3>1. PageChkpt(p)'
      <4>1. CASE p = q
        BY Zenon, <1>4, <2>8, <4>1 DEF PageChkpt
      <4>2. CASE p # q
        <5>1. PageChkpt(p) /\ chk'.pc = chk.pc /\ (p \notin chk'.todo => p \notin chk.todo)
          BY <1>1, <1>2, <1>3, <4>2 DEF PageInv
        <5> QED BY Zenon, <1>3, <1>4, <2>2, <4>2, <5>1 DEF PageChkpt
      <4> QED BY <4>1, <4>2
    <3>2. PageOrder(p)'
      BY <1>1, <1>2, <2>1, <2>2, <2>3, <2>5, <2>6 DEF PageInv, PageOrder, LsaOrder, PageShape
    <3>3. PageRestart(p)'
      BY Zenon, <1>1, <1>2, <1>3, <2>2, <2>5 DEF PageInv, PageRestart
    <3>4. \A i \in ChangesOf(p)' : Held(p, i)' /\ (i < chkptLsa' => i <= disk'[p].lsa)
      BY <1>1, <1>2, <1>4, <2>2, <2>8 DEF PageInv, Held
    <3> QED BY Zenon, <3>1, <3>2, <3>3, <3>4 DEF PageInv
  <2> QED BY <1>1, <1>3, <2>7, <2>9 DEF RInv
<1> QED BY Zenon, <1>5, <1>6 DEF ChkptFlush

-----------------------------------------------------------------------------
\* A crash leaves the pages on disk and at least the forced part of the log.
LEMMA CrashStep ==
  ASSUME RInv, Crash
  PROVE  RInv'
<1>1. PICK k \in flushed..Len(log) : log' = SubSeq(log, 1, k) /\ flushed' = k
  BY Zenon DEF Crash
<1>2. /\ buf' = [p \in Page |-> Buffer(disk[p])] /\ image' = [p \in Page |-> NoImage]
      /\ thread' = [t \in Tran |-> Idle] /\ chk' = NoChkpt /\ phase' = "down" /\ pos' = 0
      /\ chkptLsa' = chkptLsa /\ disk' = disk
  BY Zenon DEF Crash
<1>3. /\ log \in Seq(Elements(log)) /\ Len(log) \in Nat /\ flushed \in 0..Len(log)
      /\ chkptLsa \in 0..flushed /\ DOMAIN disk = Page
  BY DEF RInv, Shape
<1>4. /\ Len(log') = k /\ \A i \in 1..k : log'[i] = log[i]
      /\ log' \in Seq(Elements(log'))
  <2>1. log' \in Seq(Elements(log)) /\ Len(log') = k /\ \A i \in 1..k : log'[i] = log[i]
    <3> DEFINE S == Elements(log)
    <3>1. log \in Seq(S) /\ k \in 0..Len(log)
      BY <1>3
    <3> HIDE DEF S
    <3>2. log' \in Seq(S) /\ Len(log') = k /\ \A i \in 1..k : log'[i] = log[i]
      BY <1>1, <1>3, <3>1
    <3> QED BY Zenon, <3>2 DEF S
  <2> QED BY <2>1 DEF Elements
<1>5. ASSUME NEW p \in Page
      PROVE  /\ DOMAIN buf'[p] = BufField /\ buf'[p].lsa = disk[p].lsa /\ buf'[p].oldest = 0
             /\ buf'[p].latch = NoTran /\ image'[p] = NoImage
  BY Zenon, <1>2 DEF Buffer, BufField
<1>6. \A p \in Page : buf'[p].dirty = FALSE
  BY Zenon, <1>2 DEF Buffer
<1>7. DOMAIN chk' = {"pc", "new", "todo"} /\ chk'.new = 0 /\ chk'.pc = "idle"
  BY Zenon, <1>2 DEF NoChkpt
<1>8. \A p \in Page : disk[p].lsa \in 0..flushed
  BY <1>3 DEF RInv, Shape, PageShape, PageInv, PageOrder, LsaOrder
<1>9. Shape'
  <2>1. ASSUME NEW p \in Page
        PROVE  PageShape(p)'
    <3>1. buf'[p].dirty \in BOOLEAN
      BY Zenon, <1>6
    <3> QED BY <1>2, <1>3, <1>5, <1>8, <3>1 DEF PageShape, BufField
  <2>2. ASSUME NEW u \in Tran
        PROVE  ThreadShape(u)'
    <3>1. DOMAIN thread'[u] = {"pc", "scan", "lsa"} /\ thread'[u].lsa = 0
      BY Zenon, <1>2 DEF Idle
    <3> QED BY <1>3, <1>4, <3>1 DEF ThreadShape
  <2>3. DOMAIN disk' = Page /\ DOMAIN buf' = Page /\ DOMAIN image' = Page /\ DOMAIN thread' = Tran
    BY Zenon, <1>2, <1>3
  <2>4. flushed' \in 0..Len(log') /\ chkptLsa' \in 0..flushed' /\ pos' \in Nat /\ chk'.new \in 0..flushed'
    BY <1>1, <1>2, <1>3, <1>4, <1>7
  <2> QED BY Zenon, <1>4, <1>7, <2>1, <2>2, <2>3, <2>4 DEF Shape
<1>10. ASSUME NEW p \in Page
       PROVE  PageInv(p)'
  <2>1. \A i \in ChangesOf(p)' : i \in ChangesOf(p)
    <3>1. DOMAIN log = 1..Len(log) /\ DOMAIN log' = 1..k
      BY <1>3, <1>4
    <3> QED BY <1>1, <1>3, <1>4, <3>1 DEF ChangesOf
  <2>2. PageOrder(p)'
    BY <1>1, <1>2, <1>3, <1>4, <1>5, <1>6, <1>8 DEF PageOrder, LsaOrder
  <2>3. PageRestart(p)' /\ PageChkpt(p)'
    BY Zenon, <1>2, <1>5, <1>7 DEF PageRestart, PageChkpt
  <2> QED BY Zenon, <1>2, <2>1, <2>2, <2>3 DEF PageInv, Held, RInv
<1> QED BY Zenon, <1>2, <1>7, <1>9, <1>10 DEF RInv

\* Redo starts at the checkpoint of the header.
LEMMA AnalyseStep ==
  ASSUME RInv, Analyse
  PROVE  RInv'
<1>1. /\ phase = "down" /\ phase' = "redo" /\ pos' = StartLsa
      /\ UNCHANGED <<log, flushed, chkptLsa, disk, buf, image, thread, chk>>
  BY Zenon DEF Analyse
<1>2. chkptLsa \in Nat /\ pos' \in Nat /\ pos' > 0
  BY <1>1 DEF StartLsa, RInv, Shape
<1>3. Shape'
  <2>1. \A p \in Page : PageShape(p)'
    BY Zenon, <1>1 DEF RInv, Shape, PageShape
  <2>2. \A u \in Tran : ThreadShape(u)'
    BY Zenon, <1>1 DEF RInv, Shape, ThreadShape
  <2> QED BY Zenon, <1>1, <1>2, <2>1, <2>2 DEF RInv, Shape
<1>4. ASSUME NEW p \in Page
      PROVE  PageInv(p)'
  <2>1. PageInv(p) /\ chk.pc = "idle"
    BY Zenon, <1>1 DEF RInv
  <2>2. ChangesOf(p)' = ChangesOf(p) /\ ChangesOf(p) \subseteq Nat \ {0}
    BY <1>1 DEF ChangesOf, RInv, Shape
  <2>3. PageOrder(p)' /\ PageRestart(p)' /\ PageChkpt(p)'
    BY Zenon, <1>1, <2>1, <2>2 DEF PageInv, PageOrder, LsaOrder, PageRestart, PageChkpt
  <2>4. ASSUME NEW i \in ChangesOf(p)'
        PROVE  Held(p, i)' /\ (i < chkptLsa' => i <= disk'[p].lsa)
    BY <1>1, <1>2, <2>1, <2>2 DEF PageInv, Held, StartLsa
  <2> QED BY Zenon, <2>3, <2>4 DEF PageInv
<1> QED BY Zenon, <1>1, <1>2, <1>3, <1>4 DEF RInv

\* A record is executed on page q, which gets the LSA n: what that does to p.
Executes(q, n, r) ==
  r.type \in Redoable /\ buf' = [buf EXCEPT ![q] = SetLsa(Executed(buf[q], n, r), n)]
Written(p, q, n) ==
  /\ p # q => buf'[p] = buf[p]
  /\ p = q => /\ DOMAIN buf'[p] = BufField /\ buf'[p].lsa = n /\ buf'[p].dirty = TRUE
              /\ buf'[p].latch = buf[p].latch
              /\ buf'[p].oldest = IF buf[p].oldest = 0 THEN n ELSE buf[p].oldest

\* A page that is not q keeps its buffer; q is dirty and has the LSA n.
LEMMA ExecutedPage ==
  ASSUME RInv, NEW q, NEW n, NEW r, Executes(q, n, r), NEW p \in Page
  PROVE  Written(p, q, n)
<1>1. DOMAIN buf = Page /\ DOMAIN buf[p] = BufField
  BY Zenon DEF RInv, Shape, PageShape, BufField
<1>2. CASE p # q
  BY Zenon, <1>1, <1>2 DEF Executes, Written
<1>3. CASE p = q
  <2> DEFINE e == Executed(buf[p], n, r)
  <2>1. /\ DOMAIN e = BufField
        /\ e.lsa = buf[p].lsa /\ e.dirty = buf[p].dirty /\ e.oldest = buf[p].oldest
        /\ e.latch = buf[p].latch
    BY <1>1, ExecutedFacts DEF Executes
  <2>2. buf'[p] = SetLsa(e, n)
    BY Zenon, <1>1, <1>3 DEF Executes
  <2> HIDE DEF e
  <2>3. /\ DOMAIN SetLsa(e, n) = BufField
        /\ SetLsa(e, n).lsa = n /\ SetLsa(e, n).dirty = TRUE /\ SetLsa(e, n).latch = e.latch
        /\ SetLsa(e, n).oldest = IF e.oldest = 0 THEN n ELSE e.oldest
    BY Zenon, <2>1, SetLsaFacts
  <2> QED BY Zenon, <1>3, <2>1, <2>2, <2>3 DEF Written
<1> QED BY Zenon, <1>2, <1>3

\* Redo executes a record unless its page already has it.
LEMMA RedoStep ==
  ASSUME RInv, Redo
  PROVE  RInv'
<1> DEFINE r == log[pos]
           skip == r.type \in Redoable => AlreadyDone(buf[r.page])
<1>1. /\ phase = "redo" /\ pos <= Len(log) /\ pos' = pos + 1 /\ phase' = phase
      /\ buf' = IF skip THEN buf ELSE [buf EXCEPT ![r.page] = SetLsa(Executed(buf[r.page], pos, r), pos)]
      /\ UNCHANGED <<log, flushed, chkptLsa, disk, image, thread, chk>>
  BY Zenon DEF Redo
<1>2. pos \in Nat /\ pos > 0 /\ Len(log) \in Nat /\ DOMAIN buf = Page /\ chk.pc = "idle"
  BY <1>1 DEF RInv, Shape
<1> HIDE DEF r, skip
<1>3. ASSUME NEW p \in Page
      PROVE  \/ buf'[p] = buf[p] /\ (pos \in ChangesOf(p) => AlreadyDone(buf[p]))
             \/ /\ ~AlreadyDone(buf[p])
                /\ DOMAIN buf'[p] = BufField /\ buf'[p].lsa = pos /\ buf'[p].dirty = TRUE
                /\ buf'[p].latch = buf[p].latch
                /\ buf'[p].oldest = IF buf[p].oldest = 0 THEN pos ELSE buf[p].oldest
  <2>1. CASE skip
    BY Zenon, <1>1, <2>1 DEF ChangesOf, skip, r
  <2>2. CASE ~skip
    <3>1. r.type \in Redoable /\ ~AlreadyDone(buf[r.page])
      BY Zenon, <2>2 DEF skip
    <3>2. buf' = [buf EXCEPT ![r.page] = SetLsa(Executed(buf[r.page], pos, r), pos)]
      BY Zenon, <1>1, <2>2
    <3>3. PICK q, n, s : q = r.page /\ n = pos /\ s = r
      BY Zenon
    <3>4. Executes(q, n, s)
      BY Zenon, <3>1, <3>2, <3>3 DEF Executes
    <3>5. Written(p, q, n)
      BY Zenon, <3>4, ExecutedPage
    <3>6. pos \in ChangesOf(p) => p = r.page
      BY Zenon DEF ChangesOf, r
    <3> QED BY Zenon, <3>1, <3>3, <3>5, <3>6 DEF Written
  <2> QED BY Zenon, <2>1, <2>2
<1>4. Shape'
  <2>1. DOMAIN buf' = Page
    BY Zenon, <1>1, <1>2
  <2>2. ASSUME NEW p \in Page
        PROVE  PageShape(p)'
    <3>1. PageShape(p)
      BY Zenon DEF RInv, Shape
    <3>2. CASE buf'[p] = buf[p]
      BY Zenon, <1>1, <3>1, <3>2 DEF PageShape
    <3>3. CASE buf'[p] # buf[p]
      <4>1. buf'[p].dirty \in BOOLEAN
        BY Zenon, <1>3, <3>3
      <4>2. buf'[p].lsa = pos /\ buf'[p].oldest \in {pos, buf[p].oldest} /\ buf'[p].latch = buf[p].latch
            /\ DOMAIN buf'[p] = BufField
        BY Zenon, <1>3, <3>3
      <4>3. buf'[p].lsa \in Nat /\ buf'[p].oldest \in Nat
        BY Zenon, <1>2, <3>1, <4>2 DEF PageShape
      <4> QED BY Zenon, <1>1, <3>1, <4>1, <4>2, <4>3 DEF PageShape, BufField
    <3> QED BY Zenon, <3>2, <3>3
  <2>3. \A u \in Tran : ThreadShape(u)'
    BY Zenon, <1>1 DEF RInv, Shape, ThreadShape
  <2> QED BY <1>1, <1>2, <2>1, <2>2, <2>3 DEF RInv, Shape
<1>5. ASSUME NEW p \in Page
      PROVE  PageInv(p)'
  <2>1. PageInv(p) /\ PageShape(p)
    BY Zenon DEF RInv, Shape
  <2>2. ChangesOf(p)' = ChangesOf(p) /\ ChangesOf(p) \subseteq Nat
    BY <1>1 DEF ChangesOf, RInv, Shape
  <2>3. buf[p].latch = NoTran /\ (buf[p].lsa < pos \/ buf[p].lsa = disk[p].lsa)
    BY Zenon, <1>1, <2>1 DEF PageInv, PageRestart
  <2>7. /\ log' = log /\ flushed' = flushed /\ chkptLsa' = chkptLsa /\ disk' = disk
        /\ image' = image /\ thread' = thread /\ phase' = phase /\ phase = "redo" /\ pos' = pos + 1
    BY Zenon, <1>1
  <2>4. PageChkpt(p)'
    BY Zenon, <1>1, <1>2 DEF PageChkpt
  <2>5. CASE buf'[p] = buf[p] /\ (pos \in ChangesOf(p) => AlreadyDone(buf[p]))
    <3>0. buf[p].lsa < pos => buf[p].lsa < pos'
      BY <1>2, <2>1, <2>7 DEF PageShape
    <3>1. PageOrder(p)' /\ PageRestart(p)'
      <4>1. PageOrder(p)'
        BY Zenon, <2>1, <2>5, <2>7 DEF PageInv, PageOrder, LsaOrder
      <4>2. PageRestart(p)'
        BY Zenon, <2>1, <2>3, <2>5, <2>7, <3>0 DEF PageRestart
      <4> QED BY Zenon, <4>1, <4>2
    <3>2. ASSUME NEW i \in ChangesOf(p)
          PROVE  Held(p, i)' /\ (i < chkptLsa' => i <= disk'[p].lsa)
      <4>1. CASE i = pos
        <5>1. pos <= buf[p].lsa
          BY Zenon, <2>5, <4>1 DEF AlreadyDone
        <5>2. i <= disk[p].lsa
          BY <1>2, <2>1, <2>3, <4>1, <5>1 DEF PageShape
        <5> QED BY Zenon, <2>7, <5>2 DEF Held
      <4>2. CASE i # pos
        <5>1. pos <= i => pos' <= i
          BY <1>1, <1>2, <2>2, <4>2
        <5> QED BY Zenon, <2>1, <2>3, <2>5, <2>7, <5>1 DEF Held, PageInv
      <4> QED BY Zenon, <4>1, <4>2
    <3> QED BY Zenon, <2>2, <2>4, <3>1, <3>2 DEF PageInv
  <2>6. CASE /\ ~AlreadyDone(buf[p])
             /\ DOMAIN buf'[p] = BufField /\ buf'[p].lsa = pos /\ buf'[p].dirty = TRUE
             /\ buf'[p].latch = buf[p].latch
             /\ buf'[p].oldest = IF buf[p].oldest = 0 THEN pos ELSE buf[p].oldest
    <3>1. buf[p].lsa < pos /\ pos \in Nat /\ buf[p].lsa \in Nat
      <4>1. buf[p].lsa \in Nat /\ buf[p].lsa <= Len(log) /\ ~(pos <= buf[p].lsa /\ buf[p].lsa <= Len(log))
        BY Zenon, <2>1, <2>6 DEF AlreadyDone, PageInv, PageOrder, LsaOrder, PageShape
      <4> QED BY <1>2, <4>1
    <3>2. PageOrder(p)' /\ PageRestart(p)'
      <4>1. buf'[p].latch = NoTran /\ buf'[p].lsa = pos /\ pos <= Len(log) /\ pos < pos'
        BY <1>1, <1>2, <2>3, <2>6
      <4>2. LsaOrder(p) /\ disk[p].lsa \in Nat /\ (image[p] = NoImage \/ image[p].lsa \in Nat)
            /\ buf[p].oldest \in Nat
        BY Zenon, <2>1 DEF PageInv, PageOrder, PageShape
      <4>3. disk[p].lsa <= pos /\ (image[p] # NoImage => image[p].lsa <= pos)
        BY <3>1, <4>2 DEF LsaOrder
      <4>4. buf'[p].oldest <= pos /\ buf'[p].oldest # 0
        <5>1. CASE buf[p].oldest = 0
          BY <1>2, <2>6, <5>1
        <5>2. CASE buf[p].oldest # 0
          BY <2>6, <3>1, <4>2, <5>2 DEF LsaOrder
        <5> QED BY Zenon, <5>1, <5>2
      <4>5. LsaOrder(p)'
        BY Zenon, <2>7, <4>1, <4>2, <4>3, <4>4 DEF LsaOrder
      <4>6. PageRestart(p)'
        BY Zenon, <2>7, <4>1 DEF PageRestart
      <4> QED BY Zenon, <4>4, <4>5, <4>6 DEF PageOrder
    <3>3. ASSUME NEW i \in ChangesOf(p)
          PROVE  Held(p, i)' /\ (i < chkptLsa' => i <= disk'[p].lsa)
      <4>1. i \in Nat /\ Held(p, i) /\ (i < chkptLsa => i <= disk[p].lsa)
        BY Zenon, <2>1, <2>2 DEF PageInv
      <4>2. CASE pos < i
        <5>1. pos' <= i
          BY <1>1, <1>2, <4>1, <4>2
        <5> QED BY Zenon, <2>7, <4>1, <5>1 DEF Held
      <4>3. CASE i = pos
        <5>1. buf[p].oldest \in Nat /\ buf[p].oldest <= buf[p].lsa
          BY Zenon, <2>1 DEF PageInv, PageOrder, LsaOrder, PageShape
        <5>2. buf[p].oldest <= i /\ pos <= i /\ i <= pos
          BY <3>1, <4>1, <4>3, <5>1
        <5>3. buf'[p].oldest <= i /\ i <= buf'[p].lsa /\ buf'[p].dirty
          BY Zenon, <2>6, <5>2
        <5> QED BY Zenon, <2>7, <4>1, <5>3 DEF Held
      <4>4. CASE i < pos
        <5>1. ~(pos <= i) /\ i <= pos
          BY <3>1, <4>1, <4>4
        <5>2. \/ i <= disk[p].lsa
              \/ image[p] # NoImage /\ i <= image[p].lsa
              \/ buf[p].dirty /\ buf[p].oldest <= i
          BY Zenon, <2>3, <2>7, <4>1, <5>1 DEF Held
        <5>3. buf[p].dirty => buf'[p].oldest = buf[p].oldest
          BY Zenon, <2>1, <2>6 DEF PageInv, PageOrder
        <5>4. buf'[p].dirty /\ i <= buf'[p].lsa
          BY Zenon, <2>6, <5>1
        <5> QED BY Zenon, <2>7, <4>1, <5>2, <5>3, <5>4 DEF Held
      <4> QED BY <1>2, <4>1, <4>2, <4>3, <4>4
    <3> QED BY <2>2, <2>4, <3>2, <3>3 DEF PageInv
  <2> QED BY Zenon, <1>3, <2>5, <2>6
<1> QED BY <1>1, <1>2, <1>4, <1>5 DEF RInv

\* The end of redo.
LEMMA RedoEndStep ==
  ASSUME RInv, RedoEnd
  PROVE  RInv'
<1>1. /\ phase = "redo" /\ pos > Len(log) /\ phase' = "postpone"
      /\ UNCHANGED <<log, flushed, chkptLsa, disk, buf, image, thread, chk, pos>>
  BY Zenon DEF RedoEnd
<1>2. Len(log) \in Nat /\ pos \in Nat /\ chk.pc = "idle" /\ DOMAIN log = 1..Len(log)
  BY <1>1 DEF RInv, Shape
<1>3. Shape'
  <2>1. \A p \in Page : PageShape(p)'
    BY Zenon, <1>1 DEF RInv, Shape, PageShape
  <2>2. \A u \in Tran : ThreadShape(u)'
    BY Zenon, <1>1 DEF RInv, Shape, ThreadShape
  <2> QED BY Zenon, <1>1, <2>1, <2>2 DEF RInv, Shape
<1>4. ASSUME NEW p \in Page
      PROVE  PageInv(p)'
  <2>1. PageInv(p)
    BY Zenon DEF RInv
  <2>2. ChangesOf(p)' = ChangesOf(p) /\ ChangesOf(p) \subseteq 1..Len(log)
    BY Zenon, <1>1, <1>2 DEF ChangesOf
  <2>3. PageOrder(p)' /\ PageRestart(p)' /\ PageChkpt(p)'
    BY Zenon, <1>1, <1>2, <2>1 DEF PageInv, PageOrder, LsaOrder, PageRestart, PageChkpt
  <2>4. ASSUME NEW i \in ChangesOf(p)
        PROVE  Held(p, i)' /\ (i < chkptLsa' => i <= disk'[p].lsa)
    <3>1. ~(pos <= i)
      BY <1>1, <1>2, <2>2
    <3> QED BY Zenon, <1>1, <2>1, <3>1 DEF PageInv, Held
  <2> QED BY Zenon, <2>2, <2>3, <2>4 DEF PageInv
<1> QED BY Zenon, <1>1, <1>2, <1>3, <1>4 DEF RInv

\* All pages are written at the end of the postpone and of the undo phase.
LEMMA FlushAllStep ==
  ASSUME RInv, PostponeEnd \/ UndoEnd
  PROVE  RInv'
<1>1. /\ phase \in {"postpone", "undo"} /\ phase' \in {"undo", "checkpoint"} /\ FlushAll
      /\ UNCHANGED <<log, chkptLsa, image, thread, chk, pos>>
  BY Zenon DEF PostponeEnd, UndoEnd
<1>2. /\ flushed' = Len(log) /\ disk' = [p \in Page |-> OnDisk(buf[p])]
      /\ buf' = [p \in Page |-> Buffer(disk'[p])]
      /\ \A p \in Page : image[p] = NoImage /\ buf[p].latch = NoTran
  BY Zenon, <1>1 DEF FlushAll
<1>3. Len(log) \in Nat /\ flushed \in 0..Len(log) /\ chk.pc = "idle"
  BY <1>1 DEF RInv, Shape
<1>4. ASSUME NEW p \in Page
      PROVE  /\ disk'[p].lsa = buf[p].lsa
             /\ DOMAIN buf'[p] = BufField /\ buf'[p].lsa = buf[p].lsa /\ buf'[p].oldest = 0
             /\ buf'[p].latch = NoTran
  <2>1. disk'[p] = OnDisk(buf[p]) /\ buf'[p] = Buffer(disk'[p])
    BY Zenon, <1>2
  <2>2. disk'[p].lsa = buf[p].lsa
    BY <2>1 DEF OnDisk
  <2> QED BY <2>1, <2>2 DEF Buffer, BufField
<1>5. \A p \in Page : buf'[p].dirty = FALSE
  BY Zenon, <1>2 DEF Buffer
<1>6. Shape'
  <2>1. ASSUME NEW p \in Page
        PROVE  PageShape(p)'
    <3>1. PageShape(p)
      BY Zenon DEF RInv, Shape
    <3>2. buf'[p].dirty \in BOOLEAN
      BY Zenon, <1>5
    <3> QED BY <1>1, <1>4, <3>1, <3>2 DEF PageShape, BufField
  <2>2. \A u \in Tran : ThreadShape(u)'
    BY Zenon, <1>1 DEF RInv, Shape, ThreadShape
  <2>3. DOMAIN disk' = Page /\ DOMAIN buf' = Page
    BY Zenon, <1>2
  <2>4. /\ log' \in Seq(Elements(log')) /\ pos' \in Nat /\ DOMAIN image' = Page
        /\ DOMAIN thread' = Tran /\ DOMAIN chk' = {"pc", "new", "todo"}
        /\ chkptLsa \in 0..flushed /\ chk.new \in 0..flushed
    BY Zenon, <1>1 DEF RInv, Shape
  <2>5. flushed' \in 0..Len(log') /\ chkptLsa' \in 0..flushed' /\ chk'.new \in 0..flushed'
    BY <1>1, <1>2, <1>3, <2>4
  <2> QED BY Zenon, <2>1, <2>2, <2>3, <2>4, <2>5 DEF Shape
<1>7. ASSUME NEW p \in Page
      PROVE  PageInv(p)'
  <2>1. PageInv(p) /\ PageShape(p)
    BY Zenon DEF RInv, Shape
  <2>2. ChangesOf(p)' = ChangesOf(p) /\ ChangesOf(p) \subseteq Nat /\ chkptLsa \in Nat
    BY <1>1 DEF ChangesOf, RInv, Shape
  <2>3. PageOrder(p)' /\ PageRestart(p)' /\ PageChkpt(p)'
    <3>1. /\ LsaOrder(p) /\ disk[p].lsa \in Nat /\ buf[p].lsa \in Nat /\ image[p] = NoImage
          /\ image' = image /\ log' = log /\ chk' = chk /\ flushed' = Len(log)
      BY Zenon, <1>1, <1>2, <2>1 DEF PageInv, PageOrder, PageShape
    <3>2. buf[p].lsa <= Len(log) /\ buf[p].lsa <= buf[p].lsa /\ 0 <= buf[p].lsa
      BY <3>1 DEF LsaOrder
    <3>3. LsaOrder(p)'
      BY Zenon, <1>4, <3>1, <3>2 DEF LsaOrder
    <3>4. PageOrder(p)'
      BY Zenon, <1>5, <3>3 DEF PageOrder
    <3>5. PageRestart(p)'
      <4>1. phase' # "down" /\ phase' # "redo"
        BY Zenon, <1>1
      <4> QED BY Zenon, <1>4, <4>1 DEF PageRestart
    <3>6. PageChkpt(p)'
      <4>1. chk'.pc = "idle"
        BY Zenon, <1>3, <3>1
      <4> QED BY Zenon, <4>1 DEF PageChkpt
    <3> QED BY Zenon, <3>4, <3>5, <3>6
  <2>4. ASSUME NEW i \in ChangesOf(p)
        PROVE  i <= disk'[p].lsa
    <3>1. i <= disk[p].lsa \/ i <= buf[p].lsa
      <4>1. phase # "down" /\ phase # "redo" /\ image[p] = NoImage /\ buf[p].latch = NoTran
        <5>1. phase # "down" /\ phase # "redo"
          BY Zenon, <1>1
        <5> QED BY Zenon, <1>2, <5>1
      <4> QED BY Zenon, <2>1, <4>1 DEF PageInv, Held
    <3>2. disk[p].lsa \in Nat /\ buf[p].lsa \in Nat /\ disk[p].lsa <= buf[p].lsa /\ i \in Nat
      BY Zenon, <2>1, <2>2 DEF PageInv, PageOrder, LsaOrder, PageShape
    <3>3. i <= buf[p].lsa
      BY <3>1, <3>2
    <3> QED BY Zenon, <1>4, <3>3
  <2> QED BY Zenon, <2>2, <2>3, <2>4 DEF PageInv, Held
<1> QED BY Zenon, <1>1, <1>3, <1>6, <1>7 DEF RInv

\* One record of the undo phase: a change is compensated at once, for the
\* restart has a single thread.
LEMMA UndoRecordStep ==
  ASSUME RInv, NEW t \in Tran, UndoRecord(t)
  PROVE  RInv'
<1>1. PICK q, r :
        /\ r.type = "COMPENSATE" /\ r.page = q
        /\ \/ log' = Append(log, r) /\ buf' = [buf EXCEPT ![q] = SetLsa(Executed(buf[q], NextLsa, r), NextLsa)]
           \/ UNCHANGED <<log, buf>>
           \/ log' = Append(log, Record("ABORT", t)) /\ buf' = buf
  <2> DEFINE i == tdes[t].undo
             r == Compensation(t, i)
             q == log[i].page
  <2>1. \/ log' = Append(log, r) /\ buf' = [buf EXCEPT ![q] = SetLsa(Executed(buf[q], NextLsa, r), NextLsa)]
        \/ UNCHANGED <<log, buf>>
        \/ log' = Append(log, Record("ABORT", t)) /\ buf' = buf
    BY Zenon DEF UndoRecord, UndoComplete
  <2>2. r.type = "COMPENSATE" /\ r.page = q
    BY Zenon DEF Compensation
  <2> HIDE DEF r, q
  <2> QED BY Zenon, <2>1, <2>2
<1>2. phase = "undo" /\ UNCHANGED <<flushed, chkptLsa, disk, image, thread, chk, phase, pos>>
  BY Zenon DEF UndoRecord
<1>3. /\ log \in Seq(Elements(log)) /\ Len(log) \in Nat /\ flushed \in 0..Len(log)
      /\ chkptLsa \in 0..flushed /\ DOMAIN buf = Page /\ DOMAIN thread = Tran /\ chk.pc = "idle"
      /\ \A u \in Tran : ThreadShape(u)
  BY <1>2 DEF RInv, Shape
<1>4. CASE UNCHANGED <<log, buf>>
  <2>1. log' = log /\ thread' = thread /\ buf' = buf
    BY Zenon, <1>2, <1>4
  <2>2. Len(log') \in Nat /\ Len(log) <= Len(log')
    BY <1>3, <2>1
  <2>3. ThreadsMove
    BY Zenon, <2>1, <2>2, ThreadSteps
  <2> QED BY Zenon, <1>2, <2>1, <2>3, QuietSame, QuietKeeps
<1>5. CASE log' = Append(log, Record("ABORT", t)) /\ buf' = buf
  <2>1. Len(log') \in Nat /\ Len(log) <= Len(log') /\ thread' = thread
    BY <1>2, <1>3, <1>5, AppendFacts
  <2>2. ThreadsMove
    BY Zenon, <2>1, ThreadSteps
  <2>3. Record("ABORT", t).type \notin Redoable
    BY Zenon DEF Record, Redoable
  <2> QED BY Zenon, <1>2, <1>5, <2>2, <2>3, QuietAppend, QuietKeeps
<1>6. CASE log' = Append(log, r) /\ buf' = [buf EXCEPT ![q] = SetLsa(Executed(buf[q], NextLsa, r), NextLsa)]
  <2>1. r.type \in Redoable
    BY Zenon, <1>1 DEF Redoable
  <2>2. log' \in Seq(Elements(log')) /\ Len(log') = Len(log) + 1
    BY Zenon, <1>3, <1>6, AppendFacts
  <2>3. PICK n : n = NextLsa
    BY Zenon
  <2>4. n = Len(log) + 1 /\ Executes(q, n, r) /\ DOMAIN buf' = DOMAIN buf
    BY Zenon, <1>6, <2>1, <2>3 DEF NextLsa, Executes
  <2>5. \A p \in Page : Written(p, q, n)
    BY Zenon, <2>4, ExecutedPage
  <2>6. Shape'
    <3>1. DOMAIN buf' = Page
      BY Zenon, <1>3, <2>4
    <3>2. ASSUME NEW p \in Page
          PROVE  PageShape(p)'
      <4>1. PageShape(p)
        BY Zenon DEF RInv, Shape
      <4>2. CASE p # q
        BY Zenon, <1>2, <2>5, <4>1, <4>2 DEF PageShape, Written
      <4>3. CASE p = q
        <5>1. buf'[p].dirty \in BOOLEAN
          BY Zenon, <2>5, <4>3 DEF Written
        <5> QED BY <1>2, <1>3, <2>4, <2>5, <4>1, <4>3, <5>1 DEF PageShape, BufField, Written
      <4> QED BY Zenon, <4>2, <4>3
    <3>3. \A u \in Tran : ThreadShape(u)'
      BY <1>2, <1>3, <2>2 DEF ThreadShape
    <3> QED BY <1>2, <1>3, <2>2, <3>1, <3>2, <3>3 DEF RInv, Shape
  <2>7. ASSUME NEW p \in Page
        PROVE  PageInv(p)'
    <3>1. PageInv(p) /\ PageShape(p)
      BY Zenon DEF RInv, Shape
    <3>2. buf[p].latch = NoTran /\ buf'[p].latch = NoTran
      BY Zenon, <1>2, <2>5, <3>1 DEF PageInv, PageRestart, Written
    <3>3. PageOrder(p)'
      <4>1. /\ LsaOrder(p) /\ disk[p].lsa \in Nat /\ buf[p].lsa \in Nat /\ buf[p].oldest \in Nat
            /\ (image[p] = NoImage \/ image[p].lsa \in Nat)
        BY Zenon, <3>1 DEF PageInv, PageOrder, PageShape
      <4>2. disk' = disk /\ image' = image /\ flushed' = flushed /\ thread' = thread
        BY Zenon, <1>2
      <4>3. CASE p # q
        <5>1. buf'[p] = buf[p]
          BY Zenon, <2>5, <4>3 DEF Written
        <5>2. buf[p].lsa <= Len(log')
          <6>1. buf[p].lsa <= Len(log) /\ buf[p].lsa \in Nat
            BY Zenon, <4>1 DEF LsaOrder
          <6>2. Len(log') = Len(log) + 1 /\ Len(log) \in Nat
            BY Zenon, <1>3, <2>2
          <6> QED BY <6>1, <6>2
        <5>3. LsaOrder(p)'
          BY Zenon, <4>1, <4>2, <5>1, <5>2 DEF LsaOrder
        <5> QED BY Zenon, <3>1, <5>1, <5>3 DEF PageInv, PageOrder
      <4>4. CASE p = q
        <5>1. n \in Nat /\ n <= Len(log') /\ buf[p].lsa < n /\ n # 0
          <6>1. buf[p].lsa <= Len(log) /\ buf[p].lsa \in Nat
            BY Zenon, <4>1 DEF LsaOrder
          <6>2. n = Len(log) + 1 /\ Len(log') = Len(log) + 1 /\ Len(log) \in Nat
            BY Zenon, <1>3, <2>2, <2>4
          <6> QED BY <6>1, <6>2
        <5>2. buf'[p].lsa = n /\ buf'[p].oldest = IF buf[p].oldest = 0 THEN n ELSE buf[p].oldest
          BY Zenon, <2>5, <4>4 DEF Written
        <5>3. buf'[p].oldest <= n /\ buf'[p].oldest # 0
          <6>1. CASE buf[p].oldest = 0
            BY <5>1, <5>2, <6>1
          <6>2. CASE buf[p].oldest # 0
            BY <4>1, <5>1, <5>2, <6>2 DEF LsaOrder
          <6> QED BY Zenon, <6>1, <6>2
        <5>4. disk[p].lsa <= n /\ (image[p] # NoImage => image[p].lsa <= n)
          BY <4>1, <5>1 DEF LsaOrder
        <5>5. LsaOrder(p)'
          BY Zenon, <3>2, <4>1, <4>2, <5>1, <5>2, <5>3, <5>4 DEF LsaOrder
        <5> QED BY Zenon, <5>3, <5>5 DEF PageOrder
      <4> QED BY <4>3, <4>4
    <3>4. PageRestart(p)' /\ PageChkpt(p)'
      BY Zenon, <1>2, <1>3, <3>2 DEF PageRestart, PageChkpt
    <3>5. /\ \A i \in ChangesOf(p)' : i \in ChangesOf(p) \/ (i = n /\ p = q)
          /\ ChangesOf(p) \subseteq 1..Len(log)
      BY Zenon, <1>1, <1>6, <2>3, ChangesGrow DEF RInv
    <3>6. ASSUME NEW i \in ChangesOf(p)'
          PROVE  Held(p, i)' /\ (i < chkptLsa' => i <= disk'[p].lsa)
      <4>1. CASE i \in ChangesOf(p)
        <5>1. Held(p, i) /\ (i < chkptLsa => i <= disk[p].lsa) /\ i <= Len(log) /\ i \in Nat
          BY <1>3, <3>1, <3>5, <4>1 DEF PageInv
        <5>2. CASE p # q
          <6>1. buf'[p] = buf[p]
            BY Zenon, <2>5, <5>2 DEF Written
          <6>2. /\ disk' = disk /\ image' = image /\ thread' = thread /\ phase' = phase
                /\ pos' = pos /\ chkptLsa' = chkptLsa
            BY Zenon, <1>2
          <6> QED BY Zenon, <5>1, <6>1, <6>2 DEF Held
        <5>3. CASE p = q
          <6>1. /\ disk' = disk /\ image' = image /\ phase' = phase /\ phase # "down" /\ phase # "redo"
                /\ chkptLsa' = chkptLsa
            BY Zenon, <1>2
          <6>2. \/ i <= disk[p].lsa
                \/ image[p] # NoImage /\ i <= image[p].lsa
                \/ buf[p].dirty /\ buf[p].oldest <= i
            BY Zenon, <3>2, <5>1, <6>1 DEF Held
          <6>3. i <= n
            BY <1>3, <2>4, <5>1
          <6>4. /\ buf'[p].dirty /\ i <= buf'[p].lsa
                /\ buf[p].dirty => buf'[p].oldest = buf[p].oldest
            BY Zenon, <2>5, <3>1, <5>3, <6>3 DEF PageInv, PageOrder, Written
          <6> QED BY Zenon, <5>1, <6>1, <6>2, <6>4 DEF Held
        <5> QED BY Zenon, <5>2, <5>3
      <4>2. CASE i = n /\ p = q
        <5>1. Held(p, i)'
          <6>1. buf[p].oldest \in Nat /\ buf[p].lsa \in Nat /\ LsaOrder(p)
            BY Zenon, <3>1 DEF PageInv, PageOrder, PageShape
          <6>2. buf[p].oldest <= n /\ n <= n
            BY <1>3, <2>4, <6>1 DEF LsaOrder
          <6>3. buf'[p].dirty /\ buf'[p].lsa = n /\ buf'[p].oldest <= n
            BY Zenon, <2>5, <4>2, <6>2 DEF Written
          <6> QED BY Zenon, <4>2, <6>2, <6>3 DEF Held
        <5>2. ~(i < chkptLsa')
          BY <1>2, <1>3, <2>4, <4>2
        <5> QED BY Zenon, <5>1, <5>2
      <4> QED BY Zenon, <3>5, <4>1, <4>2
    <3> QED BY Zenon, <3>3, <3>4, <3>6 DEF PageInv
  <2> QED BY Zenon, <1>2, <1>3, <2>6, <2>7 DEF RInv
<1> QED BY Zenon, <1>1, <1>4, <1>5, <1>6

-----------------------------------------------------------------------------
\* The initial states.
LEMMA InitRInv == Init => RInv
<1> SUFFICES ASSUME Init
             PROVE  RInv
  BY Zenon
<1>1. /\ log = <<>> /\ flushed = 0 /\ chkptLsa = 0 /\ pos = 0 /\ phase = "up"
      /\ disk = [p \in Page |-> NewPage] /\ buf = [p \in Page |-> Buffer(NewPage)]
      /\ image = [p \in Page |-> NoImage] /\ thread = [t \in Tran |-> Idle] /\ chk = NoChkpt
  BY Zenon DEF Init
<1>2. log \in Seq(Elements(log)) /\ Len(log) = 0 /\ DOMAIN log = {}
  BY <1>1
<1>3. DOMAIN chk = {"pc", "new", "todo"} /\ chk.new = 0 /\ chk.pc = "idle"
  BY Zenon, <1>1 DEF NoChkpt
<1>4. ASSUME NEW p \in Page
      PROVE  /\ disk[p].lsa = 0 /\ DOMAIN buf[p] = BufField /\ buf[p].lsa = 0 /\ buf[p].oldest = 0
             /\ buf[p].latch = NoTran /\ image[p] = NoImage
  BY Zenon, <1>1 DEF Buffer, NewPage, BufField
<1>5. \A p \in Page : buf[p].dirty = FALSE
  BY Zenon, <1>1 DEF Buffer
<1>6. \A p \in Page : buf[p].dirty \in BOOLEAN
  BY Zenon, <1>5
<1>7. Shape
  <2>1. \A p \in Page : PageShape(p)
    BY <1>4, <1>6 DEF PageShape, BufField
  <2>2. ASSUME NEW t \in Tran
        PROVE  ThreadShape(t)
    <3>1. DOMAIN thread[t] = {"pc", "scan", "lsa"} /\ thread[t].lsa = 0
      BY Zenon, <1>1 DEF Idle
    <3> QED BY <1>2, <3>1 DEF ThreadShape
  <2> QED BY <1>1, <1>2, <1>3, <2>1, <2>2 DEF Shape
<1>8. ASSUME NEW p \in Page
      PROVE  PageInv(p)
  <2>1. ChangesOf(p) = {}
    BY Zenon, <1>2 DEF ChangesOf
  <2>2. PageOrder(p)
    <3>1. LsaOrder(p)
      BY <1>1, <1>2, <1>4 DEF LsaOrder
    <3> QED BY Zenon, <1>5, <3>1 DEF PageOrder
  <2>3. PageRestart(p) /\ PageChkpt(p)
    <3>1. phase \notin {"down", "redo", "undo", "checkpoint"} /\ chk.pc # "header" /\ chk.pc # "flush"
      BY Zenon, <1>1, <1>3
    <3> QED BY Zenon, <3>1 DEF PageRestart, PageChkpt
  <2> QED BY Zenon, <2>1, <2>2, <2>3 DEF PageInv
<1> QED BY Zenon, <1>1, <1>3, <1>7, <1>8 DEF RInv

\* A step that changes nothing.
LEMMA StutterRInv ==
  ASSUME RInv, UNCHANGED vars
  PROVE  RInv'
<1>1. /\ log' = log /\ flushed' = flushed /\ chk' = chk
      /\ UNCHANGED <<chkptLsa, disk, buf, image, phase, pos>> /\ thread' = thread
  BY Zenon DEF vars
<1>2. ThreadsMove
  BY Zenon, <1>1 DEF ThreadsMove, RInv, Shape, ThreadShape
<1> QED BY Zenon, <1>1, <1>2, QuietSame, QuietKeeps

\* Every step keeps the invariant, when the checkpoint explores no window
\* between the append of a record and the write of its page.
LEMMA NextRInv ==
  ASSUME "append" \notin Races, "write" \notin Races, RInv, [Next]_vars
  PROVE  RInv'
<1>1. ASSUME NEW t \in Tran, Step(t)
      PROVE  RInv'
  BY Zenon, <1>1, TranQuiet, TranFlushes, AppendActions, EndSystemOpStep, ChangeActions,
     SetPageLsaStep, UndoRecordStep DEF Step
<1>2. ASSUME NEW t \in Tran, NEW p \in Page, Update(t, p) \/ Postpone(t, p)
      PROVE  RInv'
  BY Zenon, <1>2, ChangeActions, PostponeStep
<1>3. ASSUME NEW p \in Page, FlushStart(p) \/ FlushEnd(p) \/ ChkptFlush(p)
      PROVE  RInv'
  BY Zenon, <1>3, FlushStartStep, FlushEndStep, ChkptFlushStep
<1>4. ASSUME ChkptStart \/ ChkptEnd \/ ChkptHeader
      PROVE  RInv'
  BY Zenon, <1>4, ChkptSteps, ChkptHeaderStep
<1>5. ASSUME Crash \/ Analyse \/ Redo \/ RedoEnd \/ PostponeEnd \/ UndoEnd
      PROVE  RInv'
  BY Zenon, <1>5, CrashStep, AnalyseStep, RedoStep, RedoEndStep, FlushAllStep
<1> QED BY Zenon, <1>1, <1>2, <1>3, <1>4, <1>5, StutterRInv DEF Next

\* The invariant in every state.
LEMMA AlwaysRInv ==
  ASSUME "append" \notin Races, "write" \notin Races
  PROVE  Spec => []RInv
<1>1. RInv /\ [Next]_vars => RInv'
  BY Zenon, NextRInv
<1> QED BY InitRInv, <1>1, PTL DEF Spec

\* Write-ahead logging: for any transactions, pages and histories, no page on
\* disk carries the LSA of a record that the log on disk may lack
\* (pgbuf_flush_page_with_wal, pgbuf_flush_checkpoint, log_recovery).
THEOREM WriteAheadAlways ==
  ASSUME "append" \notin Races, "write" \notin Races
  PROVE  Spec => []WriteAhead
<1>1. RInv => WriteAhead
  BY Zenon DEF RInv, PageInv, PageOrder, LsaOrder, WriteAhead
<1> QED BY AlwaysRInv, <1>1, PTL

\* The redo point: when no checkpoint passes a page between the append of a
\* record and the setting of the page's LSA, or while another thread writes the
\* page, every change logged before the checkpoint of the header is on disk
\* (pgbuf_flush_checkpoint, logpb_checkpoint).
THEOREM RedoPointAlways ==
  ASSUME "append" \notin Races, "write" \notin Races
  PROVE  Spec => []RedoPoint
<1>1. RInv => RedoPoint
  BY Zenon DEF RInv, PageInv, RedoPoint
<1> QED BY AlwaysRInv, <1>1, PTL

=============================================================================
