-------------------------- MODULE CriticalSection --------------------------
(***************************************************************************)
(* The read/write critical section of thread/critical_section.c, the lock  *)
(* that protects the log, the transaction table and most server tables.    *)
(*                                                                         *)
(* Every operation runs with cs_ptr->lock held, except while it sleeps, so *)
(* an action is what a thread does between taking the mutex (by calling,   *)
(* or by waking up) and releasing it (by returning, or by going to sleep). *)
(* Every caller in the server waits with INF_WAIT, so no wait times out.   *)
(* pthread_cond_wait may also return without a signal: a reader then tests *)
(* its condition again; a queued writer is woken only by name.             *)
(***************************************************************************)
EXTENDS Integers, Sequences, FiniteSets

CONSTANTS Thread,    \* the server's threads
          NoThread,  \* (pthread_t) 0, the owner of a free section
          MaxNest    \* bound: how deep a writer re-enters

ASSUME CriticalSectionAssumption ==
  /\ IsFiniteSet(Thread)
  /\ NoThread \notin Thread
  /\ MaxNest \in Nat \ {0}

VARIABLES
  rwlock,                  \* < 0: depth of the writer; > 0: number of readers
  owner,                   \* thread that writes, or that demoted itself
  waiting_writers,         \* callers inside a writer's or a promoter's wait
  waiting_writers_queue,   \* writers asleep, first to be woken first
  waiting_promoters_queue, \* demoted threads asleep in csect_promote
  readers_ok,              \* readers asleep on the condition variable
  pc,                      \* the call a thread is inside, "run" if none
  hold,                    \* what the caller believes it holds, as in rwlock
  demoted                  \* callers between csect_demote and csect_promote

lockVars  == <<rwlock, owner, waiting_writers>>
queueVars == <<waiting_writers_queue, waiting_promoters_queue, readers_ok>>
vars      == <<lockVars, queueVars, pc, hold, demoted>>

Init ==
  /\ rwlock = 0 /\ owner = NoThread /\ waiting_writers = 0
  /\ waiting_writers_queue = << >> /\ waiting_promoters_queue = << >>
  /\ readers_ok = {}
  /\ pc = [t \in Thread |-> "run"]
  /\ hold = [t \in Thread |-> 0]
  /\ demoted = {}

Queued(t, q) == \E i \in 1 .. Len(q) : q[i] = t

\* The head of a queue is unlinked by the thread that wakes it; an empty
\* queue is left alone.
Woken(q) == IF q = << >> THEN q ELSE Tail(q)

-----------------------------------------------------------------------------
(* csect_enter_critical_section *)

\* Mutant: only the counter is tested, not the owner.
WaitForCountOnly(t) == rwlock # 0 /\ ~(rwlock < 0 /\ owner = t)

\* A section reserved for a demoted thread (rwlock = 0, owner set) is not free.
WriterMustWait(t) == (rwlock # 0 \/ owner # NoThread) /\ ~(rwlock < 0 /\ owner = t)

TakeAsWriter(t) ==
  /\ rwlock' = rwlock - 1 /\ owner' = t
  /\ hold' = [hold EXCEPT ![t] = @ - 1]
  /\ pc' = [pc EXCEPT ![t] = "run"]

SleepAsWriter(t) ==
  /\ waiting_writers_queue' = Append(waiting_writers_queue, t)
  /\ pc' = [pc EXCEPT ![t] = "enter"]
  /\ UNCHANGED <<rwlock, owner, hold>>

\* A caller holds nothing, or is the writer.
csect_enter_critical_section(t) ==
  /\ pc[t] = "run" /\ t \notin demoted /\ hold[t] \in (1 - MaxNest) .. 0
  /\ \/ /\ ~WriterMustWait(t)
        /\ TakeAsWriter(t)
        /\ UNCHANGED <<waiting_writers, waiting_writers_queue>>
     \/ /\ WriterMustWait(t)
        /\ waiting_writers' = waiting_writers + 1
        /\ SleepAsWriter(t)
  /\ UNCHANGED <<waiting_promoters_queue, readers_ok, demoted>>

\* A woken writer that finds an owner yields to a promoter, and then tests
\* the section again: another writer may have taken it first.
WriterWakes(t) ==
  /\ pc[t] = "enter" /\ ~Queued(t, waiting_writers_queue)
  /\ waiting_promoters_queue' =
       IF owner # NoThread /\ waiting_writers - 1 > 0
       THEN Woken(waiting_promoters_queue) ELSE waiting_promoters_queue
  /\ \/ /\ ~WriterMustWait(t)
        /\ waiting_writers' = waiting_writers - 1
        /\ TakeAsWriter(t)
        /\ UNCHANGED waiting_writers_queue
     \/ /\ WriterMustWait(t)
        /\ SleepAsWriter(t)
        /\ UNCHANGED waiting_writers
  /\ UNCHANGED <<readers_ok, demoted>>

-----------------------------------------------------------------------------
(* csect_enter_critical_section_as_reader *)

\* Mutant: a reader looks at the waiting writers only.
ReaderIgnoresWriter == waiting_writers > 0 /\ owner = NoThread

\* Readers pass the waiting writers while the section is demoted.
ReaderMustWait == rwlock < 0 \/ (waiting_writers > 0 /\ owner = NoThread)

\* The body of the reader's wait loop, on entry and after every wake-up.
ReaderTries(t) ==
  /\ \/ /\ ~ReaderMustWait
        /\ rwlock' = rwlock + 1
        /\ hold' = [hold EXCEPT ![t] = @ + 1]
        /\ pc' = [pc EXCEPT ![t] = "run"]
        /\ readers_ok' = readers_ok \ {t}
     \/ /\ ReaderMustWait
        /\ readers_ok' = readers_ok \union {t}
        /\ pc' = [pc EXCEPT ![t] = "read"]
        /\ UNCHANGED <<rwlock, hold>>
  /\ UNCHANGED <<owner, waiting_writers, waiting_writers_queue,
                 waiting_promoters_queue, demoted>>

\* The writer re-enters as a writer; anyone else calls holding nothing.
csect_enter_critical_section_as_reader(t) ==
  /\ pc[t] = "run" /\ t \notin demoted /\ hold[t] \in (1 - MaxNest) .. 0
  /\ \/ /\ rwlock < 0 /\ owner = t
        /\ rwlock' = rwlock - 1
        /\ hold' = [hold EXCEPT ![t] = @ - 1]
        /\ UNCHANGED <<owner, waiting_writers, queueVars, pc, demoted>>
     \/ /\ ~(rwlock < 0 /\ owner = t)
        /\ ReaderTries(t)

ReaderWakes(t) ==
  /\ pc[t] = "read" /\ t \notin readers_ok
  /\ ReaderTries(t)

\* pthread_cond_wait returns although nobody signalled.
ReaderWakesSpuriously(t) ==
  /\ t \in readers_ok
  /\ ReaderTries(t)

-----------------------------------------------------------------------------
(* csect_demote_critical_section and csect_promote_critical_section: called *)
(* in pairs, by the writer that flushes the log.                            *)

\* The outermost writer becomes a reader but stays the owner; a nested one
\* stays the writer. Either way the readers are woken.
csect_demote_critical_section(t) ==
  /\ pc[t] = "run" /\ t \notin demoted
  /\ rwlock < 0 /\ owner = t
  /\ rwlock' = IF rwlock + 1 < 0 THEN rwlock ELSE 1
  /\ hold' = [hold EXCEPT ![t] = IF rwlock + 1 < 0 THEN @ ELSE 1]
  /\ demoted' = demoted \union {t}
  /\ readers_ok' = {}
  /\ UNCHANGED <<owner, waiting_writers, waiting_writers_queue,
                 waiting_promoters_queue, pc>>

\* Mutant: the promoting thread keeps its read hold in the counter.
KeepsReadHold == rwlock

\* What the promoting thread finds once it has given up its hold.
AfterRelease == IF rwlock > 0 THEN rwlock - 1 ELSE rwlock + 1

PromoterMustWait(t, rw) == rw # 0 /\ ~(rw < 0 /\ owner = t)

csect_promote_critical_section(t) ==
  /\ pc[t] = "run" /\ t \in demoted
  /\ \/ /\ ~PromoterMustWait(t, AfterRelease)
        /\ rwlock' = AfterRelease - 1 /\ owner' = t
        /\ hold' = [hold EXCEPT ![t] = AfterRelease - 1]
        /\ demoted' = demoted \ {t}
        /\ UNCHANGED <<waiting_writers, waiting_promoters_queue, pc>>
     \/ /\ PromoterMustWait(t, AfterRelease)
        /\ rwlock' = AfterRelease
        /\ hold' = [hold EXCEPT ![t] = 0]
        /\ waiting_writers' = waiting_writers + 1
        /\ waiting_promoters_queue' = Append(waiting_promoters_queue, t)
        /\ pc' = [pc EXCEPT ![t] = "promote"]
        /\ UNCHANGED <<owner, demoted>>
  /\ UNCHANGED <<waiting_writers_queue, readers_ok>>

\* A reader that came in first sends the promoter back to sleep.
PromoterWakes(t) ==
  /\ pc[t] = "promote" /\ ~Queued(t, waiting_promoters_queue)
  /\ \/ /\ ~PromoterMustWait(t, rwlock)
        /\ waiting_writers' = waiting_writers - 1
        /\ TakeAsWriter(t)
        /\ demoted' = demoted \ {t}
        /\ UNCHANGED waiting_promoters_queue
     \/ /\ PromoterMustWait(t, rwlock)
        /\ waiting_promoters_queue' = Append(waiting_promoters_queue, t)
        /\ UNCHANGED <<lockVars, pc, hold, demoted>>
  /\ UNCHANGED <<waiting_writers_queue, readers_ok>>

-----------------------------------------------------------------------------
(* csect_exit_critical_section *)

\* Mutant: a writer is woken although the section is reserved.
WakeWriterFirst(rw, own) ==
  LET ww == waiting_writers > 0 /\ rw = 0
  IN  /\ waiting_writers_queue' =
           IF ww THEN Woken(waiting_writers_queue) ELSE waiting_writers_queue
      /\ readers_ok' = IF ww THEN readers_ok ELSE {}
      /\ UNCHANGED waiting_promoters_queue

\* Mutant: the readers are not woken.
WakeNoReaders(rw, own) ==
  LET free == waiting_writers > 0 /\ rw = 0
  IN  /\ waiting_promoters_queue' =
           IF free /\ own # NoThread
           THEN Woken(waiting_promoters_queue) ELSE waiting_promoters_queue
      /\ waiting_writers_queue' =
           IF free /\ own = NoThread
           THEN Woken(waiting_writers_queue) ELSE waiting_writers_queue
      /\ UNCHANGED readers_ok

\* Whom the last one out wakes: the promoter the section is reserved for,
\* else a writer, else every reader.
WakeUp(rw, own) ==
  LET free == waiting_writers > 0 /\ rw = 0
      wp == free /\ own # NoThread
      ww == free /\ own = NoThread
  IN  /\ waiting_promoters_queue' =
           IF wp THEN Woken(waiting_promoters_queue) ELSE waiting_promoters_queue
      /\ waiting_writers_queue' =
           IF ww THEN Woken(waiting_writers_queue) ELSE waiting_writers_queue
      /\ readers_ok' = IF wp \/ ww THEN readers_ok ELSE {}

\* The writer leaves one level, and gives the section up at the outermost.
ExitWriter(t) ==
  /\ rwlock < 0
  /\ rwlock' = rwlock + 1
  /\ hold' = [hold EXCEPT ![t] = @ + 1]
  /\ \/ /\ rwlock + 1 < 0
        /\ UNCHANGED <<owner, queueVars>>
     \/ /\ rwlock + 1 = 0
        /\ owner' = NoThread
        /\ WakeUp(0, NoThread)

ExitReader(t) ==
  /\ rwlock > 0
  /\ rwlock' = rwlock - 1
  /\ hold' = [hold EXCEPT ![t] = @ - 1]
  /\ WakeUp(rwlock - 1, owner)
  /\ UNCHANGED owner

\* rwlock = 0 (ER_CS_UNLOCKED_BEFORE) never happens: see RwlockCountsHolders.
csect_exit_critical_section(t) ==
  /\ pc[t] = "run" /\ hold[t] # 0 /\ t \notin demoted
  /\ ExitWriter(t) \/ ExitReader(t)
  /\ UNCHANGED <<waiting_writers, pc, demoted>>

-----------------------------------------------------------------------------
\* A thread asks for the section.
Request(t) ==
  \/ csect_enter_critical_section(t)
  \/ csect_enter_critical_section_as_reader(t)
  \/ csect_demote_critical_section(t)

\* A thread that was given the section, or woken, goes on.
Proceed(t) ==
  \/ WriterWakes(t)
  \/ ReaderWakes(t)
  \/ csect_promote_critical_section(t)
  \/ PromoterWakes(t)
  \/ csect_exit_critical_section(t)

Next == \E t \in Thread : Request(t) \/ Proceed(t) \/ ReaderWakesSpuriously(t)

Spec == Init /\ [][Next]_vars

\* A woken thread gets the mutex, and a caller leaves what it entered.
FairSpec == Spec /\ \A t \in Thread : WF_vars(Proceed(t))

-----------------------------------------------------------------------------
(* Properties *)

\* Types of the fields of CSS_CRITICAL_SECTION and of the callers' records.
TypeOK ==
  /\ rwlock \in Int
  /\ owner \in Thread \union {NoThread}
  /\ waiting_writers \in Nat
  /\ waiting_writers_queue \in Seq(Thread)
  /\ waiting_promoters_queue \in Seq(Thread)
  /\ readers_ok \subseteq Thread
  /\ pc \in [Thread -> {"run", "enter", "read", "promote"}]
  /\ hold \in [Thread -> Int]
  /\ demoted \subseteq Thread

\* While one thread is inside as a writer, nobody else is inside, as a reader
\* or as a writer: what every caller of csect_enter relies on.
MutualExclusion ==
  \A t \in Thread : hold[t] < 0 => \A u \in Thread \ {t} : hold[u] = 0

Readers == {t \in Thread : hold[t] > 0}

\* rwlock, which csect_exit uses to tell a writer's exit from a reader's, is
\* the writer's depth or the number of readers, so no caller's exit releases
\* someone else's hold and the ER_CS_UNLOCKED_BEFORE branch is dead.
RwlockCountsHolders ==
  /\ \A t \in Thread : hold[t] < 0 => rwlock = hold[t] /\ owner = t
  /\ (\A t \in Thread : hold[t] >= 0) => rwlock = Cardinality(Readers)

\* From csect_demote until csect_promote returns, also while the promoter
\* sleeps with its hold given up, no other thread writes: the log flush goes
\* on after the promotion with the append state it had before the demotion.
NoWriterWhileDemoted ==
  \A t \in demoted : \A u \in Thread \ {t} : hold[u] >= 0 /\ u \notin demoted

Asleep(t) ==
  \/ pc[t] = "enter" /\ Queued(t, waiting_writers_queue)
  \/ pc[t] = "read" /\ t \in readers_ok
  \/ pc[t] = "promote" /\ Queued(t, waiting_promoters_queue)

\* No wake-up is lost: as long as a thread sleeps, another one is awake
\* inside the section or inside a call, and its next step can wake somebody.
NoLostWakeup ==
  (\E t \in Thread : Asleep(t)) =>
    \E u \in Thread : ~Asleep(u) /\ (hold[u] # 0 \/ pc[u] # "run")

\* If from some moment on nobody asks for the section, everybody who asked
\* before gets it and leaves: no reader, writer or promoter is forgotten.
EveryoneServed ==
  <>[][\A t \in Thread : ~Request(t)]_vars
    => <>[](\A t \in Thread : pc[t] = "run" /\ hold[t] = 0)
=============================================================================
