----------------------- MODULE CriticalSectionProofs -----------------------
(***************************************************************************)
(* Safety of the critical section for any number of threads: a writer is   *)
(* alone, a demoted writer is the only one to write again, and no wake-up  *)
(* is lost.                                                                *)
(***************************************************************************)
EXTENDS CriticalSection, TLAPS, FiniteSetTheorems, SequenceTheorems

Waiters == {t \in Thread : pc[t] \in {"enter", "promote"}}

\* The counters are what they count.
CountInv ==
  /\ waiting_writers = Cardinality(Waiters)
  /\ rwlock >= 0 => rwlock = Cardinality(Readers)
  /\ rwlock < 0 => owner # NoThread /\ hold[owner] = rwlock /\ Readers = {}

\* Who may hold what: a caller that waits holds nothing; the owner writes, or
\* is demoted, and is then inside or on its way back.
HoldInv ==
  /\ \A t \in Thread : /\ hold[t] <= 1
                       /\ hold[t] < 0 => rwlock < 0 /\ owner = t
                       /\ pc[t] # "run" => hold[t] = 0
                       /\ pc[t] = "promote" => t \in demoted
  /\ \A t \in demoted : /\ owner = t
                        /\ pc[t] \in {"run", "promote"}
                        /\ pc[t] = "run" => hold[t] # 0
  /\ owner # NoThread /\ rwlock >= 0 => owner \in demoted

\* Who is asleep, and who is awake when nobody is inside.
QueueInv ==
  /\ \A i \in 1 .. Len(waiting_writers_queue) : pc[waiting_writers_queue[i]] = "enter"
  /\ \A i, j \in 1 .. Len(waiting_writers_queue) :
       waiting_writers_queue[i] = waiting_writers_queue[j] => i = j
  /\ Len(waiting_promoters_queue) <= 1
  /\ \A i \in 1 .. Len(waiting_promoters_queue) : pc[waiting_promoters_queue[i]] = "promote"
  /\ \A t \in readers_ok : pc[t] = "read"

WakeInv ==
  /\ rwlock = 0 /\ owner = NoThread =>
       /\ waiting_writers > 0 =>
            \E t \in Thread : pc[t] = "enter" /\ ~Queued(t, waiting_writers_queue)
       /\ waiting_writers = 0 => readers_ok = {}
  /\ rwlock = 0 /\ owner # NoThread => waiting_promoters_queue = << >>

Inv == TypeOK /\ CountInv /\ HoldInv /\ QueueInv /\ WakeInv

-----------------------------------------------------------------------------
(* Counting and queueing. *)

(* A set of threads that gains a thread counts one more. *)
LEMMA CountUp ==
  ASSUME NEW S \in SUBSET Thread, NEW t \in Thread, t \notin S
  PROVE  /\ Cardinality(S) \in Nat
         /\ Cardinality(S \union {t}) = Cardinality(S) + 1
<1>1. IsFiniteSet(S)
  BY Zenon, CriticalSectionAssumption, FS_Subset
<1> QED
  BY Zenon, <1>1, FS_AddElement, FS_CardinalityType

(* A set of threads that loses a thread counts one less. *)
LEMMA CountDown ==
  ASSUME NEW S \in SUBSET Thread, NEW t \in S
  PROVE  /\ Cardinality(S) \in Nat \ {0}
         /\ Cardinality(S \ {t}) = Cardinality(S) - 1
<1>1. IsFiniteSet(S)
  BY Zenon, CriticalSectionAssumption, FS_Subset
<1>2. Cardinality(S) \in Nat /\ Cardinality(S \ {t}) = Cardinality(S) - 1
  BY Zenon, <1>1, FS_RemoveElement, FS_CardinalityType
<1>3. Cardinality(S) # 0
  BY Zenon, <1>1, FS_EmptySet
<1> QED
  BY Zenon, <1>2, <1>3

(* A set of threads counts zero exactly when it is empty. *)
LEMMA CountZero ==
  ASSUME NEW S \in SUBSET Thread
  PROVE  Cardinality(S) \in Nat /\ (Cardinality(S) = 0 <=> S = {})
<1>1. IsFiniteSet(S)
  BY Zenon, CriticalSectionAssumption, FS_Subset
<1> QED
  BY Zenon, <1>1, FS_EmptySet, FS_CardinalityType

(* csect_wakeup_waiting_writer and _promoter take the head off a queue. *)
LEMMA WokenShifts ==
  ASSUME NEW q \in Seq(Thread)
  PROVE  /\ Woken(q) \in Seq(Thread)
         /\ q # << >> => /\ Len(q) > 0
                         /\ Len(Woken(q)) = Len(q) - 1
                         /\ \A i \in 1 .. Len(Woken(q)) : Woken(q)[i] = q[i + 1]
         /\ q = << >> => Woken(q) = << >>
  BY DEF Woken

(* Waking the head of a queue of one empties it. *)
LEMMA OneWoken ==
  ASSUME NEW q \in Seq(Thread), Len(q) <= 1
  PROVE  Woken(q) = << >>
<1>1. Woken(q) \in Seq(Thread) /\ Len(Woken(q)) = 0
  <2>1. CASE q = << >>
    BY Zenon, <2>1 DEF Woken
  <2>2. CASE q # << >>
    <3>1. Len(q) \in Nat /\ Len(q) > 0 /\ Len(Woken(q)) = Len(q) - 1
      BY <2>2, WokenShifts
    <3> QED
      BY <3>1, WokenShifts
  <2> QED
    BY Zenon, <2>1, <2>2
<1> QED
  BY Zenon, <1>1, EmptySeq

(* csect_wait_on_writer_queue and _promoter_queue link at the tail. *)
LEMMA AppendAtTail ==
  ASSUME NEW q \in Seq(Thread), NEW t \in Thread
  PROVE  /\ Append(q, t) \in Seq(Thread)
         /\ Len(Append(q, t)) = Len(q) + 1
         /\ \A i \in 1 .. Len(q) : Append(q, t)[i] = q[i]
         /\ Append(q, t)[Len(q) + 1] = t
  OBVIOUS

-----------------------------------------------------------------------------
(* The initial state satisfies the invariant. *)
LEMMA InitInv == Init => Inv
<1> SUFFICES ASSUME Init PROVE Inv
  BY Zenon
<1>1. TypeOK
  BY DEF Init, TypeOK
<1>2. Waiters = {} /\ Readers = {}
  BY DEF Init, Waiters, Readers
<1>3. CountInv
  BY <1>2, CountZero DEF Init, CountInv
<1>4. HoldInv /\ QueueInv
  BY DEF Init, HoldInv, QueueInv
<1>5. WakeInv
  BY DEF Init, WakeInv
<1> QED
  BY Zenon, <1>1, <1>3, <1>4, <1>5 DEF Inv

(* Without readers in the counter there is no reader. *)
LEMMA NobodyReads ==
  ASSUME Inv, rwlock <= 0
  PROVE  Readers = {}
<1>1. Readers \in SUBSET Thread
  BY Zenon DEF Readers
<1> QED
  BY <1>1, CountZero DEF Inv, TypeOK, CountInv

(* When the counter is zero nobody holds anything. *)
LEMMA NobodyInside ==
  ASSUME Inv, rwlock = 0, NEW t \in Thread
  PROVE  hold[t] = 0
<1>1. ~(hold[t] > 0)
  BY NobodyReads DEF Readers
<1> QED
  BY <1>1 DEF Inv, TypeOK, HoldInv

(* The writer's first test: it takes the section or goes to sleep. *)
LEMMA EnterStep ==
  ASSUME Inv, NEW t \in Thread, csect_enter_critical_section(t)
  PROVE  Inv'
<1> USE CriticalSectionAssumption DEF Inv
<1>1. CASE ~WriterMustWait(t)
  <2>1. /\ rwlock <= 0
        /\ rwlock' = rwlock - 1 /\ owner' = t
        /\ hold' = [hold EXCEPT ![t] = @ - 1]
        /\ pc' = pc /\ demoted' = demoted
        /\ UNCHANGED <<waiting_writers, queueVars>>
    BY <1>1 DEF csect_enter_critical_section, TakeAsWriter, WriterMustWait, TypeOK, queueVars
  <2>2. TypeOK'
    BY <2>1 DEF TypeOK, queueVars
  <2>3. hold[t] = rwlock /\ Readers = {}
    BY Zenon, <1>1, <2>1, NobodyReads, NobodyInside DEF WriterMustWait, TypeOK, CountInv
  <2>4. Waiters' = Waiters /\ Readers' = {}
    BY <2>1, <2>3 DEF Waiters, Readers, TypeOK
  <2>5. CountInv'
    BY <2>1, <2>3, <2>4 DEF CountInv, TypeOK
  <2>6. HoldInv'
    BY <1>1, <2>1, <2>3 DEF HoldInv, TypeOK, csect_enter_critical_section, WriterMustWait
  <2>7. QueueInv'
    BY <2>1 DEF QueueInv, queueVars
  <2>8. WakeInv'
    BY <2>1 DEF WakeInv, TypeOK
  <2> QED
    BY Zenon, <2>2, <2>5, <2>6, <2>7, <2>8
<1>2. CASE WriterMustWait(t)
  <2>1. /\ rwlock' = rwlock /\ owner' = owner /\ hold' = hold /\ demoted' = demoted
        /\ waiting_writers' = waiting_writers + 1
        /\ waiting_writers_queue' = Append(waiting_writers_queue, t)
        /\ pc' = [pc EXCEPT ![t] = "enter"] /\ pc[t] = "run"
        /\ UNCHANGED <<waiting_promoters_queue, readers_ok>>
        /\ rwlock # 0 \/ owner # NoThread
    BY Zenon, <1>2 DEF csect_enter_critical_section, SleepAsWriter, WriterMustWait
  <2>2. TypeOK'
    BY <2>1 DEF TypeOK
  <2>3. Waiters' = Waiters \union {t} /\ t \notin Waiters /\ Readers' = Readers
    BY Zenon, <2>1 DEF Waiters, Readers, TypeOK
  <2>4. CountInv'
    BY ZenonT(40), <2>1, <2>3, CountUp DEF CountInv, Waiters
  <2>5. hold[t] = 0 /\ t \notin demoted
    BY <1>2, <2>1 DEF csect_enter_critical_section, WriterMustWait, HoldInv, TypeOK
  <2>6. HoldInv'
    BY Zenon, <2>1, <2>5 DEF HoldInv, TypeOK
  <2>7. QueueInv'
    BY <2>1, AppendAtTail DEF QueueInv, TypeOK
  <2>8. WakeInv'
    BY Zenon, <2>1 DEF WakeInv
  <2> QED
    BY <2>2, <2>4, <2>6, <2>7, <2>8
<1> QED
  BY Zenon, <1>1, <1>2

(* The writer's later tests: it takes the section, or queues up again. *)
LEMMA WriterWakesStep ==
  ASSUME Inv, NEW t \in Thread, WriterWakes(t)
  PROVE  Inv'
<1> USE CriticalSectionAssumption DEF Inv
<1>0. pc[t] = "enter" /\ hold[t] = 0 /\ t \notin demoted
  BY Zenon DEF WriterWakes, HoldInv
<1>1. CASE ~WriterMustWait(t)
  <2>1. /\ rwlock = 0 /\ owner = NoThread
        /\ rwlock' = -1 /\ owner' = t
        /\ hold' = [hold EXCEPT ![t] = -1]
        /\ pc' = [pc EXCEPT ![t] = "run"] /\ demoted' = demoted
        /\ waiting_writers' = waiting_writers - 1
        /\ UNCHANGED queueVars
        /\ ~Queued(t, waiting_writers_queue)
    BY <1>0, <1>1
      DEF WriterWakes, TakeAsWriter, WriterMustWait, TypeOK, CountInv, queueVars
  <2>2. Waiters' = Waiters \ {t} /\ t \in Waiters /\ Waiters \in SUBSET Thread
    BY Zenon, <1>0, <2>1 DEF Waiters, TypeOK
  <2>3. Readers' = {}
    BY <2>1, NobodyInside DEF Readers, TypeOK
  <2>9. /\ waiting_writers' = Cardinality(Waiters')
        /\ waiting_writers' \in Nat
    <3>1. Cardinality(Waiters) \in Nat \ {0} /\ Cardinality(Waiters \ {t}) = Cardinality(Waiters) - 1
      BY Zenon, <2>2, CountDown
    <3> QED
      BY <2>1, <2>2, <3>1 DEF CountInv
  <2>4. TypeOK'
    BY <2>1, <2>9 DEF TypeOK, queueVars
  <2>5. CountInv'
    BY <2>1, <2>3, <2>9 DEF CountInv, TypeOK
  <2>6. HoldInv'
    BY <1>0, <2>1, NobodyInside DEF HoldInv, TypeOK
  <2>7. QueueInv'
    BY <1>0, <2>1 DEF QueueInv, queueVars, Queued, TypeOK
  <2>8. WakeInv'
    BY <2>1 DEF WakeInv
  <2> QED
    BY <2>4, <2>5, <2>6, <2>7, <2>8
<1>2. CASE WriterMustWait(t)
  <2>1. /\ rwlock' = rwlock /\ owner' = owner /\ hold' = hold /\ demoted' = demoted
        /\ waiting_writers' = waiting_writers
        /\ waiting_writers_queue' = Append(waiting_writers_queue, t)
        /\ ~Queued(t, waiting_writers_queue)
        /\ \/ waiting_promoters_queue' = waiting_promoters_queue
           \/ waiting_promoters_queue' = Woken(waiting_promoters_queue)
        /\ readers_ok' = readers_ok
        /\ rwlock # 0 \/ owner # NoThread
    BY Zenon, <1>2 DEF WriterWakes, SleepAsWriter, WriterMustWait
  <2>2. pc' = pc
    BY <1>0, <1>2 DEF WriterWakes, SleepAsWriter, TypeOK
  <2>3. TypeOK'
    BY SMTT(30), <2>1, <2>2, WokenShifts DEF TypeOK
  <2>4. CountInv' /\ HoldInv'
    BY Zenon, <2>1, <2>2 DEF CountInv, HoldInv, Waiters, Readers
  <2>5. waiting_promoters_queue' \in {waiting_promoters_queue, << >>}
    BY Zenon, <2>1, OneWoken DEF QueueInv, TypeOK
  <2>6. QueueInv'
    <3>1. Len(waiting_promoters_queue') <= 1
      BY <2>5 DEF QueueInv, TypeOK
    <3>2. \A i \in 1 .. Len(waiting_promoters_queue') : pc'[waiting_promoters_queue'[i]] = "promote"
      BY <2>2, <2>5 DEF QueueInv
    <3>a. /\ Len(waiting_writers_queue') = Len(waiting_writers_queue) + 1
          /\ \A i \in 1 .. Len(waiting_writers_queue) :
               waiting_writers_queue'[i] = waiting_writers_queue[i]
          /\ waiting_writers_queue'[Len(waiting_writers_queue) + 1] = t
          /\ Len(waiting_writers_queue) \in Nat
      BY <2>1, AppendAtTail DEF TypeOK
    <3>3. \A i \in 1 .. Len(waiting_writers_queue') : pc'[waiting_writers_queue'[i]] = "enter"
      <4> SUFFICES ASSUME NEW i \in 1 .. Len(waiting_writers_queue')
                   PROVE  pc[waiting_writers_queue'[i]] = "enter"
        BY Zenon, <2>2
      <4>1. CASE i \in 1 .. Len(waiting_writers_queue)
        BY Zenon, <3>a, <4>1 DEF QueueInv
      <4>2. CASE i = Len(waiting_writers_queue) + 1
        BY Zenon, <1>0, <3>a, <4>2
      <4> QED
        BY <3>a, <4>1, <4>2
    <3>4. \A i, j \in 1 .. Len(waiting_writers_queue') :
            waiting_writers_queue'[i] = waiting_writers_queue'[j] => i = j
      <4> SUFFICES ASSUME NEW i \in 1 .. Len(waiting_writers_queue'),
                          NEW j \in 1 .. Len(waiting_writers_queue'),
                          waiting_writers_queue'[i] = waiting_writers_queue'[j]
                   PROVE  i = j
        BY Zenon
      <4>1. \A k \in 1 .. Len(waiting_writers_queue) : waiting_writers_queue[k] # t
        BY Zenon, <2>1 DEF Queued
      <4> QED
        BY <3>a, <4>1 DEF QueueInv
    <3> QED
      BY Zenon, <2>1, <2>2, <3>1, <3>2, <3>3, <3>4 DEF QueueInv
  <2>7. WakeInv'
    BY Zenon, <2>1, <2>5 DEF WakeInv
  <2> QED
    BY Zenon, <2>3, <2>4, <2>6, <2>7
<1> QED
  BY <1>1, <1>2

(* A reader outside the section, on entry or awake, enters or sleeps. *)
LEMMA ReaderTriesStep ==
  ASSUME Inv, NEW t \in Thread, ReaderTries(t), pc[t] \in {"run", "read"},
         hold[t] = 0, t \notin demoted
  PROVE  Inv'
<1> USE CriticalSectionAssumption DEF Inv
<1>1. /\ UNCHANGED <<owner, waiting_writers, waiting_writers_queue,
                     waiting_promoters_queue, demoted>>
      /\ pc'[t] \in {"run", "read"}
      /\ \A u \in Thread \ {t} : pc'[u] = pc[u]
      /\ pc' \in [Thread -> {"run", "enter", "read", "promote"}]
  BY ZenonT(40) DEF ReaderTries, TypeOK
<1>2. Waiters' = Waiters
  BY Zenon, <1>1 DEF Waiters
<1>3. \A u \in Thread : pc'[u] \in {"enter", "promote"} <=> pc[u] \in {"enter", "promote"}
  BY Zenon, <1>1
<1>4. CASE ~ReaderMustWait
  <2>1. /\ rwlock >= 0 /\ rwlock' = rwlock + 1
        /\ hold' = [hold EXCEPT ![t] = 1]
        /\ pc' = [pc EXCEPT ![t] = "run"]
        /\ readers_ok' = readers_ok \ {t}
    BY <1>4 DEF ReaderTries, ReaderMustWait, TypeOK
  <2>2. TypeOK'
    BY <1>1, <2>1 DEF TypeOK
  <2>3. Readers' = Readers \union {t} /\ t \notin Readers /\ Readers \in SUBSET Thread
    BY <2>1 DEF Readers, TypeOK
  <2>4. CountInv'
    <3>1. Cardinality(Readers') = Cardinality(Readers) + 1
      BY Zenon, <2>3, CountUp
    <3> QED
      BY <1>1, <1>2, <2>1, <3>1 DEF CountInv, TypeOK
  <2>5. HoldInv'
    BY <1>1, <2>1 DEF HoldInv, TypeOK
  <2>6. QueueInv'
    BY <1>1, <2>1 DEF QueueInv, TypeOK
  <2>7. WakeInv'
    BY <2>1 DEF WakeInv, TypeOK
  <2> QED
    BY Zenon, <2>2, <2>4, <2>5, <2>6, <2>7
<1>5. CASE ReaderMustWait
  <2>1. /\ rwlock' = rwlock /\ hold' = hold
        /\ pc' = [pc EXCEPT ![t] = "read"]
        /\ readers_ok' = readers_ok \union {t}
        /\ rwlock < 0 \/ (waiting_writers > 0 /\ owner = NoThread)
    BY Zenon, <1>5 DEF ReaderTries, ReaderMustWait
  <2>2. TypeOK'
    BY Zenon, <1>1, <2>1 DEF TypeOK
  <2>3. CountInv'
    BY Zenon, <1>1, <1>2, <2>1 DEF CountInv, Readers
  <2>4. HoldInv'
    BY Zenon, <1>1, <2>1 DEF HoldInv, TypeOK
  <2>5. QueueInv'
    BY <1>1, <2>1 DEF QueueInv, TypeOK
  <2>6. WakeInv'
    BY <1>1, <2>1 DEF WakeInv, TypeOK
  <2> QED
    BY <2>2, <2>3, <2>4, <2>5, <2>6
<1> QED
  BY Zenon, <1>4, <1>5

(* A call as a reader: the writer goes one level deeper. *)
LEMMA EnterAsReaderStep ==
  ASSUME Inv, NEW t \in Thread, csect_enter_critical_section_as_reader(t)
  PROVE  Inv'
<1> USE CriticalSectionAssumption DEF Inv
<1>1. CASE rwlock < 0 /\ owner = t
  <2>1. /\ rwlock' = rwlock - 1
        /\ hold' = [hold EXCEPT ![t] = rwlock - 1]
        /\ UNCHANGED <<owner, waiting_writers, queueVars, pc, demoted>>
        /\ pc[t] = "run" /\ t \notin demoted
    BY Zenon, <1>1 DEF csect_enter_critical_section_as_reader, CountInv, TypeOK
  <2>2. TypeOK'
    BY <2>1 DEF TypeOK, queueVars
  <2>3. Readers = {}
    BY <1>1, NobodyReads DEF TypeOK
  <2>4. Waiters' = Waiters /\ Readers' = {}
    BY <1>1, <2>1, <2>3 DEF Waiters, Readers, TypeOK
  <2>5. CountInv'
    BY <1>1, <2>1, <2>4 DEF CountInv, TypeOK
  <2>6. HoldInv'
    BY <1>1, <2>1 DEF HoldInv, TypeOK
  <2>7. QueueInv' /\ WakeInv'
    BY <1>1, <2>1 DEF QueueInv, WakeInv, queueVars, TypeOK
  <2> QED
    BY Zenon, <2>2, <2>5, <2>6, <2>7
<1>2. CASE ~(rwlock < 0 /\ owner = t)
  <2>1. hold[t] = 0
    BY <1>2 DEF csect_enter_critical_section_as_reader, HoldInv, TypeOK
  <2> QED
    BY Zenon, <1>2, <2>1, ReaderTriesStep DEF csect_enter_critical_section_as_reader
<1> QED
  BY Zenon, <1>1, <1>2

(* A reader that wakes up, signalled or not, tests its condition again. *)
LEMMA ReaderWakesStep ==
  ASSUME Inv, NEW t \in Thread, ReaderWakes(t) \/ ReaderWakesSpuriously(t)
  PROVE  Inv'
<1>1. pc[t] = "read" /\ ReaderTries(t)
  BY Zenon DEF ReaderWakes, ReaderWakesSpuriously, Inv, QueueInv
<1>2. hold[t] = 0 /\ t \notin demoted
  BY Zenon, <1>1 DEF Inv, HoldInv
<1> QED
  BY Zenon, <1>1, <1>2, ReaderTriesStep

(* The outermost writer becomes the only reader and stays the owner. *)
LEMMA DemoteStep ==
  ASSUME Inv, NEW t \in Thread, csect_demote_critical_section(t)
  PROVE  Inv'
<1> USE CriticalSectionAssumption DEF Inv
<1>1. /\ rwlock < 0 /\ owner = t /\ hold[t] = rwlock /\ pc[t] = "run"
      /\ demoted' = demoted \union {t} /\ readers_ok' = {}
      /\ UNCHANGED <<owner, waiting_writers, waiting_writers_queue,
                     waiting_promoters_queue, pc>>
  BY Zenon DEF csect_demote_critical_section, CountInv
<1>2. Readers = {} /\ Waiters' = Waiters
  BY <1>1, NobodyReads DEF TypeOK, Waiters
<1>3. QueueInv'
  BY <1>1 DEF QueueInv
<1>4. CASE rwlock + 1 < 0
  <2>1. rwlock' = rwlock /\ hold' = hold
    BY Zenon, <1>4, <1>1 DEF csect_demote_critical_section, TypeOK
  <2>2. TypeOK'
    BY Zenon, <1>1, <2>1 DEF TypeOK
  <2>3. CountInv' /\ HoldInv' /\ WakeInv'
    BY <1>1, <1>2, <2>1 DEF CountInv, HoldInv, WakeInv, Readers, TypeOK
  <2> QED
    BY Zenon, <1>3, <2>2, <2>3
<1>5. CASE ~(rwlock + 1 < 0)
  <2>1. rwlock' = 1 /\ hold' = [hold EXCEPT ![t] = 1]
    BY Zenon, <1>5, <1>1 DEF csect_demote_critical_section, TypeOK
  <2>2. TypeOK'
    BY <1>1, <2>1 DEF TypeOK
  <2>3. Readers' = Readers \union {t} /\ t \notin Readers
    BY <1>2, <2>1 DEF Readers, TypeOK
  <2>4. Cardinality(Readers') = 1
    <3>1. Cardinality({} \union {t}) = Cardinality({}) + 1
      BY Zenon, CountUp
    <3> QED
      BY <1>2, <2>3, <3>1, CountZero
  <2>5. CountInv'
    BY <1>1, <1>2, <2>1, <2>4 DEF CountInv, TypeOK
  <2>6. \A u \in Thread \ {t} : hold[u] = 0
    BY <1>1, <1>2 DEF HoldInv, Readers, TypeOK
  <2>7. HoldInv'
    BY <1>1, <2>1, <2>6 DEF HoldInv, TypeOK
  <2>8. WakeInv'
    BY <2>1 DEF WakeInv
  <2> QED
    BY Zenon, <1>3, <2>2, <2>5, <2>7, <2>8
<1> QED
  BY Zenon, <1>4, <1>5

(* The demoted thread gives up its hold, and takes the section or sleeps. *)
LEMMA PromoteStep ==
  ASSUME Inv, NEW t \in Thread, csect_promote_critical_section(t)
  PROVE  Inv'
<1> USE CriticalSectionAssumption DEF Inv
<1>1. /\ pc[t] = "run" /\ t \in demoted /\ owner = t /\ hold[t] # 0 /\ hold[t] <= 1
      /\ rwlock # 0
      /\ UNCHANGED <<waiting_writers_queue, readers_ok>>
  BY Zenon, NobodyInside DEF csect_promote_critical_section, HoldInv
<1>2. CASE rwlock < 0
  <2>1. /\ hold[t] = rwlock
        /\ AfterRelease = rwlock + 1 /\ ~PromoterMustWait(t, AfterRelease)
    BY <1>1, <1>2 DEF CountInv, TypeOK, AfterRelease, PromoterMustWait
  <2>2. /\ rwlock' = rwlock /\ owner' = owner /\ hold' = hold /\ demoted' = demoted \ {t}
        /\ UNCHANGED <<waiting_writers, waiting_promoters_queue, pc>>
    BY <1>1, <2>1 DEF csect_promote_critical_section, TypeOK
  <2>3. TypeOK'
    BY Zenon, <1>1, <2>2 DEF TypeOK
  <2>4. CountInv' /\ QueueInv' /\ WakeInv'
    BY <1>1, <2>2 DEF CountInv, QueueInv, WakeInv, Waiters, Readers
  <2>5. HoldInv'
    BY <1>1, <1>2, <2>2 DEF HoldInv, TypeOK
  <2> QED
    BY Zenon, <2>3, <2>4, <2>5
<1>3. CASE rwlock > 0
  <2>1. hold[t] = 1 /\ AfterRelease = rwlock - 1
    BY <1>1, <1>3 DEF HoldInv, AfterRelease, TypeOK
  <2>2. /\ t \in Readers /\ Readers \in SUBSET Thread
        /\ rwlock = Cardinality(Readers)
    BY <1>3, <2>1 DEF Readers, CountInv, TypeOK
  <2>3. Cardinality(Readers \ {t}) = rwlock - 1
    BY Zenon, <2>2, CountDown
  <2>4. CASE rwlock = 1
    <3>1. /\ rwlock' = -1 /\ owner' = t /\ hold' = [hold EXCEPT ![t] = -1]
          /\ demoted' = demoted \ {t}
          /\ UNCHANGED <<waiting_writers, waiting_promoters_queue, pc>>
      BY <2>1, <2>4 DEF csect_promote_critical_section, PromoterMustWait
    <3>2. Readers \ {t} = {}
      BY <2>2, <2>3, <2>4, CountZero
    <3>3. Readers' = {} /\ Waiters' = Waiters
      BY <3>1, <3>2 DEF Readers, Waiters, TypeOK
    <3>4. TypeOK'
      BY <1>1, <3>1 DEF TypeOK
    <3>5. CountInv'
      BY <3>1, <3>3 DEF CountInv, TypeOK
    <3>6. HoldInv'
      BY <1>1, <3>1 DEF HoldInv, TypeOK
    <3>7. QueueInv' /\ WakeInv'
      BY <1>1, <3>1 DEF QueueInv, WakeInv
    <3> QED
      BY <3>4, <3>5, <3>6, <3>7
  <2>5. CASE rwlock # 1
    <3>1. /\ rwlock' = rwlock - 1 /\ hold' = [hold EXCEPT ![t] = 0]
          /\ waiting_writers' = waiting_writers + 1
          /\ waiting_promoters_queue' = Append(waiting_promoters_queue, t)
          /\ pc' = [pc EXCEPT ![t] = "promote"]
          /\ UNCHANGED <<owner, demoted>>
      BY <1>3, <2>1, <2>5 DEF csect_promote_critical_section, PromoterMustWait, TypeOK
    <3>2. Readers' = Readers \ {t} /\ Waiters' = Waiters \union {t} /\ t \notin Waiters
      BY <1>1, <3>1 DEF Readers, Waiters, TypeOK
    <3>3. TypeOK'
      BY <1>1, <3>1 DEF TypeOK
    <3>4. Cardinality(Waiters') = Cardinality(Waiters) + 1
      BY Zenon, <3>2, CountUp DEF Waiters
    <3>5. CountInv'
      BY <1>3, <2>3, <2>5, <3>1, <3>2, <3>4 DEF CountInv, TypeOK
    <3>6. HoldInv'
      BY <1>1, <1>3, <3>1 DEF HoldInv, TypeOK
    <3>7. waiting_promoters_queue = << >>
      <4>1. ASSUME waiting_promoters_queue # << >> PROVE FALSE
        <5>1. Len(waiting_promoters_queue) \in Nat \ {0}
          BY Zenon, <4>1, EmptySeq DEF TypeOK
        <5>2. waiting_promoters_queue[1] \in Thread /\ pc[waiting_promoters_queue[1]] = "promote"
          BY <5>1 DEF QueueInv, TypeOK
        <5> QED
          BY Zenon, <1>1, <5>2 DEF HoldInv
      <4> QED
        BY Zenon, <4>1
    <3>8. QueueInv'
      BY <1>1, <3>1, <3>7 DEF QueueInv, TypeOK
    <3>9. WakeInv'
      BY <1>3, <2>5, <3>1 DEF WakeInv, TypeOK
    <3> QED
      BY <3>3, <3>5, <3>6, <3>8, <3>9
  <2> QED
    BY Zenon, <2>4, <2>5
<1> QED
  BY <1>1, <1>2, <1>3 DEF TypeOK

(* The promoter, awake, takes the section unless a reader is inside. *)
LEMMA PromoterWakesStep ==
  ASSUME Inv, NEW t \in Thread, PromoterWakes(t)
  PROVE  Inv'
<1> USE CriticalSectionAssumption DEF Inv
<1>1. /\ pc[t] = "promote" /\ t \in demoted /\ owner = t /\ hold[t] = 0
      /\ UNCHANGED <<waiting_writers_queue, readers_ok>>
  BY Zenon DEF PromoterWakes, HoldInv
<1>2. rwlock >= 0
  BY <1>1 DEF CountInv, TypeOK
<1>3. waiting_promoters_queue = << >>
  <2>1. ASSUME waiting_promoters_queue # << >> PROVE FALSE
    <3>1. Len(waiting_promoters_queue) \in Nat \ {0}
      BY <2>1, EmptySeq DEF TypeOK
    <3>2. waiting_promoters_queue[1] \in Thread /\ pc[waiting_promoters_queue[1]] = "promote"
      BY <3>1 DEF QueueInv, TypeOK
    <3>3. waiting_promoters_queue[1] = t
      BY <1>1, <3>2 DEF HoldInv
    <3> QED
      BY <3>1, <3>3 DEF PromoterWakes, Queued
  <2> QED
    BY <2>1
<1>4. CASE rwlock = 0
  <2>1. /\ rwlock' = -1 /\ owner' = t /\ hold' = [hold EXCEPT ![t] = -1]
        /\ pc' = [pc EXCEPT ![t] = "run"]
        /\ waiting_writers' = waiting_writers - 1
        /\ demoted' = demoted \ {t}
        /\ waiting_promoters_queue' = waiting_promoters_queue
    BY <1>1, <1>4 DEF PromoterWakes, PromoterMustWait, TakeAsWriter, TypeOK
  <2>2. Waiters' = Waiters \ {t} /\ t \in Waiters /\ Waiters \in SUBSET Thread
    BY Zenon, <1>1, <2>1 DEF Waiters, TypeOK
  <2>3. Readers' = {}
    BY <1>4, <2>1, NobodyInside DEF Readers, TypeOK
  <2>4. waiting_writers' = Cardinality(Waiters') /\ waiting_writers' \in Nat
    <3>1. Cardinality(Waiters) \in Nat \ {0} /\ Cardinality(Waiters \ {t}) = Cardinality(Waiters) - 1
      BY <2>2, CountDown
    <3> QED
      BY <2>1, <2>2, <3>1 DEF CountInv
  <2>5. TypeOK'
    BY <1>1, <2>1, <2>4 DEF TypeOK
  <2>6. CountInv'
    BY <2>1, <2>3, <2>4 DEF CountInv, TypeOK
  <2>7. HoldInv'
    BY <1>1, <1>4, <2>1, NobodyInside DEF HoldInv, TypeOK
  <2>8. QueueInv'
    BY <1>1, <1>3, <2>1 DEF QueueInv, TypeOK
  <2>9. WakeInv'
    BY <2>1 DEF WakeInv
  <2> QED
    BY <2>5, <2>6, <2>7, <2>8, <2>9
<1>5. CASE rwlock # 0
  <2>1. /\ waiting_promoters_queue' = Append(waiting_promoters_queue, t)
        /\ UNCHANGED <<lockVars, pc, hold, demoted>>
    BY <1>1, <1>2, <1>5 DEF PromoterWakes, PromoterMustWait, TypeOK
  <2>2. TypeOK'
    BY <1>1, <2>1 DEF TypeOK, lockVars
  <2>3. CountInv' /\ HoldInv'
    BY Zenon, <2>1 DEF CountInv, HoldInv, Waiters, Readers, lockVars
  <2>4. QueueInv'
    BY <1>1, <1>3, <2>1 DEF QueueInv, TypeOK
  <2>5. WakeInv'
    BY Zenon, <1>5, <2>1 DEF WakeInv, lockVars
  <2> QED
    BY <2>2, <2>3, <2>4, <2>5
<1> QED
  BY Zenon, <1>4, <1>5

(* What the last one out leaves behind: when nobody is inside, a writer is   *)
(* awake, or there is none and every reader is; a reserved section has its   *)
(* promoter awake.                                                           *)
LEMMA WakeUpStep ==
  ASSUME Inv, NEW rw \in Nat, NEW own \in Thread \union {NoThread}, WakeUp(rw, own),
         pc' = pc, waiting_writers' = waiting_writers, rwlock' = rw, owner' = own,
         own # NoThread => own \in demoted /\ (rw = 0 => pc[own] = "promote"),
         own = NoThread => demoted = {}
  PROVE  /\ QueueInv' /\ WakeInv'
         /\ waiting_writers_queue' \in Seq(Thread)
         /\ waiting_promoters_queue' \in Seq(Thread)
         /\ readers_ok' \subseteq Thread
<1> USE CriticalSectionAssumption DEF Inv
<1> DEFINE q == waiting_writers_queue
<1>1. waiting_promoters_queue' \in {waiting_promoters_queue, << >>}
  <2>1. Woken(waiting_promoters_queue) = << >>
    BY Zenon, OneWoken DEF QueueInv, TypeOK
  <2> QED
    BY Zenon, <2>1 DEF WakeUp
<1>2. q' \in {q, Woken(q)} /\ readers_ok' \in {readers_ok, {}}
  BY Zenon DEF WakeUp
<1>3. /\ q' \in Seq(Thread) /\ waiting_promoters_queue' \in Seq(Thread)
      /\ readers_ok' \subseteq Thread
  <2>1. q \in Seq(Thread) /\ Woken(q) \in Seq(Thread)
    BY Zenon, WokenShifts DEF TypeOK
  <2>2. waiting_promoters_queue \in Seq(Thread) /\ << >> \in Seq(Thread)
    BY DEF TypeOK
  <2> QED
    BY ZenonT(40), <1>1, <1>2, <2>1, <2>2 DEF TypeOK
<1>4. /\ Len(Woken(q)) \in Nat /\ Len(q) \in Nat
      /\ \/ q = << >> /\ Woken(q) = << >>
         \/ /\ q # << >> /\ Len(q) > 0 /\ Len(Woken(q)) = Len(q) - 1
            /\ \A i \in 1 .. Len(Woken(q)) : Woken(q)[i] = q[i + 1]
  <2>1. q \in Seq(Thread)
    BY Zenon DEF TypeOK
  <2> HIDE DEF q
  <2>2. Woken(q) \in Seq(Thread)
    BY Zenon, <2>1, WokenShifts
  <2>3. Len(Woken(q)) \in Nat /\ Len(q) \in Nat
    BY Zenon, <2>1, <2>2, LenProperties
  <2> QED
    BY Zenon, <2>1, <2>3, WokenShifts
<1>5. /\ \A i \in 1 .. Len(Woken(q)) : pc[Woken(q)[i]] = "enter"
      /\ \A i, j \in 1 .. Len(Woken(q)) : Woken(q)[i] = Woken(q)[j] => i = j
  <2>1. CASE q = << >>
    BY <1>4, <2>1 DEF QueueInv
  <2>2. CASE q # << >>
    <3> HIDE DEF q
    <3>1. \A i \in 1 .. Len(Woken(q)) : i + 1 \in 1 .. Len(q) /\ Woken(q)[i] = q[i + 1]
      BY <1>4, <2>2
    <3>2. /\ \A i \in 1 .. Len(q) : pc[q[i]] = "enter"
          /\ \A i, j \in 1 .. Len(q) : q[i] = q[j] => i = j
      BY Zenon DEF QueueInv, q
    <3>3. \A i, j \in 1 .. Len(Woken(q)) : Woken(q)[i] = Woken(q)[j] => i = j
      <4> SUFFICES ASSUME NEW i \in 1 .. Len(Woken(q)), NEW j \in 1 .. Len(Woken(q)),
                          Woken(q)[i] = Woken(q)[j]
                   PROVE  i = j
        BY Zenon
      <4>1. i + 1 = j + 1
        BY SMTT(30), <3>1, <3>2
      <4> QED
        BY <4>1
    <3> QED
      BY <3>1, <3>2, <3>3
  <2> QED
    BY Zenon, <2>1, <2>2
<1>6. QueueInv'
  <2>1. /\ \A i \in 1 .. Len(q') : pc[q'[i]] = "enter"
        /\ \A i, j \in 1 .. Len(q') : q'[i] = q'[j] => i = j
    BY <1>2, <1>5 DEF QueueInv
  <2>2. /\ Len(waiting_promoters_queue') <= 1
        /\ \A i \in 1 .. Len(waiting_promoters_queue') : pc[waiting_promoters_queue'[i]] = "promote"
    BY <1>1 DEF QueueInv
  <2>3. \A t \in readers_ok' : pc[t] = "read"
    BY Zenon, <1>2 DEF QueueInv
  <2> QED
    BY Zenon, <2>1, <2>2, <2>3 DEF QueueInv
<1>7. ASSUME rw = 0, own = NoThread, waiting_writers > 0
      PROVE  \E t \in Thread : pc[t] = "enter" /\ ~Queued(t, q')
  <2>0. q' = Woken(q)
    BY Zenon, <1>7 DEF WakeUp
  <2>1. CASE q = << >>
    <3>1. Waiters # {} /\ Waiters \in SUBSET Thread
      BY <1>7, CountZero DEF CountInv, Waiters
    <3>2. PICK t \in Thread : pc[t] \in {"enter", "promote"}
      BY Zenon, <3>1 DEF Waiters
    <3>3. pc[t] = "enter"
      BY Zenon, <1>7, <3>2 DEF HoldInv
    <3> QED
      BY <1>4, <2>0, <2>1, <3>3 DEF Queued
  <2>2. CASE q # << >>
    <3>1. q[1] \in Thread /\ pc[q[1]] = "enter"
      BY <1>4, <2>2 DEF QueueInv, TypeOK
    <3>2. \A i \in 1 .. Len(Woken(q)) : Woken(q)[i] # q[1]
      <4> SUFFICES ASSUME NEW i \in 1 .. Len(Woken(q)), Woken(q)[i] = q[1]
                   PROVE  FALSE
        BY Zenon
      <4>1. i + 1 \in 1 .. Len(q) /\ q[i + 1] = q[1] /\ 1 \in 1 .. Len(q) /\ i + 1 # 1
        BY <1>4, <2>2
      <4> QED
        BY Zenon, <4>1 DEF QueueInv
    <3> QED
      BY Zenon, <2>0, <3>1, <3>2 DEF Queued
  <2> QED
    BY Zenon, <2>1, <2>2
<1>8. ASSUME rw = 0, own = NoThread, waiting_writers = 0
      PROVE  readers_ok' = {}
  BY <1>8 DEF WakeUp
<1>9. ASSUME rw = 0, own # NoThread
      PROVE  waiting_promoters_queue' = << >>
  <2>1. own \in Waiters /\ Waiters \in SUBSET Thread
    BY Zenon, <1>9 DEF Waiters
  <2>2. waiting_writers > 0
    <3>1. Cardinality(Waiters) \in Nat \ {0}
      BY ZenonT(40), <2>1, CountDown
    <3> QED
      BY <3>1 DEF CountInv
  <2>3. Woken(waiting_promoters_queue) = << >>
    BY OneWoken DEF QueueInv, TypeOK
  <2> QED
    BY Zenon, <1>9, <2>2, <2>3 DEF WakeUp
<1>10. WakeInv'
  BY Zenon, <1>7, <1>8, <1>9 DEF WakeInv
<1> QED
  BY Zenon, <1>3, <1>6, <1>10

(* The exit of the writer, from an inner level or from the outermost. *)
LEMMA ExitWriterStep ==
  ASSUME Inv, NEW t \in Thread, csect_exit_critical_section(t), ExitWriter(t)
  PROVE  Inv'
<1> USE CriticalSectionAssumption DEF Inv
<1>1. /\ rwlock < 0 /\ hold[t] # 0 /\ t \notin demoted /\ pc[t] = "run"
      /\ rwlock' = rwlock + 1 /\ hold' = [hold EXCEPT ![t] = @ + 1]
      /\ UNCHANGED <<waiting_writers, pc, demoted>>
  BY Zenon DEF csect_exit_critical_section, ExitWriter
<1>2. Readers = {} /\ owner = t /\ hold[t] = rwlock
  <2>1. Readers = {}
    BY <1>1, NobodyReads DEF TypeOK
  <2>2. hold[t] < 0
    BY <1>1, <2>1 DEF Readers, TypeOK
  <2> QED
    BY Zenon, <1>1, <2>1, <2>2 DEF HoldInv, CountInv
<1>3. \A u \in Thread \ {t} : hold[u] = 0 /\ u \notin demoted
  BY <1>2 DEF HoldInv, Readers, TypeOK
<1>4. Readers' = {} /\ Waiters' = Waiters
  BY <1>1, <1>2, <1>3 DEF Readers, Waiters, TypeOK
<1>5. CASE rwlock + 1 < 0
  <2>1. UNCHANGED <<owner, queueVars>>
    BY <1>5 DEF ExitWriter
  <2>2. TypeOK'
    BY <1>1, <2>1 DEF TypeOK, queueVars
  <2>3. CountInv'
    BY <1>1, <1>2, <1>4, <1>5, <2>1 DEF CountInv, TypeOK
  <2>4. HoldInv'
    BY SMTT(30), <1>1, <1>2, <1>3, <1>5, <2>1 DEF HoldInv, TypeOK
  <2>5. QueueInv' /\ WakeInv'
    BY <1>1, <1>5, <2>1 DEF QueueInv, WakeInv, queueVars
  <2> QED
    BY Zenon, <2>2, <2>3, <2>4, <2>5
<1>6. CASE rwlock + 1 = 0
  <2>1. rwlock' = 0 /\ owner' = NoThread /\ WakeUp(0, NoThread)
    BY <1>1, <1>6 DEF ExitWriter
  <2>2. demoted = {}
    BY Zenon, <1>1, <1>3 DEF TypeOK
  <2>3. /\ QueueInv' /\ WakeInv'
        /\ waiting_writers_queue' \in Seq(Thread)
        /\ waiting_promoters_queue' \in Seq(Thread)
        /\ readers_ok' \subseteq Thread
    BY Zenon, <1>1, <2>1, <2>2, WakeUpStep
  <2>4. TypeOK'
    BY <1>1, <2>1, <2>3 DEF TypeOK
  <2>5. Cardinality(Readers') = 0
    BY Zenon, <1>4, CountZero
  <2>6. CountInv'
    BY <1>1, <1>4, <2>1, <2>5 DEF CountInv
  <2>7. \A u \in Thread : hold'[u] = 0
    BY Zenon, <1>1, <1>2, <1>3, <1>6 DEF TypeOK
  <2>8. HoldInv'
    BY SMTT(30), <1>1, <2>1, <2>2, <2>7 DEF HoldInv
  <2> QED
    BY Zenon, <2>3, <2>4, <2>6, <2>8
<1> QED
  BY Zenon, <1>1, <1>5, <1>6 DEF ExitWriter

(* The exit of a reader that is not the demoted writer. *)
LEMMA ExitReaderStep ==
  ASSUME Inv, NEW t \in Thread, csect_exit_critical_section(t), ExitReader(t)
  PROVE  Inv'
<1> USE CriticalSectionAssumption DEF Inv
<1>1. /\ rwlock > 0 /\ hold[t] # 0 /\ t \notin demoted /\ pc[t] = "run"
      /\ rwlock' = rwlock - 1 /\ hold' = [hold EXCEPT ![t] = @ - 1]
      /\ UNCHANGED <<waiting_writers, pc, demoted, owner>>
      /\ WakeUp(rwlock - 1, owner)
  BY Zenon DEF csect_exit_critical_section, ExitReader
<1>2. hold[t] = 1
  BY <1>1 DEF HoldInv, TypeOK
<1>3. /\ Readers' = Readers \ {t} /\ t \in Readers /\ Readers \in SUBSET Thread
      /\ Waiters' = Waiters
  BY <1>1, <1>2 DEF Readers, Waiters, TypeOK
<1>4. /\ rwlock = Cardinality(Readers) /\ rwlock - 1 \in Nat
      /\ Cardinality(Readers') = rwlock - 1
  <2>1. rwlock = Cardinality(Readers)
    BY <1>1 DEF CountInv, TypeOK
  <2>2. Cardinality(Readers) \in Nat \ {0} /\ Cardinality(Readers \ {t}) = Cardinality(Readers) - 1
    BY Zenon, <1>3, CountDown
  <2> QED
    BY <1>3, <2>1, <2>2
<1>5. \A u \in Thread : hold'[u] \in {0, 1}
  BY <1>1, <1>2 DEF HoldInv, TypeOK
<1>6. owner # NoThread => owner \in demoted /\ (rwlock - 1 = 0 => pc[owner] = "promote")
  <2> SUFFICES ASSUME owner # NoThread
               PROVE  owner \in demoted /\ (rwlock - 1 = 0 => pc[owner] = "promote")
    BY Zenon
  <2>1. owner \in demoted /\ owner # t
    BY <1>1 DEF HoldInv, TypeOK
  <2>2. ASSUME rwlock - 1 = 0 PROVE pc[owner] = "promote"
    <3>1. Readers \ {t} = {}
      BY Zenon, <1>3, <1>4, <2>2, CountZero
    <3>2. hold[owner] = 0
      BY <1>1, <2>1, <3>1 DEF Readers, HoldInv, TypeOK
    <3> QED
      BY Zenon, <2>1, <3>2 DEF HoldInv
  <2> QED
    BY Zenon, <2>1, <2>2
<1>7. owner = NoThread => demoted = {}
  BY Zenon DEF HoldInv, TypeOK
<1>8. /\ QueueInv' /\ WakeInv'
      /\ waiting_writers_queue' \in Seq(Thread)
      /\ waiting_promoters_queue' \in Seq(Thread)
      /\ readers_ok' \subseteq Thread
  <2>1. owner \in Thread \union {NoThread}
    BY Zenon DEF TypeOK
  <2> QED
    BY ZenonT(40), <1>1, <1>4, <1>6, <1>7, <2>1, WakeUpStep
<1>9. TypeOK'
  BY <1>1, <1>8 DEF TypeOK
<1>10. CountInv'
  BY <1>1, <1>3, <1>4 DEF CountInv
<1>11. HoldInv'
  BY <1>1, <1>2, <1>5 DEF HoldInv, TypeOK
<1> QED
  BY <1>8, <1>9, <1>10, <1>11

-----------------------------------------------------------------------------
(* Every step keeps the invariant. *)
LEMMA NextInv == Inv /\ [Next]_vars => Inv'
<1> SUFFICES ASSUME Inv, [Next]_vars PROVE Inv'
  BY Zenon
<1>1. CASE UNCHANGED vars
  <2>1. Waiters' = Waiters /\ Readers' = Readers
    BY Zenon, <1>1 DEF vars, Waiters, Readers
  <2> QED
    BY <1>1, <2>1
      DEF vars, lockVars, queueVars, Inv, TypeOK, CountInv, HoldInv, QueueInv, WakeInv
<1>2. ASSUME NEW t \in Thread,
             Request(t) \/ Proceed(t) \/ ReaderWakesSpuriously(t)
      PROVE  Inv'
  <2>1. CASE csect_exit_critical_section(t)
    BY Zenon, <2>1, ExitWriterStep, ExitReaderStep DEF csect_exit_critical_section
  <2> QED
    BY SMTT(30), <1>2, <2>1, EnterStep, WriterWakesStep, EnterAsReaderStep, ReaderWakesStep,
       DemoteStep, PromoteStep, PromoterWakesStep DEF Request, Proceed
<1> QED
  BY Zenon, <1>1, <1>2 DEF Next

(* In every behaviour the invariant holds. *)
LEMMA Invariant == Spec => []Inv
  BY InitInv, NextInv, PTL DEF Spec

(* The fields of CSS_CRITICAL_SECTION keep their types; in particular the    *)
(* count of waiting writers never goes below zero.                           *)
THEOREM SectionTypeCorrect == Spec => []TypeOK
<1>1. Inv => TypeOK
  BY Zenon DEF Inv
<1> QED
  BY <1>1, Invariant, PTL

(* csect_enter excludes: whatever the threads do, a writer is alone. *)
THEOREM WriterIsAlone == Spec => []MutualExclusion
<1>1. Inv => MutualExclusion
  <2> SUFFICES ASSUME Inv, NEW t \in Thread, hold[t] < 0, NEW u \in Thread \ {t}
               PROVE  hold[u] = 0
    BY Zenon DEF MutualExclusion
  <2>1. rwlock < 0 /\ owner = t /\ Readers = {}
    BY Zenon DEF Inv, HoldInv, CountInv
  <2> QED
    BY <2>1 DEF Inv, HoldInv, TypeOK, Readers
<1> QED
  BY <1>1, Invariant, PTL

(* rwlock always says who is inside, so csect_exit never meets zero. *)
THEOREM RwlockCorrect == Spec => []RwlockCountsHolders
<1>1. Inv => RwlockCountsHolders
  <2> SUFFICES ASSUME Inv PROVE RwlockCountsHolders
    BY Zenon
  <2>1. \A t \in Thread : hold[t] < 0 => rwlock = hold[t] /\ owner = t
    BY Zenon DEF Inv, HoldInv, CountInv
  <2>2. ASSUME \A t \in Thread : hold[t] >= 0 PROVE rwlock = Cardinality(Readers)
    <3>1. rwlock >= 0
      BY <2>2, CriticalSectionAssumption DEF Inv, CountInv, TypeOK
    <3> QED
      BY Zenon, <3>1 DEF Inv, CountInv
  <2> QED
    BY Zenon, <2>1, <2>2 DEF RwlockCountsHolders
<1> QED
  BY <1>1, Invariant, PTL

(* Between csect_demote and the return of csect_promote nobody else writes. *)
THEOREM DemotedIsProtected == Spec => []NoWriterWhileDemoted
<1>1. Inv => NoWriterWhileDemoted
  BY DEF Inv, TypeOK, HoldInv, NoWriterWhileDemoted
<1> QED
  BY <1>1, Invariant, PTL

(* As long as somebody sleeps, somebody inside the section or a call is awake. *)
THEOREM WakeupsNotLost == Spec => []NoLostWakeup
<1>1. Inv => NoLostWakeup
  <2> SUFFICES ASSUME Inv, NEW t \in Thread, Asleep(t)
               PROVE  \E u \in Thread : ~Asleep(u) /\ (hold[u] # 0 \/ pc[u] # "run")
    BY Zenon DEF NoLostWakeup
  <2>1. \A u \in Thread : hold[u] # 0 => ~Asleep(u)
    BY Zenon DEF Inv, HoldInv, Asleep
  <2>2. CASE rwlock < 0
    <3>1. owner \in Thread /\ hold[owner] # 0
      BY <2>2 DEF Inv, CountInv, TypeOK
    <3> QED
      BY Zenon, <2>1, <3>1
  <2>3. CASE rwlock > 0
    <3>1. Readers \in SUBSET Thread /\ Readers # {}
      BY <2>3, CountZero DEF Inv, CountInv, TypeOK, Readers
    <3>2. PICK u \in Thread : hold[u] > 0
      BY Zenon, <3>1 DEF Readers
    <3> QED
      BY SMTT(30), <2>1, <3>2 DEF Inv, TypeOK
  <2>4. CASE rwlock = 0 /\ owner # NoThread
    <3>1. owner \in demoted /\ owner \in Thread /\ waiting_promoters_queue = << >>
      BY <2>4 DEF Inv, HoldInv, WakeInv, TypeOK
    <3>2. hold[owner] = 0
      BY Zenon, <2>4, <3>1, NobodyInside
    <3>3. pc[owner] = "promote"
      BY SMTT(30), <3>1, <3>2 DEF Inv, HoldInv
    <3>4. ~Asleep(owner)
      BY <3>1, <3>3 DEF Asleep, Queued
    <3> QED
      BY Zenon, <3>1, <3>3, <3>4
  <2>5. CASE rwlock = 0 /\ owner = NoThread
    <3>1. waiting_writers > 0
      <4>1. CASE pc[t] = "read"
        BY <2>5, <4>1 DEF Asleep, Inv, WakeInv, TypeOK
      <4>2. CASE pc[t] \in {"enter", "promote"}
        <5>1. t \in Waiters /\ Waiters \in SUBSET Thread
          BY Zenon, <4>2 DEF Waiters
        <5>2. Cardinality(Waiters) \in Nat \ {0}
          BY ZenonT(40), <5>1, CountDown
        <5> QED
          BY <5>2 DEF Inv, CountInv
      <4> QED
        BY Zenon, <4>1, <4>2 DEF Asleep
    <3>2. PICK u \in Thread : pc[u] = "enter" /\ ~Queued(u, waiting_writers_queue)
      BY Zenon, <2>5, <3>1 DEF Inv, WakeInv
    <3> QED
      BY Zenon, <3>2 DEF Asleep
  <2> QED
    BY <2>2, <2>3, <2>4, <2>5 DEF Inv, TypeOK
<1> QED
  BY <1>1, Invariant, PTL
=============================================================================
