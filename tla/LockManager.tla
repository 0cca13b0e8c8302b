---------------------------- MODULE LockManager ----------------------------
(***************************************************************************)
(* The lock manager of a server: lock_manager.c with the tables of         *)
(* lock_table.c, and the deadlock detection thread of thread.c.  A         *)
(* resource has a list of holders, the upgraders that are blocked first,   *)
(* and a queue of waiters.  Every operation on a resource runs under its   *)
(* mutex and is one step; the thread of a request that cannot be granted   *)
(* sleeps, and whoever wakes it (a grant, its lock timeout, the deadlock   *)
(* detector) only changes the state of the thread: a thread that did not   *)
(* get its lock takes its own entry out of the list, in a later step.      *)
(* A transaction has one thread.  The transactions are numbered by age.    *)
(***************************************************************************)
EXTENDS Integers, FiniteSets, FiniteSetsExt, Sequences, SequencesExt

CONSTANTS NumTrans,    \* the transactions are 1..NumTrans, the last the youngest
          Res,         \* the lockable objects
          ModesOf,     \* the modes that are requested on each of them
          CanTimeout,  \* the transactions with a finite lock timeout
          MaxRequests, \* bounds the lock requests of each transaction
          MaxWakeups,  \* bounds the timeouts and interrupts
          Races        \* the windows of the code that a run explores, see below

\* "stale": something happens on a resource between the wakeup of a blocked
\*   holder by a timeout or as a victim and the moment it takes its request back;
\* "sleep": a thread suspends between the check of the detection thread that no
\*   thread is waiting and the moment it goes to sleep.
Window == {"stale", "sleep"}

Tran == 1..NumTrans

LOCK == {"NULL", "SCH_S", "IS", "S", "IX", "SIX", "U", "X", "SCH_M"}

ASSUME LockManagerAssumption ==
  /\ NumTrans \in Nat \ {0} /\ CanTimeout \subseteq Tran
  /\ ModesOf \in [Res -> SUBSET (LOCK \ {"NULL"})]
  /\ MaxRequests \in [Tran -> Nat] /\ MaxWakeups \in Nat
  /\ Races \subseteq Window

VARIABLES
  res,      \* per object: the holders, the waiters and the total mode of each list
  thr,      \* the thread of a transaction: its state and the object it waits for
  requests, \* how many requests a transaction made
  detector, \* where the deadlock detection thread is
  todo,     \* the objects it has not scanned
  edges,    \* the wait-for graph: <<waiting, waited for, holder_flag>>
  victims,  \* the victims it selected and has not woken
  DL_victim,\* the transactions it woke to be aborted
  wakeups   \* how many timeouts and interrupts happened

vars == <<res, thr, requests, detector, todo, edges, victims, DL_victim, wakeups>>

-----------------------------------------------------------------------------
(* lock_table.c.  The pairs that the tables mark N/A do not meet on an     *)
(* object: U is requested on instances only, the intention and schema      *)
(* modes on classes only.                                                  *)

\* A row of lock_Comp: the current modes that a request is compatible with.
CompRow ==
  [NULL  |-> LOCK,
   SCH_S |-> {"NULL", "SCH_S", "IS", "S", "IX", "SIX", "X"},
   IS    |-> {"NULL", "SCH_S", "IS", "S", "IX", "SIX"},
   S     |-> {"NULL", "SCH_S", "IS", "S"},
   IX    |-> {"NULL", "SCH_S", "IS", "IX"},
   SIX   |-> {"NULL", "SCH_S", "IS"},
   U     |-> {"NULL", "S"},
   X     |-> {"NULL", "SCH_S"},
   SCH_M |-> {"NULL"}]

Comp(request, current) == current \in CompRow[request]

\* The modes that a mode includes.
Includes ==
  [NULL  |-> {"NULL"},
   SCH_S |-> {"NULL", "SCH_S"},
   IS    |-> {"NULL", "SCH_S", "IS"},
   S     |-> {"NULL", "SCH_S", "IS", "S"},
   IX    |-> {"NULL", "SCH_S", "IS", "IX"},
   SIX   |-> {"NULL", "SCH_S", "IS", "S", "IX", "SIX"},
   U     |-> {"NULL", "S", "U"},
   X     |-> LOCK \ {"SCH_M"},
   SCH_M |-> LOCK \ {"U"}]

\* lock_Conv, folded over a set of modes: the least mode that includes them all.
ConvAll(modes) ==
  LET all == {m \in LOCK : modes \subseteq Includes[m]}
  IN  IF all = {} THEN "NULL" ELSE CHOOSE m \in all : \A n \in all : m \in Includes[n]

Conv(a, b) == ConvAll({a, b})

-----------------------------------------------------------------------------
(* The lists of a resource.                                                *)

\* The total mode of a list: of the granted modes, of the blocked ones, of both.
GrantedModes(list) == {list[i].granted : i \in DOMAIN list}
BlockedModes(list) == {list[i].blocked : i \in DOMAIN list}
Granted(list) == ConvAll(GrantedModes(list))
Blocked(list) == ConvAll(BlockedModes(list))
Total(list) == ConvAll(GrantedModes(list) \cup BlockedModes(list))

Places(list, Test(_)) == {i \in DOMAIN list : Test(list[i])}
PlaceOf(list, t) == CHOOSE i \in DOMAIN list : list[i].tran = t
TransOf(list) == {list[i].tran : i \in DOMAIN list}
Without(list, t) == SelectSeq(list, LAMBDA e : e.tran # t)
From(list, k) == SubSeq(list, k, Len(list))

\* Mutant of Position: an entry always goes to the front.
PositionFirst(holder, e) == <<e>> \o holder

\* lock_position_holder_entry: the upgrader positioning rule.
Position(holder, e) ==
  LET unblocked == Places(holder, LAMBDA h : h.blocked = "NULL")
      ta == Places(holder, LAMBDA h : /\ h.blocked # "NULL"
                                      /\ Comp(e.blocked, h.blocked))
      tb == Places(holder, LAMBDA h : /\ h.blocked # "NULL"
                                      /\ Comp(e.blocked, h.granted)
                                      /\ ~Comp(h.blocked, e.granted))
      before == IF e.blocked # "NULL" /\ ta # {} THEN ta
                ELSE IF e.blocked # "NULL" /\ tb # {} THEN tb
                ELSE unblocked
  IN  InsertAt(holder, IF before = {} THEN Len(holder) + 1 ELSE Min(before), e)

\* An entry whose request is granted.
AsGranted(e) == [e EXCEPT !.granted = e.blocked, !.blocked = "NULL"]

\* lock_grant_blocked_holder: the blocked holders are granted in their order,
\* each against the granted modes of the holders behind it; one whose thread
\* has been woken is passed over (k is the place to look at).
RECURSIVE GrantHolders(_, _, _)
GrantHolders(holder, k, asleep) ==
  IF \/ k > Len(holder)
     \/ holder[k].blocked = "NULL"
     \/ ~Comp(holder[k].blocked, Granted(From(holder, k + 1)))
  THEN holder
  ELSE IF holder[k].tran \in asleep
       THEN GrantHolders(Position(RemoveAt(holder, k), AsGranted(holder[k])), k, asleep)
       ELSE GrantHolders(holder, k + 1, asleep)

\* Mutant of MoveToHolders: the total mode of the holders is not changed.
MovesWithoutTotal(r, k) ==
  [r EXCEPT !.waiter = RemoveAt(@, k), !.holder = Position(@, AsGranted(r.waiter[k]))]

\* A waiter that becomes a holder.
MoveToHolders(r, k) ==
  LET e == AsGranted(r.waiter[k])
  IN  [r EXCEPT !.waiter = RemoveAt(@, k), !.holder = Position(@, e),
                !.total_holders_mode = Conv(e.granted, @)]

\* lock_grant_blocked_waiter, without the total mode of the waiters.
RECURSIVE GrantWaiters(_, _, _)
GrantWaiters(r, k, asleep) ==
  IF k > Len(r.waiter) \/ ~Comp(r.waiter[k].blocked, r.total_holders_mode) THEN r
  ELSE IF r.waiter[k].tran \in asleep THEN GrantWaiters(MoveToHolders(r, k), k, asleep)
       ELSE GrantWaiters(r, k + 1, asleep)

\* lock_grant_blocked_waiter_partial: the waiters from the k-th on, as long as
\* each is compatible with those that stay in front of it.
RECURSIVE GrantPartial(_, _, _)
GrantPartial(r, k, asleep) ==
  IF k > Len(r.waiter) \/ ~Comp(r.waiter[k].blocked, Blocked(SubSeq(r.waiter, 1, k - 1)))
  THEN r
  ELSE IF /\ Comp(r.waiter[k].blocked, r.total_holders_mode)
          /\ r.waiter[k].tran \in asleep
       THEN GrantPartial(MoveToHolders(r, k), k, asleep)
       ELSE GrantPartial(r, k + 1, asleep)

\* Mutant of Retotal: the total mode of the waiters is left as it is.
KeepsTotal(r) == r

\* The total mode of the waiters after a grant.
Retotal(r) == [r EXCEPT !.total_waiters_mode = Blocked(r.waiter)]

\* The grants after the holders of r have changed.
GrantBlocked(r, asleep) ==
  Retotal(GrantWaiters([r EXCEPT !.total_holders_mode = Total(r.holder),
                                 !.holder = GrantHolders(r.holder, 1, asleep)], 1, asleep))

\* Mutant of Unlocked: nobody is granted when a waiter leaves the queue.
UnlockedForgetsQueue(r, t, keep, asleep) ==
  IF t \in TransOf(r.holder)
  THEN LET e == r.holder[PlaceOf(r.holder, t)]
           rest == Without(r.holder, t)
       IN  GrantBlocked([r EXCEPT !.holder = IF keep
                                             THEN Position(rest, [e EXCEPT !.blocked = "NULL",
                                                                           !.count = @ - 1])
                                             ELSE rest], asleep)
  ELSE Retotal([r EXCEPT !.waiter = RemoveAt(@, PlaceOf(r.waiter, t))])

\* lock_internal_perform_unlock_object by t, from the point where it holds the
\* mutex; keep: the entry was a blocked holder and stays with its granted mode.
Unlocked(r, t, keep, asleep) ==
  IF t \in TransOf(r.holder)
  THEN LET e == r.holder[PlaceOf(r.holder, t)]
           rest == Without(r.holder, t)
       IN  GrantBlocked([r EXCEPT !.holder = IF keep
                                             THEN Position(rest, [e EXCEPT !.blocked = "NULL",
                                                                           !.count = @ - 1])
                                             ELSE rest], asleep)
  ELSE LET k == PlaceOf(r.waiter, t)
       IN  Retotal(GrantPartial([r EXCEPT !.waiter = RemoveAt(@, k)], k, asleep))

-----------------------------------------------------------------------------
(* Threads.                                                                *)

ThreadState == {"running",   \* executing, not waiting for a lock
                "suspended", \* LK_IS_LOCKWAIT_THREAD
                "granted",   \* woken with LOCK_RESUMED
                "timeout",   \* woken by its timeout, an interrupt or as a victim
                "aborted",   \* woken with LOCK_RESUMED_ABORTED_FIRST
                "ending",    \* in lock_unlock_all
                "done"}

NotWaiting(s) == [state |-> s, res |-> "none"]
Waiting(s, r) == [state |-> s, res |-> r]

Asleep == {t \in Tran : thr[t].state = "suspended"}

Holds(t, r) == t \in TransOf(res[r].holder)

\* The end of a transaction that has locks on some of rs.
Ending(t, rs) == IF \E r \in rs : Holds(t, r) THEN "ending" ELSE "done"

\* The blocked holders of r that were woken and have not taken their request back.
Stale(r) == {t \in Tran : /\ thr[t].state \in {"timeout", "aborted"}
                          /\ thr[t].res = r
                          /\ Holds(t, r)}

\* The mutex of r is free for t.
Free(r, t) == "stale" \in Races \/ Stale(r) \subseteq {t}

\* The state of the threads once the lists of r are those of n: a thread whose
\* request was granted is woken by lock_resume; t itself goes to state s.
Resumed(r, n, t, s) ==
  [u \in Tran |->
     IF u = t THEN NotWaiting(s)
     ELSE IF /\ thr[u].state = "suspended" /\ thr[u].res = r
             /\ \E i \in DOMAIN n.holder : n.holder[i].tran = u /\ n.holder[i].blocked = "NULL"
          THEN Waiting("granted", r)
          ELSE thr[u]]

\* Mutant of WakeDetector: the detection thread is left asleep.
LeaveDetector ==
  /\ detector = "sleepy" => "sleep" \in Races
  /\ UNCHANGED detector

\* thread_wakeup_deadlock_detect_thread
WakeDetector ==
  /\ detector = "sleepy" => "sleep" \in Races
  /\ detector' = IF detector = "asleep" THEN "check" ELSE detector

-----------------------------------------------------------------------------
(* lock_internal_perform_lock_object.                                      *)

LockEntry(t, granted, blocked) ==
  [tran |-> t, granted |-> granted, blocked |-> blocked, count |-> 1]

\* The object is not locked, or t is not a holder and the request is compatible
\* with the waiters and with the holders.
LockNew(t, r, lock) ==
  /\ ~Holds(t, r)
  /\ Comp(lock, res[r].total_waiters_mode)
  /\ Comp(lock, res[r].total_holders_mode)
  /\ res' = [res EXCEPT ![r].holder = Position(@, LockEntry(t, lock, "NULL")),
                        ![r].total_holders_mode = Conv(lock, @)]
  /\ UNCHANGED <<thr, detector>>

\* t is not a holder and its request cannot be granted: it joins the waiters.
LockWaits(t, r, lock) ==
  /\ ~Holds(t, r)
  /\ \/ ~Comp(lock, res[r].total_waiters_mode)
     \/ ~Comp(lock, res[r].total_holders_mode)
  /\ res' = [res EXCEPT ![r].waiter = Append(@, LockEntry(t, "NULL", lock)),
                        ![r].total_waiters_mode = Conv(lock, @)]
  /\ thr' = [thr EXCEPT ![t] = Waiting("suspended", r)]
  /\ WakeDetector

\* t is a holder and asks for a mode: what it has already, a mode that the other
\* holders allow, or one for which it must wait, at the place the rule gives it.
LockConverts(t, r, lock) ==
  LET holder == res[r].holder
      k == PlaceOf(holder, t)
      e == holder[k]
      new_mode == Conv(lock, e.granted)
      group_mode == Granted(Without(holder, t))
  IN  /\ Holds(t, r)
      /\ \/ /\ new_mode = e.granted
            /\ res' = [res EXCEPT ![r].holder[k].count = @ + 1]
            /\ UNCHANGED <<thr, detector>>
         \/ /\ new_mode # e.granted /\ Comp(new_mode, group_mode)
            /\ res' = [res EXCEPT ![r].holder[k] = [e EXCEPT !.granted = new_mode,
                                                             !.count = @ + 1],
                                  ![r].total_holders_mode = Conv(lock, @)]
            /\ UNCHANGED <<thr, detector>>
         \/ /\ new_mode # e.granted /\ ~Comp(new_mode, group_mode)
            /\ res' = [res EXCEPT ![r].holder = Position(Without(@, t),
                                                         [e EXCEPT !.blocked = new_mode,
                                                                   !.count = @ + 1]),
                                  ![r].total_holders_mode = Conv(lock, @)]
            /\ thr' = [thr EXCEPT ![t] = Waiting("suspended", r)]
            /\ WakeDetector

\* lock_object and its like.  A request that may not wait and cannot be granted
\* changes nothing.
LockObject(t, r, lock) ==
  /\ thr[t].state = "running" /\ requests[t] < MaxRequests[t]
  /\ Free(r, t)
  /\ LockNew(t, r, lock) \/ LockWaits(t, r, lock) \/ LockConverts(t, r, lock)
  /\ requests' = [requests EXCEPT ![t] = @ + 1]
  /\ UNCHANGED <<todo, edges, victims, DL_victim, wakeups>>

\* lock_unlock_object before the end of the transaction: a shared lock that was
\* requested once is released, one that was requested again is counted down.
UnlockObject(t, r) ==
  LET k == PlaceOf(res[r].holder, t)
      n == IF res[r].holder[k].count > 1
           THEN [res[r] EXCEPT !.holder[k].count = @ - 1]
           ELSE Unlocked(res[r], t, FALSE, Asleep)
  IN  /\ thr[t].state = "running" /\ Free(r, t)
      /\ Holds(t, r) /\ res[r].holder[k].granted = "S"
      /\ res' = [res EXCEPT ![r] = n]
      /\ thr' = Resumed(r, n, t, "running")
      /\ UNCHANGED <<requests, detector, todo, edges, victims, DL_victim, wakeups>>

\* lock_internal_demote_shared_class_lock
Demote(t, r) ==
  LET k == PlaceOf(res[r].holder, t)
      n == GrantBlocked([res[r] EXCEPT !.holder[k].granted = IF @ = "S" THEN "IS" ELSE "IX"],
                        Asleep)
  IN  /\ thr[t].state = "running" /\ Free(r, t)
      /\ "IS" \in ModesOf[r]
      /\ Holds(t, r) /\ res[r].holder[k].granted \in {"S", "SIX"}
      /\ res' = [res EXCEPT ![r] = n]
      /\ thr' = Resumed(r, n, t, "running")
      /\ UNCHANGED <<requests, detector, todo, edges, victims, DL_victim, wakeups>>

\* lock_suspend returns LOCK_RESUMED: the lock is held.  The edges the detector
\* has drawn for this wait are void: thrd_wait_stime is reset.
Resume(t) ==
  /\ thr[t].state = "granted"
  /\ thr' = [thr EXCEPT ![t] = NotWaiting("running")]
  /\ edges' = {e \in edges : e[1] # t}
  /\ UNCHANGED <<res, requests, detector, todo, victims, DL_victim, wakeups>>

\* lock_suspend returns for another reason: the thread takes its request back.
\* A victim that is to be aborted rolls back and releases its locks.
GiveUp(t) ==
  LET r == thr[t].res
      n == Unlocked(res[r], t, TRUE, Asleep)
      s == IF thr[t].state = "aborted" THEN Ending(t, Res) ELSE "running"
  IN  /\ thr[t].state \in {"timeout", "aborted"} /\ Free(r, t)
      /\ res' = [res EXCEPT ![r] = n]
      /\ thr' = Resumed(r, n, t, s)
      /\ edges' = {e \in edges : e[1] # t}
      /\ DL_victim' = IF s = "done" THEN DL_victim \ {t} ELSE DL_victim
      /\ UNCHANGED <<requests, detector, todo, victims, wakeups>>

\* The end of the transaction: lock_unlock_all releases its locks one by one, and
\* with the last one it is no victim any more (lock_clear_deadlock_victim).
End(t) ==
  /\ thr[t].state = "running"
  /\ thr' = [thr EXCEPT ![t] = NotWaiting(Ending(t, Res))]
  /\ UNCHANGED <<res, requests, detector, todo, edges, victims, DL_victim, wakeups>>

Release(t, r) ==
  LET n == Unlocked(res[r], t, FALSE, Asleep)
      s == Ending(t, Res \ {r})
  IN  /\ thr[t].state = "ending" /\ Holds(t, r) /\ Free(r, t)
      /\ res' = [res EXCEPT ![r] = n]
      /\ thr' = Resumed(r, n, t, s)
      /\ DL_victim' = IF s = "done" THEN DL_victim \ {t} ELSE DL_victim
      /\ UNCHANGED <<requests, detector, todo, edges, victims, wakeups>>

-----------------------------------------------------------------------------
(* The deadlock detection thread: thread_deadlock_detect_thread,           *)
(* lock_detect_local_deadlock.                                             *)

\* lock_force_timeout_expired_wait_transactions: a lock timeout has expired or
\* the transaction is interrupted.
Timeout(t) ==
  /\ detector = "check" /\ t \in Asleep /\ wakeups < MaxWakeups
  /\ Free(thr[t].res, t)
  /\ thr' = [thr EXCEPT ![t].state = "timeout"]
  /\ wakeups' = wakeups + 1
  /\ UNCHANGED <<res, requests, detector, todo, edges, victims, DL_victim>>

\* No thread is waiting: the detector will sleep until a thread suspends, and
\* clears is_running, by which a thread that suspends judges whether to wake it.
DetectorFindsNone ==
  /\ detector = "check" /\ Asleep = {}
  /\ detector' = "sleepy"
  /\ UNCHANGED <<res, thr, requests, todo, edges, victims, DL_victim, wakeups>>

DetectorSleeps ==
  /\ detector = "sleepy"
  /\ detector' = "asleep"
  /\ UNCHANGED <<res, thr, requests, todo, edges, victims, DL_victim, wakeups>>

\* Two threads wait: a new graph is built.
DetectorStarts ==
  /\ detector = "check" /\ Cardinality(Asleep) >= 2
  /\ detector' = "scan" /\ todo' = Res
  /\ edges' = {}
  /\ UNCHANGED <<res, thr, requests, victims, DL_victim, wakeups>>

\* A request of hj must wait for what hi holds or waits for.
Blocks(hi, hj) == ~Comp(hj.blocked, hi.granted) \/ ~Comp(hj.blocked, hi.blocked)

\* The edges of a resource: among its holders, from its waiters to its holders,
\* among its waiters.
Edges(r) ==
  LET h == r.holder
      w == r.waiter
      Pairs(list) == {p \in (DOMAIN list) \X (DOMAIN list) : p[1] < p[2]}
  IN  {<<h[p[2]].tran, h[p[1]].tran, TRUE>> :
         p \in {q \in Pairs(h) : h[q[1]].blocked # "NULL" /\ Blocks(h[q[1]], h[q[2]])}}
      \cup {<<h[p[1]].tran, h[p[2]].tran, TRUE>> :
              p \in {q \in Pairs(h) : ~Comp(h[q[1]].blocked, h[q[2]].granted)}}
      \cup {<<w[p[2]].tran, h[p[1]].tran, TRUE>> :
              p \in {q \in (DOMAIN h) \X (DOMAIN w) : Blocks(h[q[1]], w[q[2]])}}
      \cup {<<w[p[2]].tran, w[p[1]].tran, FALSE>> :
              p \in {q \in Pairs(w) : ~Comp(w[q[2]].blocked, w[q[1]].blocked)}}

\* The scan of one resource, under its mutex; lock_add_WFG_edge leaves out the
\* victims of earlier detections.
DetectorScans(r) ==
  /\ detector = "scan" /\ r \in todo
  /\ edges' = edges \cup {e \in Edges(res[r]) : e[1] \notin DL_victim /\ e[2] \notin DL_victim}
  /\ todo' = todo \ {r}
  /\ detector' = IF todo = {r} THEN "search" ELSE "scan"
  /\ UNCHANGED <<res, thr, requests, victims, DL_victim, wakeups>>

\* The cycles a search may follow.
Paths == {c \in UNION {[1..n -> Tran] : n \in 2..NumTrans} :
            \A i, j \in DOMAIN c : c[i] = c[j] => i = j}

Successor(c, i) == IF i = Len(c) THEN c[1] ELSE c[i + 1]

IsCycle(c) == \A i \in DOMAIN c : \E flag \in BOOLEAN : <<c[i], Successor(c, i), flag>> \in edges

\* The candidates of a cycle: someone in it waits for a lock they hold, and they
\* are active.
Candidates(c) ==
  {Successor(c, i) : i \in {j \in DOMAIN c : /\ <<c[j], Successor(c, j), TRUE>> \in edges
                                            /\ thr[Successor(c, j)].state # "ending"}}

\* The preferred victim: one that can time out, then the youngest.
Preferred(cs) == Max(IF cs \cap CanTimeout # {} THEN cs \cap CanTimeout ELSE cs)

\* A cycle is found: lock_select_deadlock_victim.  A cycle without a candidate is
\* taken for a false one, and its last edge is dropped.
DetectorSelects(c) ==
  /\ detector = "search" /\ IsCycle(c)
  /\ IF Candidates(c) # {}
     THEN LET v == Preferred(Candidates(c))
          IN  /\ victims' = victims \cup {v}
              /\ edges' = {e \in edges : v \notin {e[1], e[2]}}
     ELSE /\ edges' = {e \in edges : <<e[1], e[2]>> # <<c[Len(c)], c[1]>>}
          /\ UNCHANGED victims
  /\ UNCHANGED <<res, thr, requests, detector, todo, DL_victim, wakeups>>

DetectorEndsSearch ==
  /\ detector = "search" /\ \A c \in Paths : ~IsCycle(c)
  /\ detector' = "wake" /\ edges' = {}
  /\ UNCHANGED <<res, thr, requests, todo, victims, DL_victim, wakeups>>

\* lock_wakeup_deadlock_victim_timeout, lock_wakeup_deadlock_victim_aborted: only
\* a thread that still waits is woken.
DetectorWakes(v) ==
  /\ detector = "wake" /\ v \in victims
  /\ victims' = victims \ {v}
  /\ IF v \in Asleep
     THEN /\ Free(thr[v].res, v)
          /\ thr' = [thr EXCEPT ![v].state = IF v \in CanTimeout THEN "timeout" ELSE "aborted"]
          /\ DL_victim' = IF v \in CanTimeout THEN DL_victim ELSE DL_victim \cup {v}
     ELSE UNCHANGED <<thr, DL_victim>>
  /\ UNCHANGED <<res, requests, detector, todo, edges, wakeups>>

DetectorEnds ==
  /\ detector = "wake" /\ victims = {}
  /\ detector' = "check"
  /\ UNCHANGED <<res, thr, requests, todo, edges, victims, DL_victim, wakeups>>

-----------------------------------------------------------------------------

Init ==
  /\ res = [r \in Res |-> [holder |-> <<>>, waiter |-> <<>>,
                           total_holders_mode |-> "NULL", total_waiters_mode |-> "NULL"]]
  /\ thr = [t \in Tran |-> NotWaiting("running")]
  /\ requests = [t \in Tran |-> 0]
  /\ detector = "asleep" /\ todo = {} /\ edges = {} /\ victims = {}
  /\ DL_victim = {} /\ wakeups = 0

Transaction(t) ==
  \/ \E r \in Res : \E lock \in ModesOf[r] : LockObject(t, r, lock)
  \/ \E r \in Res : UnlockObject(t, r) \/ Demote(t, r)
  \/ Resume(t) \/ GiveUp(t)
  \/ End(t)
  \/ \E r \in Res : Release(t, r)

Detector ==
  \/ DetectorFindsNone \/ DetectorSleeps \/ DetectorStarts
  \/ \E r \in Res : DetectorScans(r)
  \/ \E c \in Paths : DetectorSelects(c)
  \/ DetectorEndsSearch
  \/ \E v \in Tran : DetectorWakes(v)
  \/ DetectorEnds

Next ==
  \/ \E t \in Tran : Transaction(t) \/ Timeout(t)
  \/ Detector

Spec == Init /\ [][Next]_vars

\* Weak fairness of a thread and of the detector, spelled out: a thread that was
\* woken runs, a client ends its transaction, lock_unlock_all goes on, and so does
\* the loop of the detector, each unless it cannot infinitely often.
CanRun(t) == thr[t].state \in {"running", "granted", "timeout", "aborted", "ending"}

Runs(t) ==
  \/ thr[t].state # "suspended" /\ thr'[t].state \notin {thr[t].state, "suspended"}
  \/ thr[t].state = "ending" /\ \E r \in Res : Holds(t, r) /\ ~Holds(t, r)'

CanDetect ==
  \/ detector = "check" /\ Cardinality(Asleep) # 1
  \/ detector \in {"sleepy", "scan", "search", "wake"}

Detects == <<detector, todo, victims>>' # <<detector, todo, victims>> /\ detector # "asleep"

Fairness ==
  /\ \A t \in Tran : []<>(~CanRun(t)) \/ []<><<Runs(t)>>_vars
  /\ []<>(~CanDetect) \/ []<><<Detects>>_vars

FairSpec == Spec /\ Fairness

-----------------------------------------------------------------------------
(* Properties.                                                             *)

\* The lists hold one entry per transaction, the blocked holders come first, and
\* a thread that waits has an entry that is blocked.
TypeOK ==
  /\ \A r \in Res :
       LET h == res[r].holder
           w == res[r].waiter
       IN  /\ Cardinality(TransOf(h \o w)) = Len(h) + Len(w)
           /\ \A i \in DOMAIN h : /\ h[i].granted \in LOCK \ {"NULL"} /\ h[i].count >= 1
                                  /\ h[i].blocked \in LOCK
           /\ \A i, j \in DOMAIN h : i < j /\ h[j].blocked # "NULL" => h[i].blocked # "NULL"
           /\ \A i \in DOMAIN w : w[i].granted = "NULL" /\ w[i].blocked \in LOCK \ {"NULL"}
  /\ thr \in [Tran -> [state : ThreadState, res : Res \cup {"none"}]]
  /\ \A t \in Tran : thr[t].state \in {"suspended", "timeout", "aborted"} =>
       \E e \in Range(res[thr[t].res].holder \o res[thr[t].res].waiter) :
         e.tran = t /\ e.blocked # "NULL"
  /\ detector \in {"check", "sleepy", "asleep", "scan", "search", "wake"}
  /\ DL_victim \subseteq Tran /\ victims \subseteq Tran

\* Two transactions never hold incompatible locks on an object, whatever the order
\* of grants, upgrades, timeouts and victims.
HoldersCompatible ==
  \A r \in Res : \A i, j \in DOMAIN res[r].holder :
    i # j => \/ Comp(res[r].holder[i].granted, res[r].holder[j].granted)
             \/ Comp(res[r].holder[j].granted, res[r].holder[i].granted)

\* The total modes, by which new requests are judged, are those of the lists:
\* what lock_check_consistent_resource tests.
TotalsExact ==
  \A r \in Res : /\ res[r].total_holders_mode = Total(res[r].holder)
                 /\ res[r].total_waiters_mode = Blocked(res[r].waiter)

\* No grant is forgotten and no wait is hidden from the detector: a thread that
\* sleeps on an object waits for a transaction that the wait-for graph of that
\* object shows.
WaitsAreSeen ==
  \A t \in Asleep : \E e \in Edges(res[thr[t].res]) : e[1] = t

\* Every wait ends, with the lock or without: a deadlock is found and broken.
EveryWaitEnds == \A t \in Tran : t \in Asleep ~> t \notin Asleep
=============================================================================
