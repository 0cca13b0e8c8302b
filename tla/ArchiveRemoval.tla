--------------------------- MODULE ArchiveRemoval ---------------------------
(***************************************************************************)
(* The archives of the copied log: copylogdb makes them, applylogdb reads  *)
(* them and deletes the ones it needs no longer (la_remove_archive_logs).  *)
(* Addresses are log page numbers; what the records say is in LogApplier,  *)
(* of which only this is used: required_lsa moves forward and never passes *)
(* final_lsa (RequiredMonotone in LogApplierProofs).                       *)
(***************************************************************************)
EXTENDS Integers, Sequences, FiniteSets

CONSTANTS
  ArvNpages,                 \* sizes an archive may have
  LogNpages,                 \* npages of the log header, the usual size
  ha_copy_log_max_archives,  \* parameter: archives to keep in any case
  MaxArchives,               \* bound: archives made
  MaxRestarts,               \* bound: restarts of the applier
  MaxUpdateErrors            \* bound: ignored errors of the row's update

ASSUME ArchiveRemovalAssumption ==
  /\ ArvNpages \subseteq Nat \ {0} /\ IsFiniteSet(ArvNpages)
  /\ LogNpages \in Nat \ {0} /\ ha_copy_log_max_archives \in Nat
  /\ MaxArchives \in Nat /\ MaxRestarts \in Nat /\ MaxUpdateErrors \in Nat

VARIABLES
  arv,            \* arv[n + 1]: the pages of archive n
  files,          \* archives on disk
  nxarv_num,      \* log header in the applier's memory: archives made
  last_nxarv_num, \* archives made when some were last deleted, 0: not yet
  last_deleted,   \* la_Info.last_deleted_archive_num
  lockf,          \* the same number in the lock file, -1 if never written
  final,          \* page being processed
  required,       \* la_Info.required_lsa
  row_required,   \* required_lsa in the committed db_ha_apply_info row
  remove_interval,
                  \* parameter remove_log_archives_interval is not 0
  restarts, update_errors

diskVars == <<arv, files, lockf>>
posVars  == <<final, required, row_required, remove_interval, restarts, update_errors>>
vars     == <<diskVars, nxarv_num, last_nxarv_num, last_deleted, posVars>>

Init ==
  /\ arv = << >> /\ files = {} /\ lockf = -1
  /\ nxarv_num = 0 /\ last_nxarv_num = 0 /\ last_deleted = -1
  /\ final = 0 /\ required = 0 /\ row_required = 0
  /\ remove_interval \in BOOLEAN
  /\ restarts = 0 /\ update_errors = 0

-----------------------------------------------------------------------------
(* Finding a page. *)

NotFound == -1

\* First page that is not in the first n archives.
nxarv_pageid(n) == IF n = 0 THEN 0 ELSE arv[n].fpageid + arv[n].npages

Contains(n, pageid) ==
  arv[n + 1].fpageid <= pageid /\ pageid < arv[n + 1].fpageid + arv[n + 1].npages

CEIL_PTVDIV(a, b) == IF a = 0 THEN 0 ELSE (a - 1) \div b + 1

GreaterOf(a, b) == IF a > b THEN a ELSE b

\* Where the binary search of la_find_archive_num is: its bounds and the
\* archive it looks at.
Probe(nx) == [left : 0 .. nx, right : -1 .. nx - 1, num : 0 .. nx]

NextProbe(pageid, s) ==
  LET below == pageid < arv[s.num + 1].fpageid
      left  == IF below THEN s.left ELSE s.num + 1
      right == IF below THEN s.num - 1 ELSE s.right
  IN  [left |-> left, right |-> right, num |-> CEIL_PTVDIV(left + right, 2)]

\* What the search from s finds, given what it finds from the next probe.  An
\* archive that is not on disk ends it (la_get_range_of_archive fails).
Found(pageid, nx, s, search) ==
  IF s.num \notin files THEN NotFound
  ELSE IF Contains(s.num, pageid) THEN s.num
  ELSE LET t == NextProbe(pageid, s)
       IN  IF t.num \in 0 .. nx - 1 /\ t.left <= t.right THEN search[t] ELSE NotFound

Search(pageid, nx) ==
  LET search[s \in Probe(nx)] == Found(pageid, nx, s, search) IN search

\* The search between archive `first' and the newest starts at a guess.
SearchFrom(pageid, nx, first, guess) ==
  Search(pageid, nx)[[left |-> first, right |-> nx - 1,
                      num |-> GreaterOf(IF guess >= nx THEN nx - 1 ELSE guess, first)]]

\* Mutant: the search may start at, and go down to, a deleted archive.
FindIgnoringDeleted(pageid, nx, deleted) ==
  SearchFrom(pageid, nx, 0, pageid \div LogNpages)

\* The guess comes from the usual archive size.
la_find_archive_num(pageid, nx, deleted) ==
  SearchFrom(pageid, nx, GreaterOf(0, deleted + 1), pageid \div LogNpages)

-----------------------------------------------------------------------------
(* copylogdb *)

logwr_archive_active_log ==
  /\ Len(arv) < MaxArchives
  /\ \E n \in ArvNpages :
       arv' = Append(arv, [fpageid |-> nxarv_pageid(Len(arv)), npages |-> n])
  /\ files' = files \union {Len(arv)}
  /\ UNCHANGED <<lockf, nxarv_num, last_nxarv_num, last_deleted, posVars>>

-----------------------------------------------------------------------------
(* applylogdb *)

\* The archive with the required page, NotFound if the search failed, nx if
\* the page is still in the active log.
RequiredArv(nx) ==
  IF required < nxarv_pageid(nx) THEN la_find_archive_num(required, nx, last_deleted) ELSE nx

\* Mutant: the required page is not looked at.
KeepNewestOnly(nx) == ha_copy_log_max_archives

\* Mutant: the parameter is not looked at.
KeepRequiredOnly(nx) == nx - RequiredArv(nx)

\* max_arv_count
ArchivesToKeep(nx) == GreaterOf(ha_copy_log_max_archives, nx - RequiredArv(nx))

\* The number of the last archive to delete, given the header just read, or
\* last_deleted if there is none to delete.
la_remove_archive_logs(nx, limit) ==
  LET first == last_deleted + 1
      last  == nx - ArchivesToKeep(nx) - 1
  IN  IF RequiredArv(nx) = NotFound \/ nx - first <= ArchivesToKeep(nx)
           \/ last < 0 \/ last < first
      THEN last_deleted
      ELSE IF limit < last - first + 1 THEN first + limit - 1 ELSE last

LastNxarv == IF last_nxarv_num = 0 THEN Len(arv) ELSE last_nxarv_num

\* max_arv_count_to_delete: with an interval, one archive when it has passed;
\* without, any number when the log was archived meanwhile. 0: not now.
MaxToDelete ==
  IF remove_interval THEN {0, 1}
  ELSE IF LastNxarv # Len(arv) THEN {MaxArchives} ELSE {0}

\* la_apply_log_file reads the header, and no removal is due.
FetchHeader ==
  /\ 0 \in MaxToDelete
  /\ nxarv_num' = Len(arv) /\ last_nxarv_num' = LastNxarv
  /\ UNCHANGED <<diskVars, last_deleted, posVars>>

\* It reads the header, deletes the files and saves the number of the last.
RemoveArchives ==
  \E limit \in MaxToDelete \ {0} :
    LET last == la_remove_archive_logs(Len(arv), limit)
    IN  /\ files' = files \ (last_deleted + 1 .. last)
        /\ last_deleted' = last
        /\ lockf' = IF last >= 0 THEN last ELSE lockf
        /\ nxarv_num' = Len(arv) /\ last_nxarv_num' = Len(arv)
        /\ UNCHANGED <<arv, posVars>>

\* The applier goes on to the next page.
ReadPage ==
  /\ final <= nxarv_pageid(Len(arv))
  /\ final' = final + 1
  /\ UNCHANGED <<diskVars, nxarv_num, last_nxarv_num, last_deleted,
                 required, row_required, remove_interval, restarts, update_errors>>

\* The required position is taken over in memory first; an error of the
\* row's update is ignored.
la_log_commit ==
  /\ required' \in required .. final
  /\ \/ row_required' = required' /\ UNCHANGED update_errors
     \/ /\ update_errors < MaxUpdateErrors
        /\ update_errors' = update_errors + 1
        /\ UNCHANGED row_required
  /\ UNCHANGED <<diskVars, nxarv_num, last_nxarv_num, last_deleted, final,
                 remove_interval, restarts>>

\* The highest archive number whose file is missing.
la_find_last_deleted_arv_num(present) ==
  CHOOSE n \in -1 .. Len(arv) - 1 :
    n \notin present /\ \A m \in n + 1 .. Len(arv) - 1 : m \in present

\* la_apply_log_file starts over with the lock file and the committed row.
Start(present) ==
  /\ restarts < MaxRestarts
  /\ restarts' = restarts + 1
  /\ files' = present
  /\ last_deleted' = IF lockf = -1 THEN la_find_last_deleted_arv_num(present) ELSE lockf
  /\ nxarv_num' = Len(arv) /\ last_nxarv_num' = 0
  /\ required' = row_required /\ final' = row_required
  /\ UNCHANGED <<arv, lockf, row_required, remove_interval, update_errors>>

Restart == Start(files)

\* The applier dies after some of the files are gone, before the lock file
\* says so, and starts over.
CrashInRemoval ==
  \E limit \in MaxToDelete \ {0} :
    \E n \in last_deleted + 1 .. la_remove_archive_logs(Len(arv), limit) :
      Start(files \ (last_deleted + 1 .. n))

Next ==
  \/ logwr_archive_active_log
  \/ FetchHeader
  \/ RemoveArchives
  \/ ReadPage
  \/ la_log_commit
  \/ Restart
  \/ CrashInRemoval

Spec == Init /\ [][Next]_vars

-----------------------------------------------------------------------------
(* Properties *)

\* The types of the archive numbers and page numbers that la_apply_log_file
\* keeps; required_lsa lies between the committed row's and the read position.
TypeOK ==
  /\ arv \in Seq([fpageid : Nat, npages : ArvNpages])
  /\ files \subseteq 0 .. Len(arv) - 1
  /\ nxarv_num \in 0 .. Len(arv) /\ last_nxarv_num \in 0 .. nxarv_num
  /\ last_deleted \in -1 .. nxarv_num - 1 /\ lockf \in -1 .. Len(arv) - 1
  /\ row_required \in Nat /\ required \in row_required .. final /\ final \in Nat
  /\ remove_interval \in BOOLEAN
  /\ restarts \in 0 .. MaxRestarts /\ update_errors \in 0 .. MaxUpdateErrors

\* A restart can read the log from the position it saved: no archive with a
\* page at or after the committed row's required_lsa is ever deleted, however
\* commits, archiving, removals, deaths and restarts alternate.  An ignored
\* error of the row's update is excepted: the removal goes by the required_lsa
\* in memory, which is then ahead of the row.
RestartFindsItsLog ==
  update_errors = 0 =>
    \A n \in 0 .. Len(arv) - 1 :
      row_required < arv[n + 1].fpageid + arv[n + 1].npages => n \in files

\* la_find_archive_num returns the archive that holds the page, for every
\* archived page the applier may still ask for, whatever the archives' sizes:
\* the guess and the bounds of the search never lead to a deleted archive.
\* The exceptions are a page that a restart after such an error asks for, and a
\* number of the last deleted archive that is too small because the applier
\* died in the middle of a removal: with archives of different sizes the guess
\* may then be an archive that is gone.
FindsTheArchive ==
  LET deleted == la_find_last_deleted_arv_num(files)
  IN  last_deleted = deleted =>
        \A pageid \in GreaterOf(required, nxarv_pageid(deleted + 1))
                        .. nxarv_pageid(nxarv_num) - 1 :
          LET n == la_find_archive_num(pageid, nxarv_num, last_deleted)
          IN  n # NotFound /\ Contains(n, pageid)

\* Whoever else reads the copied log finds the ha_copy_log_max_archives newest
\* archives: an off-by-one in the removal's bounds would take one of them.
NewestArchivesKept ==
  \A n \in 0 .. Len(arv) - 1 : n >= Len(arv) - ha_copy_log_max_archives => n \in files
=============================================================================
