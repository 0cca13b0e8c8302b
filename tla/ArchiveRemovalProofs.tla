------------------------ MODULE ArchiveRemovalProofs ------------------------
(***************************************************************************)
(* Proofs about ArchiveRemoval.                                            *)
(***************************************************************************)
EXTENDS ArchiveRemoval, WellFoundedInduction, TLAPS

-----------------------------------------------------------------------------
(* Induction without a predicate parameter: the least element of a set.    *)

\* A set of natural numbers that is not empty has a least element.
LEMMA Least ==
  ASSUME NEW T, T \subseteq Nat, T # {}
  PROVE  \E x \in T : \A y \in T : x <= y
<1>1. \E x \in T : \A y \in T : <<y, x>> \notin OpToRel(<, Nat)
  BY Zenon, WFMin, NatLessThanWellFounded
<1>2. ASSUME NEW x \in T, NEW y \in T, <<y, x>> \notin OpToRel(<, Nat)
      PROVE  x <= y
  BY <1>2 DEF OpToRel
<1> QED BY Zenon, <1>1, <1>2

-----------------------------------------------------------------------------
(* The search of la_find_archive_num                                       *)

\* What shrinks from probe to probe: the archives between the bounds.  The first
\* probe may lie outside of them.
Span(nx, s) ==
  IF s.left <= s.num /\ s.num <= s.right THEN s.right - s.left + 1 ELSE nx + 2

\* The middle of two bounds, rounded up, lies between them.
LEMMA Middle ==
  ASSUME NEW a \in Nat, NEW b \in Nat, a <= b
  PROVE  CEIL_PTVDIV(a + b, 2) \in a .. b
<1>1. CASE a + b = 0
  BY <1>1 DEF CEIL_PTVDIV
<1>2. CASE a + b # 0
  <2>1. CEIL_PTVDIV(a + b, 2) = (a + b - 1) \div 2 + 1
    BY <1>2 DEF CEIL_PTVDIV
  <2> QED BY <1>2, <2>1
<1> QED BY Zenon, <1>1, <1>2

\* The next probe lies between its bounds, which are closer to each other.
LEMMA NextProbeShrinks ==
  ASSUME NEW pageid, NEW nx \in Nat, NEW s \in Probe(nx),
         NextProbe(pageid, s).num \in 0 .. nx - 1,
         NextProbe(pageid, s).left <= NextProbe(pageid, s).right
  PROVE  /\ NextProbe(pageid, s) \in Probe(nx)
         /\ NextProbe(pageid, s).num \in NextProbe(pageid, s).left .. NextProbe(pageid, s).right
         /\ Span(nx, NextProbe(pageid, s)) < Span(nx, s)
<1> DEFINE t == NextProbe(pageid, s)
<1>1. s.left \in 0 .. nx /\ s.right \in -1 .. nx - 1 /\ s.num \in 0 .. nx
  BY Zenon DEF Probe
<1>2. /\ t = [left |-> t.left, right |-> t.right, num |-> t.num]
      /\ t.num = CEIL_PTVDIV(t.left + t.right, 2)
      /\ \/ t.left = s.left /\ t.right = s.num - 1
         \/ t.left = s.num + 1 /\ t.right = s.right
  BY Zenon DEF NextProbe
<1>3. t.num \in 0 .. nx - 1 /\ t.left <= t.right
  BY Zenon
<1> HIDE DEF t
<1>4. t.left \in 0 .. nx /\ t.right \in -1 .. nx - 1
  BY <1>1, <1>2, <1>3
<1>5. t.num \in t.left .. t.right
  BY <1>2, <1>3, <1>4, Middle
<1>6. t \in Probe(nx)
  BY <1>2, <1>3, <1>4 DEF Probe
<1>7. Span(nx, t) < Span(nx, s)
  BY <1>1, <1>2, <1>3, <1>4, <1>5 DEF Span
<1> QED BY Zenon, <1>5, <1>6, <1>7 DEF t

\* A step of the search depends only on what is found from closer bounds.
LEMMA FoundLocal ==
  ASSUME NEW pageid, NEW nx \in Nat, NEW s \in Probe(nx), NEW g, NEW h,
         \A t \in Probe(nx) : Span(nx, t) < Span(nx, s) => g[t] = h[t]
  PROVE  Found(pageid, nx, s, g) = Found(pageid, nx, s, h)
<1> DEFINE t == NextProbe(pageid, s)
<1>1. ASSUME t.num \in 0 .. nx - 1, t.left <= t.right
      PROVE  g[t] = h[t]
  BY Zenon, <1>1, NextProbeShrinks
<1> HIDE DEF t
<1> QED BY Zenon, <1>1 DEF Found, t

\* The spans are natural numbers up to nx + 2.
LEMMA SpanRange ==
  ASSUME NEW nx \in Nat, NEW s \in Probe(nx)
  PROVE  Span(nx, s) \in Nat /\ Span(nx, s) < nx + 3
<1>1. s.left \in 0 .. nx /\ s.right \in -1 .. nx - 1 /\ s.num \in 0 .. nx
  BY Zenon DEF Probe
<1> QED BY <1>1 DEF Span


\* g is what the search finds from all probes whose bounds span less than k.
UpTo(pageid, nx, k, g) ==
  \A s \in Probe(nx) : Span(nx, s) < k => g[s] = Found(pageid, nx, s, g)

\* Such a function for k gives one for k + 1.
LEMMA UpToNext ==
  ASSUME NEW pageid, NEW nx \in Nat, NEW k \in Nat, NEW g, UpTo(pageid, nx, k, g)
  PROVE  \E h : UpTo(pageid, nx, k + 1, h)
<1> DEFINE h == [s \in Probe(nx) |-> Found(pageid, nx, s, g)]
<1>1. ASSUME NEW s \in Probe(nx), Span(nx, s) < k
      PROVE  h[s] = g[s]
  BY Zenon, <1>1 DEF UpTo
<1>2. ASSUME NEW s \in Probe(nx), Span(nx, s) < k + 1
      PROVE  h[s] = Found(pageid, nx, s, h)
  <2>1. \A t \in Probe(nx) : Span(nx, t) < Span(nx, s) => g[t] = h[t]
    BY <1>1, <1>2, SpanRange
  <2>2. Found(pageid, nx, s, g) = Found(pageid, nx, s, h)
    <3> HIDE DEF h
    <3> QED BY <2>1, FoundLocal
  <2>3. h[s] = Found(pageid, nx, s, g)
    BY Zenon
  <2> QED BY Zenon, <2>2, <2>3
<1> HIDE DEF h
<1>3. UpTo(pageid, nx, k + 1, h)
  BY Zenon, <1>2 DEF UpTo
<1> QED BY Zenon, <1>3

\* There is one for every k: a least k without one would be the successor of a
\* number with one.
LEMMA UpToExists ==
  ASSUME NEW pageid, NEW nx \in Nat, NEW k \in Nat
  PROVE  \E g : UpTo(pageid, nx, k, g)
<1> DEFINE T == {n \in Nat : ~\E g : UpTo(pageid, nx, n, g)}
<1>1. SUFFICES ASSUME T # {} PROVE FALSE
  BY Zenon
<1>2. PICK n \in T : \A m \in T : n <= m
  BY Zenon, <1>1, Least
<1>3. n \in Nat /\ ~\E g : UpTo(pageid, nx, n, g)
  BY Zenon, <1>2
<1>4. CASE n = 0
  <2>1. UpTo(pageid, nx, 0, <<>>)
    BY SpanRange DEF UpTo
  <2> QED BY Zenon, <1>3, <1>4, <2>1
<1>5. CASE n # 0
  <2>1. n - 1 \in Nat /\ (n - 1) + 1 = n /\ ~(n <= n - 1)
    BY <1>3, <1>5
  <2>2. n - 1 \notin T
    BY Zenon, <1>2, <2>1
  <2>3. PICK g : UpTo(pageid, nx, n - 1, g)
    BY Zenon, <2>1, <2>2
  <2> HIDE DEF T
  <2>4. \E h : UpTo(pageid, nx, (n - 1) + 1, h)
    BY Zenon, <2>1, <2>3, UpToNext
  <2> QED BY Zenon, <1>3, <2>1, <2>4
<1> QED BY Zenon, <1>4, <1>5

\* The recursive definition of the search has a solution: the search ends.
LEMMA SearchDefined ==
  ASSUME NEW pageid, NEW nx \in Nat
  PROVE  Search(pageid, nx)
           = [s \in Probe(nx) |-> Found(pageid, nx, s, Search(pageid, nx))]
<1> DEFINE Solves(g) == g = [s \in Probe(nx) |-> Found(pageid, nx, s, g)]
<1>0. nx + 3 \in Nat
  OBVIOUS
<1>1. PICK g : UpTo(pageid, nx, nx + 3, g)
  BY Zenon, <1>0, UpToExists
<1> DEFINE h == [s \in Probe(nx) |-> Found(pageid, nx, s, g)]
<1>2. \A s \in Probe(nx) : h[s] = g[s]
  BY Zenon, <1>1, SpanRange DEF UpTo
<1>3. \A s \in Probe(nx) : Found(pageid, nx, s, g) = Found(pageid, nx, s, h)
  <2> HIDE DEF h
  <2> QED BY Zenon, <1>2, FoundLocal
<1>4. h = [s \in Probe(nx) |-> Found(pageid, nx, s, h)]
  BY Zenon, <1>3
<1>5. \E f : Solves(f)
  <2> HIDE DEF h
  <2> QED BY Zenon, <1>4
<1>6. Search(pageid, nx) = CHOOSE f : Solves(f)
  BY Zenon DEF Search
<1> HIDE DEF Solves
<1>7. Solves(Search(pageid, nx))
  BY Zenon, <1>5, <1>6
<1> QED BY Zenon, <1>7 DEF Solves

\* What the search finds from a probe.
LEMMA SearchStep ==
  ASSUME NEW pageid, NEW nx \in Nat, NEW s \in Probe(nx)
  PROVE  Search(pageid, nx)[s] = Found(pageid, nx, s, Search(pageid, nx))
<1> DEFINE f == Search(pageid, nx)
<1>1. f = [u \in Probe(nx) |-> Found(pageid, nx, u, f)]
  BY Zenon, SearchDefined
<1> HIDE DEF f
<1>2. f[s] = Found(pageid, nx, s, f)
  BY Zenon, <1>1
<1> QED BY Zenon, <1>2 DEF f

\* An archive that the search finds holds the page.
LEMMA SearchSound ==
  ASSUME NEW pageid, NEW nx \in Nat, NEW s \in Probe(nx)
  PROVE  LET n == Search(pageid, nx)[s]
         IN  n = NotFound \/ (n \in files \cap (0 .. nx) /\ Contains(n, pageid))
<1> DEFINE f == Search(pageid, nx)
           Sound(u) == f[u] = NotFound \/ (f[u] \in files \cap (0 .. nx) /\ Contains(f[u], pageid))
           T == {n \in Nat : \E u \in Probe(nx) : Span(nx, u) = n /\ ~Sound(u)}
<1> HIDE DEF f, Sound
<1>1. SUFFICES ASSUME ~Sound(s) PROVE FALSE
  BY Zenon DEF f, Sound
<1>2. Span(nx, s) \in T
  BY Zenon, <1>1, SpanRange
<1>3. PICK n \in T : \A m \in T : n <= m
  BY Zenon, <1>2, Least
<1>4. PICK u \in Probe(nx) : Span(nx, u) = n /\ ~Sound(u)
  BY Zenon, <1>3
<1>5. f[u] = Found(pageid, nx, u, f)
  BY Zenon, SearchStep DEF f
<1> DEFINE t == NextProbe(pageid, u)
<1>6. ASSUME t.num \in 0 .. nx - 1, t.left <= t.right
      PROVE  Sound(t)
  <2>1. t \in Probe(nx) /\ Span(nx, t) < n
    BY Zenon, <1>4, <1>6, NextProbeShrinks
  <2>2. Span(nx, t) \in Nat /\ n \in Nat
    BY Zenon, <1>3, <2>1, SpanRange
  <2>3. Span(nx, t) \notin T
    BY <1>3, <2>1, <2>2
  <2> QED BY Zenon, <2>1, <2>2, <2>3
<1>7. u.num \in 0 .. nx
  BY Zenon DEF Probe
<1> HIDE DEF t
<1>8. Sound(u)
  BY Zenon, <1>5, <1>6, <1>7 DEF Found, Sound, t
<1> QED BY Zenon, <1>4, <1>8

-----------------------------------------------------------------------------
(* The archives as copylogdb makes them.                                   *)

Begins(n) == arv[n + 1].fpageid
Ends(n)   == arv[n + 1].fpageid + arv[n + 1].npages

\* Every archive has pages, and they follow those of the one before.
Layout ==
  /\ \A n \in 0 .. Len(arv) - 1 : /\ Begins(n) \in Nat /\ Ends(n) \in Nat
                                  /\ Begins(n) < Ends(n) /\ Begins(n) = nxarv_pageid(n)
  /\ \A n, k \in 0 .. Len(arv) - 1 : k < n => Ends(k) <= Begins(n)

\* The search finds the archive of a page that one of the archives between its
\* bounds holds, if none of them is gone.
LEMMA SearchComplete ==
  ASSUME Layout, NEW pageid \in Nat, NEW nx \in 0 .. Len(arv), NEW s \in Probe(nx),
         s.num \in s.left .. s.right, s.left .. s.right \subseteq files,
         NEW k \in s.left .. s.right, Contains(k, pageid)
  PROVE  Search(pageid, nx)[s] # NotFound
<1> DEFINE f == Search(pageid, nx)
           Missed(u) == /\ u.num \in u.left .. u.right /\ u.left .. u.right \subseteq files
                        /\ k \in u.left .. u.right /\ f[u] = NotFound
           T == {n \in Nat : \E u \in Probe(nx) : Span(nx, u) = n /\ Missed(u)}
<1> HIDE DEF f
<1>1. SUFFICES ASSUME Missed(s) PROVE FALSE
  BY Zenon DEF f
<1>n. nx \in Nat
  OBVIOUS
<1>2. Span(nx, s) \in T
  BY <1>1, SpanRange
<1>3. PICK n \in T : \A m \in T : n <= m
  BY Zenon, <1>2, Least
<1>4. PICK u \in Probe(nx) : Span(nx, u) = n /\ Missed(u)
  BY Zenon, <1>3
<1>5. f[u] = Found(pageid, nx, u, f)
  BY Zenon, <1>n, SearchStep DEF f
<1>6. /\ u.left \in 0 .. nx /\ u.right \in -1 .. nx - 1 /\ u.num \in 0 .. nx
      /\ u.num \in u.left .. u.right /\ k \in u.left .. u.right
      /\ u.num \in files /\ u.left .. u.right \subseteq files
  BY Zenon, <1>4 DEF Probe
<1>7. ~Contains(u.num, pageid)
  BY <1>4, <1>5, <1>6 DEF Found, NotFound
<1> DEFINE t == NextProbe(pageid, u)
<1>8. \/ t.left = u.left /\ t.right = u.num - 1 /\ k < u.num
      \/ t.left = u.num + 1 /\ t.right = u.right /\ u.num < k
  <2>1. {u.num, k} \subseteq 0 .. Len(arv) - 1
    BY <1>6
  <2>2. /\ k < u.num => Ends(k) <= Begins(u.num)
        /\ u.num < k => Ends(u.num) <= Begins(k)
        /\ {Begins(u.num), Begins(k), Ends(u.num), Ends(k)} \subseteq Nat
        /\ Begins(u.num) < Ends(u.num)
    BY Zenon, <2>1 DEF Layout
  <2>3. Begins(k) <= pageid /\ pageid < Ends(k)
    BY Zenon DEF Contains, Begins, Ends
  <2>4. ~(Begins(u.num) <= pageid /\ pageid < Ends(u.num))
    BY Zenon, <1>7 DEF Contains, Begins, Ends
  <2>n. u.num \in Int /\ k \in Int
    BY <2>1
  <2>5. CASE pageid < Begins(u.num)
    <3>1. k # u.num
      BY <2>3, <2>5, <2>2
    <3>2. ~(u.num < k)
      BY <2>2, <2>3, <2>5
    <3>3. k < u.num
      BY <2>n, <3>1, <3>2
    <3>4. t.left = u.left /\ t.right = u.num - 1
      BY Zenon, <2>5 DEF NextProbe, Begins
    <3> QED BY Zenon, <3>3, <3>4
  <2>6. CASE ~(pageid < Begins(u.num))
    <3>1. Ends(u.num) <= pageid
      BY <2>2, <2>4, <2>6
    <3>2. k # u.num /\ ~(k < u.num)
      BY <2>2, <2>3, <3>1
    <3>3. u.num < k
      BY <2>n, <3>2
    <3>4. t.left = u.num + 1 /\ t.right = u.right
      BY Zenon, <2>6 DEF NextProbe, Begins
    <3> QED BY Zenon, <3>3, <3>4
  <2> QED BY Zenon, <2>5, <2>6
<1>9. t.num = CEIL_PTVDIV(t.left + t.right, 2)
  BY Zenon DEF NextProbe
<1> HIDE DEF t
<1>h. \A l, r : (l = u.left /\ r = u.num - 1 /\ k < u.num) \/ (l = u.num + 1 /\ r = u.right /\ u.num < k)
        => /\ k \in l .. r /\ l .. r \subseteq u.left .. u.right
           /\ l \in Nat /\ r \in Nat /\ r \in 0 .. nx - 1 /\ l <= r
  <2>1. u.left \in 0 .. nx /\ u.right \in -1 .. nx - 1
    BY Zenon, <1>6
  <2>2. u.num \in u.left .. u.right /\ k \in u.left .. u.right
    BY Zenon, <1>6
  <2> HIDE DEF T, Missed
  <2> DEFINE left == u.left
             right == u.right
             num == u.num
  <2>3. left \in 0 .. nx /\ right \in -1 .. nx - 1 /\ num \in left .. right /\ k \in left .. right
    BY Zenon, <2>1, <2>2
  <2> HIDE DEF left, right, num
  <2>4. \A l, r : (l = left /\ r = num - 1 /\ k < num) \/ (l = num + 1 /\ r = right /\ num < k)
          => /\ k \in l .. r /\ l .. r \subseteq left .. right
             /\ l \in Nat /\ r \in Nat /\ r \in 0 .. nx - 1 /\ l <= r
    BY <1>n, <2>3
  <2> QED BY Zenon, <2>4 DEF left, right, num
<1>k. k \in t.left .. t.right /\ t.left .. t.right \subseteq u.left .. u.right
  BY Zenon, <1>h, <1>8
<1>10. t.left \in Nat /\ t.right \in Nat /\ t.right \in 0 .. nx - 1 /\ t.left <= t.right
  BY Zenon, <1>h, <1>8
<1>11. t.num \in t.left .. t.right /\ t.num \in 0 .. nx - 1
  <2>1. CEIL_PTVDIV(t.left + t.right, 2) \in t.left .. t.right
    BY Zenon, <1>10, Middle
  <2> QED BY <1>9, <1>10, <2>1
<1>12. t \in Probe(nx) /\ Span(nx, t) < n
  BY Zenon, <1>n, <1>4, <1>10, <1>11, NextProbeShrinks DEF t
<1>13. Span(nx, t) \in Nat /\ n \in Nat
  BY Zenon, <1>n, <1>3, <1>12, SpanRange
<1>14. Span(nx, t) \notin T
  BY <1>3, <1>12, <1>13
<1>15. ~Missed(t)
  BY Zenon, <1>12, <1>13, <1>14
<1>16. f[t] # NotFound
  BY Zenon, <1>6, <1>k, <1>11, <1>15
<1>17. f[u] = f[t]
  BY Zenon, <1>5, <1>6, <1>7, <1>10, <1>11 DEF Found, t
<1> QED BY Zenon, <1>4, <1>16, <1>17

-----------------------------------------------------------------------------
(* The inductive invariant.                                                *)

\* The row is the required_lsa in memory as long as its update did not fail.
RowIsRequired == update_errors = 0 => row_required = required

AInv == TypeOK /\ Layout /\ RowIsRequired /\ RestartFindsItsLog /\ NewestArchivesKept

\* Where la_find_archive_num starts.
First(pageid, nx, deleted) ==
  [left |-> deleted + 1, right |-> nx - 1,
   num |-> GreaterOf(IF pageid \div LogNpages >= nx THEN nx - 1 ELSE pageid \div LogNpages,
                     deleted + 1)]

\* la_find_archive_num starts at a probe between the bounds.
LEMMA FirstProbe ==
  ASSUME NEW pageid \in Nat, NEW nx \in Nat, NEW deleted \in -1 .. nx - 1
  PROVE  LET s == First(pageid, nx, deleted)
         IN  /\ s \in Probe(nx)
             /\ la_find_archive_num(pageid, nx, deleted) = Search(pageid, nx)[s]
             /\ s.left = deleted + 1 /\ s.right = nx - 1
             /\ s.left <= s.right => s.num \in s.left .. s.right
<1> DEFINE guess == pageid \div LogNpages
           num == GreaterOf(IF guess >= nx THEN nx - 1 ELSE guess, deleted + 1)
           s == [left |-> deleted + 1, right |-> nx - 1, num |-> num]
<1>1. guess \in Int
  BY ArchiveRemovalAssumption
<1>2. GreaterOf(0, deleted + 1) = deleted + 1
  BY DEF GreaterOf
<1>3. la_find_archive_num(pageid, nx, deleted) = Search(pageid, nx)[s]
  BY Zenon, <1>2 DEF la_find_archive_num, SearchFrom
<1>4. s = First(pageid, nx, deleted)
  BY Zenon DEF First
<1> HIDE DEF guess
<1>5. num \in 0 .. nx /\ (deleted + 1 <= nx - 1 => num \in deleted + 1 .. nx - 1)
  BY <1>1 DEF GreaterOf
<1> HIDE DEF num
<1>6. s \in Probe(nx)
  BY <1>5 DEF Probe
<1> QED BY <1>3, <1>4, <1>5, <1>6

\* The archives before the one with the required page end before that page.
LEMMA RequiredArvBound ==
  ASSUME AInv, NEW req, req = RequiredArv(Len(arv)), req # NotFound
  PROVE  req \in 0 .. Len(arv) /\ \A n \in 0 .. req - 1 : Ends(n) <= required
<1> DEFINE nx == Len(arv)
<1>1. /\ nx \in Nat /\ last_deleted \in -1 .. nx - 1 /\ required \in Nat
      /\ files \subseteq 0 .. nx - 1 /\ Layout
  BY DEF AInv, TypeOK
<1> HIDE DEF nx
<1>2. CASE required < nxarv_pageid(nx)
  <2>1. req = la_find_archive_num(required, nx, last_deleted)
    BY Zenon, <1>2 DEF RequiredArv, nx
  <2> DEFINE s == First(required, nx, last_deleted)
  <2>2. s \in Probe(nx) /\ req = Search(required, nx)[s]
    BY Zenon, <1>1, <2>1, FirstProbe
  <2> HIDE DEF s
  <2>3. req \in files /\ Contains(req, required)
    BY Zenon, <1>1, <2>2, SearchSound
  <2>4. req \in 0 .. nx - 1 /\ Begins(req) <= required
    BY Zenon, <1>1, <2>3 DEF Contains, Begins
  <2>5. ASSUME NEW n \in 0 .. req - 1 PROVE Ends(n) <= required
    <3>1. n \in 0 .. nx - 1 /\ n < req
      BY <1>1, <2>4
    <3>2. Ends(n) <= Begins(req) /\ Ends(n) \in Nat /\ Begins(req) \in Nat
      BY Zenon, <1>1, <2>4, <3>1 DEF Layout, nx
    <3> QED BY <1>1, <2>4, <3>2
  <2> QED BY <1>1, <2>4, <2>5 DEF nx
<1>3. CASE ~(required < nxarv_pageid(nx))
  <2>1. req = nx
    BY Zenon, <1>3 DEF RequiredArv, nx
  <2>2. ASSUME NEW n \in 0 .. nx - 1 PROVE Ends(n) <= required
    <3>1. nxarv_pageid(nx) = Ends(nx - 1)
      BY <1>1 DEF nxarv_pageid, Ends
    <3>2. n < nx - 1 => Ends(n) <= Begins(nx - 1)
      BY <1>1 DEF Layout, nx
    <3>3. {Ends(n), Ends(nx - 1), Begins(nx - 1)} \subseteq Nat /\ Begins(nx - 1) < Ends(nx - 1)
      BY <1>1 DEF Layout, nx
    <3> QED BY <1>1, <1>3, <3>1, <3>2, <3>3
  <2> QED BY <1>1, <2>1, <2>2 DEF nx
<1> QED BY Zenon, <1>2, <1>3

\* The archives before the one with the required page, and before the newest
\* ones, are what a removal deletes.
LEMMA RemovalBound ==
  ASSUME AInv, NEW limit \in Nat \ {0},
         NEW last, last = la_remove_archive_logs(Len(arv), limit)
  PROVE  /\ last \in last_deleted .. Len(arv) - 1
         /\ \A n \in last_deleted + 1 .. last :
              n \in 0 .. Len(arv) - 1 /\ Ends(n) <= required
                /\ n < Len(arv) - ha_copy_log_max_archives
<1> DEFINE nx == Len(arv)
           req == RequiredArv(nx)
           keep == ArchivesToKeep(nx)
           newest == nx - keep - 1
<1>1. /\ nx \in Nat /\ last_deleted \in -1 .. nx - 1 /\ required \in Nat
      /\ ha_copy_log_max_archives \in Nat
  BY ArchiveRemovalAssumption DEF AInv, TypeOK
<1>2. \/ last = last_deleted
      \/ /\ req # NotFound /\ last_deleted + 1 <= newest
         /\ last = IF limit < newest - (last_deleted + 1) + 1
                   THEN last_deleted + 1 + limit - 1 ELSE newest
  <2>1. keep \in Int \/ req = NotFound
    BY <1>1, RequiredArvBound DEF ArchivesToKeep, GreaterOf
  <2> HIDE DEF req, keep, nx
  <2> QED BY <1>1, <2>1 DEF la_remove_archive_logs, req, keep, nx
<1>3. CASE last = last_deleted
  BY <1>1, <1>3
<1>4. CASE /\ req # NotFound /\ last_deleted + 1 <= newest
           /\ last = IF limit < newest - (last_deleted + 1) + 1
                     THEN last_deleted + 1 + limit - 1 ELSE newest
  <2>1. req \in 0 .. nx /\ \A n \in 0 .. req - 1 : Ends(n) <= required
    BY Zenon, <1>4, RequiredArvBound
  <2> HIDE DEF req, nx
  <2>2. keep \in Int /\ keep >= nx - req /\ keep >= ha_copy_log_max_archives
    BY <1>1, <2>1 DEF ArchivesToKeep, GreaterOf, req
  <2> HIDE DEF keep
  <2>3. last \in last_deleted .. newest /\ newest \in Int
    BY <1>1, <1>4, <2>2
  <2>4. newest <= req - 1 /\ newest < nx - ha_copy_log_max_archives
    BY <1>1, <2>1, <2>2
  <2> HIDE DEF newest
  <2>5. last \in last_deleted .. nx - 1
    BY <1>1, <2>1, <2>3, <2>4
  <2>6. ASSUME NEW n \in last_deleted + 1 .. last
        PROVE  n \in 0 .. nx - 1 /\ n \in 0 .. req - 1 /\ n < nx - ha_copy_log_max_archives
    BY <1>1, <2>1, <2>3, <2>4
  <2> QED BY Zenon, <2>1, <2>5, <2>6 DEF nx
<1> QED BY Zenon, <1>2, <1>3, <1>4

-----------------------------------------------------------------------------
(* The number of the last deleted archive.                                 *)

\* There is a highest missing number, -1 if no file is missing.
LEMMA LastMissing ==
  ASSUME NEW len \in Nat, NEW present, present \subseteq 0 .. len - 1
  PROVE  \E n \in -1 .. len - 1 :
           n \notin present /\ \A m \in n + 1 .. len - 1 : m \in present
<1> DEFINE T == {d \in Nat : d <= len /\ len - 1 - d \notin present}
<1>1. len \in T
  OBVIOUS
<1>2. PICK d \in T : \A e \in T : d <= e
  BY Zenon, <1>1, Least
<1>3. d \in Nat /\ d <= len /\ len - 1 - d \notin present
  BY Zenon, <1>2
<1> DEFINE n == len - 1 - d
<1>4. n \in -1 .. len - 1
  BY <1>3
<1>5. ASSUME NEW m \in n + 1 .. len - 1, m \notin present PROVE FALSE
  <2>1. len - 1 - m \in Nat /\ len - 1 - m < d /\ len - 1 - m <= len
    BY <1>3
  <2>2. len - 1 - (len - 1 - m) = m
    OBVIOUS
  <2>3. len - 1 - m \in T
    BY Zenon, <1>5, <2>1, <2>2
  <2> QED BY <1>2, <1>3, <2>1, <2>3
<1> QED BY Zenon, <1>3, <1>4, <1>5

\* What la_find_last_deleted_arv_num returns.
LEMMA FindLastDeleted ==
  ASSUME Len(arv) \in Nat, NEW present, present \subseteq 0 .. Len(arv) - 1
  PROVE  LET n == la_find_last_deleted_arv_num(present)
         IN  n \in -1 .. Len(arv) - 1 /\ \A m \in n + 1 .. Len(arv) - 1 : m \in present
<1> DEFINE Is(n) == n \notin present /\ \A m \in n + 1 .. Len(arv) - 1 : m \in present
<1>1. \E n \in -1 .. Len(arv) - 1 : Is(n)
  BY Zenon, LastMissing
<1>2. la_find_last_deleted_arv_num(present) = CHOOSE n \in -1 .. Len(arv) - 1 : Is(n)
  BY Zenon DEF la_find_last_deleted_arv_num
<1>3. /\ la_find_last_deleted_arv_num(present) \in -1 .. Len(arv) - 1
      /\ Is(la_find_last_deleted_arv_num(present))
  <2> HIDE DEF Is
  <2> QED BY Zenon, <1>1, <1>2
<1> QED BY Zenon, <1>3

\* Every page between two archive boundaries is in an archive between them.
LEMMA PageIsInArchive ==
  ASSUME Layout, Len(arv) \in Nat, NEW nx \in 0 .. Len(arv), NEW first \in 0 .. nx,
         NEW pageid \in Nat, nxarv_pageid(first) <= pageid, pageid < nxarv_pageid(nx)
  PROVE  \E k \in first .. nx - 1 : Contains(k, pageid)
<1> DEFINE T == {k \in Nat : k < nx /\ pageid < Ends(k)}
<1>1. \A n \in 1 .. Len(arv) : nxarv_pageid(n) = Ends(n - 1)
  BY DEF nxarv_pageid, Ends
<1>2. nxarv_pageid(0) = 0
  BY Zenon DEF nxarv_pageid
<1>3. nx # 0
  BY <1>2
<1>4. nx - 1 \in T
  BY <1>1, <1>3
<1>5. PICK k \in T : \A m \in T : k <= m
  BY Zenon, <1>4, Least
<1>6. k \in Nat /\ k < nx /\ pageid < Ends(k) /\ k \in 0 .. Len(arv) - 1
  BY <1>5
<1>7. Begins(k) <= pageid
  <2>1. Begins(k) = nxarv_pageid(k)
    BY Zenon, <1>6 DEF Layout
  <2>2. CASE k = 0
    BY <1>2, <2>1, <2>2
  <2>3. CASE k # 0
    <3>1. Begins(k) = Ends(k - 1) /\ Ends(k - 1) \in Nat /\ k - 1 \in Nat /\ k - 1 < nx
      BY <1>1, <1>6, <2>1, <2>3 DEF Layout
    <3>2. k - 1 \notin T
      BY <1>5, <1>6, <2>3
    <3> QED BY <3>1, <3>2
  <2> QED BY Zenon, <2>2, <2>3
<1>8. first <= k
  <2>1. SUFFICES ASSUME k < first PROVE FALSE
    BY <1>6
  <2>2. nxarv_pageid(first) = Ends(first - 1) /\ first - 1 \in 0 .. Len(arv) - 1
    BY <1>1, <1>6, <2>1
  <2>3. k < first - 1 => Ends(k) <= Begins(first - 1)
    BY Zenon, <1>6, <2>2 DEF Layout
  <2>4. {Ends(k), Begins(first - 1), Ends(first - 1)} \subseteq Nat
        /\ Begins(first - 1) < Ends(first - 1)
    BY Zenon, <1>6, <2>2 DEF Layout
  <2>5. Ends(k) <= Ends(first - 1)
    BY <1>6, <2>1, <2>3, <2>4
  <2> QED BY <1>6, <2>2, <2>4, <2>5
<1>9. Contains(k, pageid)
  BY Zenon, <1>6, <1>7 DEF Contains, Begins, Ends
<1> QED BY <1>6, <1>8, <1>9

\* FindsTheArchive follows from the layout of the archives.
LEMMA FindsIt == AInv => FindsTheArchive
<1> SUFFICES ASSUME AInv PROVE FindsTheArchive
  BY Zenon
<1> DEFINE deleted == la_find_last_deleted_arv_num(files)
           first == deleted + 1
<1>1. /\ Len(arv) \in Nat /\ files \subseteq 0 .. Len(arv) - 1 /\ Layout
      /\ nxarv_num \in 0 .. Len(arv) /\ last_deleted \in -1 .. nxarv_num - 1 /\ required \in Nat
  BY DEF AInv, TypeOK
<1>2. deleted \in -1 .. Len(arv) - 1 /\ \A m \in first .. Len(arv) - 1 : m \in files
  BY Zenon, <1>1, FindLastDeleted
<1> HIDE DEF deleted
<1>3. ASSUME last_deleted = deleted,
             NEW pageid \in GreaterOf(required, nxarv_pageid(first)) .. nxarv_pageid(nxarv_num) - 1
      PROVE  LET n == la_find_archive_num(pageid, nxarv_num, last_deleted)
             IN  n # NotFound /\ Contains(n, pageid)
  <2>1. nxarv_num \in Nat /\ first \in 0 .. nxarv_num
    BY <1>1, <1>3
  <2>2. nxarv_pageid(first) \in Nat /\ nxarv_pageid(nxarv_num) \in Nat
    <3>1. ASSUME NEW n \in 0 .. nxarv_num PROVE nxarv_pageid(n) \in Nat
      <4>1. CASE n = 0
        BY Zenon, <4>1 DEF nxarv_pageid
      <4>2. CASE n # 0
        <5>1. nxarv_pageid(n) = Ends(n - 1)
          BY <2>1, <4>2 DEF nxarv_pageid, Ends
        <5> QED BY <1>1, <2>1, <4>2, <5>1 DEF Layout
      <4> QED BY Zenon, <4>1, <4>2
    <3> QED BY <2>1, <3>1
  <2>3. pageid \in Nat /\ nxarv_pageid(first) <= pageid /\ pageid < nxarv_pageid(nxarv_num)
    BY <1>1, <1>3, <2>2 DEF GreaterOf
  <2>4. PICK k \in first .. nxarv_num - 1 : Contains(k, pageid)
    BY Zenon, <1>1, <2>1, <2>3, PageIsInArchive
  <2> DEFINE s == First(pageid, nxarv_num, last_deleted)
  <2>5. /\ s \in Probe(nxarv_num)
        /\ la_find_archive_num(pageid, nxarv_num, last_deleted) = Search(pageid, nxarv_num)[s]
        /\ s.left = last_deleted + 1 /\ s.right = nxarv_num - 1
        /\ s.left <= s.right => s.num \in s.left .. s.right
    BY Zenon, <1>1, <2>1, <2>3, FirstProbe
  <2> HIDE DEF s
  <2>6. s.left = first /\ s.right = nxarv_num - 1
    BY Zenon, <1>3, <2>5
  <2>7. s.num \in s.left .. s.right /\ k \in s.left .. s.right
    BY <2>1, <2>4, <2>5, <2>6
  <2>8. s.left .. s.right \subseteq files
    BY <1>1, <1>2, <2>1, <2>6
  <2>9. Search(pageid, nxarv_num)[s] # NotFound
    BY Zenon, <1>1, <2>3, <2>4, <2>5, <2>7, <2>8, SearchComplete
  <2>10. Contains(Search(pageid, nxarv_num)[s], pageid)
    BY Zenon, <2>1, <2>5, <2>9, SearchSound
  <2> QED BY Zenon, <2>5, <2>9, <2>10
<1> QED BY Zenon, <1>3 DEF FindsTheArchive, deleted

-----------------------------------------------------------------------------
(* The inductive invariant holds initially and is kept by every action.    *)

\* RestartFindsItsLog in terms of Ends.
LEMMA RestartByEnds ==
  RestartFindsItsLog <=>
    (update_errors = 0 => \A n \in 0 .. Len(arv) - 1 : row_required < Ends(n) => n \in files)
  BY Zenon DEF RestartFindsItsLog, Ends

\* In the initial states there is no archive.
LEMMA InitAInv == Init => AInv
<1> SUFFICES ASSUME Init PROVE AInv
  BY Zenon
<1> USE ArchiveRemovalAssumption DEF Init
<1>1. arv \in Seq([fpageid : Nat, npages : ArvNpages]) /\ Len(arv) = 0
  OBVIOUS
<1>2. TypeOK
  BY <1>1 DEF TypeOK
<1>3. Layout /\ RestartFindsItsLog /\ NewestArchivesKept
  BY <1>1 DEF Layout, RestartFindsItsLog, NewestArchivesKept
<1>4. RowIsRequired
  BY Zenon DEF RowIsRequired
<1> QED BY Zenon, <1>2, <1>3, <1>4 DEF AInv

\* A new archive begins where the last one ended.
LEMMA ArchiveStep == AInv /\ logwr_archive_active_log => AInv'
<1> SUFFICES ASSUME AInv, logwr_archive_active_log PROVE AInv'
  BY Zenon
<1>0. PICK len \in Nat : len = Len(arv)
  BY DEF AInv, TypeOK
<1>1. PICK p \in ArvNpages :
        arv' = Append(arv, [fpageid |-> nxarv_pageid(len), npages |-> p])
  BY Zenon, <1>0 DEF logwr_archive_active_log
<1>2. /\ files' = files \union {len}
      /\ UNCHANGED <<lockf, nxarv_num, last_nxarv_num, last_deleted>>
      /\ UNCHANGED <<final, required, row_required, remove_interval, restarts, update_errors>>
  BY Zenon, <1>0 DEF logwr_archive_active_log, posVars
<1>3. /\ TypeOK /\ Layout /\ RowIsRequired /\ RestartFindsItsLog /\ NewestArchivesKept
      /\ arv \in Seq([fpageid : Nat, npages : ArvNpages]) /\ len \in Nat
      /\ p \in Nat /\ p > 0 /\ len = Len(arv)
  BY <1>0, ArchiveRemovalAssumption DEF AInv, TypeOK
<1>4. nxarv_pageid(len) \in Nat /\ (len # 0 => nxarv_pageid(len) = Ends(len - 1))
  <2>1. CASE len = 0
    BY Zenon, <2>1 DEF nxarv_pageid
  <2>2. CASE len # 0
    <3>1. nxarv_pageid(len) = Ends(len - 1)
      BY <1>3, <2>2 DEF nxarv_pageid, Ends
    <3> QED BY <1>3, <2>2, <3>1 DEF Layout
  <2> QED BY Zenon, <2>1, <2>2
<1> DEFINE new == [fpageid |-> nxarv_pageid(len), npages |-> p]
<1>5. new \in [fpageid : Nat, npages : ArvNpages]
      /\ new.fpageid = nxarv_pageid(len) /\ new.npages = p
  BY Zenon, <1>4
<1> HIDE DEF new
<1>6. /\ arv' \in Seq([fpageid : Nat, npages : ArvNpages]) /\ Len(arv') = len + 1
      /\ \A i \in 1 .. len : arv'[i] = arv[i]
      /\ arv'[len + 1] = new
  BY <1>1, <1>3, <1>5 DEF new
<1>7. \A n \in 0 .. len - 1 : Begins(n)' = Begins(n) /\ Ends(n)' = Ends(n)
  BY <1>3, <1>6 DEF Begins, Ends
<1>8. Begins(len)' = nxarv_pageid(len) /\ Ends(len)' = nxarv_pageid(len) + p
  BY Zenon, <1>3, <1>5, <1>6 DEF Begins, Ends
<1>9. \A n \in 0 .. len : nxarv_pageid(n)' = nxarv_pageid(n)
  BY <1>3, <1>6 DEF nxarv_pageid
<1>10. TypeOK'
  <2>1. files' \subseteq 0 .. Len(arv') - 1
    <3>1. files \subseteq 0 .. len - 1
      BY Zenon, <1>3 DEF TypeOK
    <3>2. Len(arv') - 1 = len
      BY <1>3, <1>6
    <3>3. \A n \in 0 .. len - 1 : n \in 0 .. len
      BY <1>3
    <3>4. len \in 0 .. len
      BY <1>3
    <3> QED BY Zenon, <1>2, <3>1, <3>2, <3>3, <3>4
  <2>2. nxarv_num' \in 0 .. Len(arv') /\ last_nxarv_num' \in 0 .. nxarv_num'
        /\ last_deleted' \in -1 .. nxarv_num' - 1 /\ lockf' \in -1 .. Len(arv') - 1
    BY <1>2, <1>3, <1>6 DEF TypeOK
  <2>3. /\ row_required' \in Nat /\ required' \in row_required' .. final' /\ final' \in Nat
        /\ remove_interval' \in BOOLEAN
        /\ restarts' \in 0 .. MaxRestarts /\ update_errors' \in 0 .. MaxUpdateErrors
    BY Zenon, <1>2, <1>3 DEF TypeOK
  <2> QED BY Zenon, <1>6, <2>1, <2>2, <2>3 DEF TypeOK
<1>11. Layout'
  <2>0. \A n \in 0 .. len : n \in 0 .. len - 1 \/ n = len
    BY <1>3
  <2>1. ASSUME NEW n \in 0 .. len
        PROVE  /\ Begins(n)' \in Nat /\ Ends(n)' \in Nat
               /\ Begins(n)' < Ends(n)' /\ Begins(n)' = nxarv_pageid(n)'
    <3>1. CASE n = len
      BY <1>3, <1>4, <1>8, <1>9, <3>1
    <3>2. CASE n \in 0 .. len - 1
      BY Zenon, <1>3, <1>7, <1>9, <3>2 DEF Layout
    <3> QED BY Zenon, <2>0, <3>1, <3>2
  <2>2. ASSUME NEW n \in 0 .. len, NEW k \in 0 .. len, k < n
        PROVE  Ends(k)' <= Begins(n)'
    <3>1. CASE n \in 0 .. len - 1
      <4>1. k \in 0 .. len - 1
        BY <1>3, <2>2, <3>1
      <4> QED BY Zenon, <1>3, <1>7, <2>2, <3>1, <4>1 DEF Layout
    <3>2. CASE n = len
      <4>1. k \in 0 .. len - 1 /\ len - 1 \in 0 .. len - 1 /\ len # 0
        BY <1>3, <2>2, <3>2
      <4>2. k < len - 1 => Ends(k) <= Begins(len - 1)
        BY Zenon, <1>3, <4>1 DEF Layout
      <4>3. {Ends(k), Begins(len - 1), Ends(len - 1)} \subseteq Nat
            /\ Begins(len - 1) < Ends(len - 1)
        BY Zenon, <1>3, <4>1 DEF Layout
      <4>4. k # len - 1 => k < len - 1
        BY <1>3, <4>1
      <4>5. Ends(k) <= Ends(len - 1)
        BY <4>2, <4>3, <4>4
      <4> QED BY Zenon, <1>4, <1>7, <1>8, <3>2, <4>1, <4>5
    <3> QED BY Zenon, <2>0, <3>1, <3>2
  <2>3. 0 .. Len(arv') - 1 = 0 .. len
    BY <1>3, <1>6
  <2> QED BY Zenon, <2>1, <2>2, <2>3 DEF Layout
<1>12. RowIsRequired'
  BY Zenon, <1>2, <1>3 DEF RowIsRequired
<1>13. RestartFindsItsLog'
  <2>1. update_errors = 0 => \A n \in 0 .. len - 1 : row_required < Ends(n) => n \in files
    BY Zenon, <1>3, RestartByEnds
  <2>2. ASSUME update_errors' = 0, NEW n \in 0 .. Len(arv') - 1, row_required' < Ends(n)'
        PROVE  n \in files'
    <3>1. n = len \/ n \in 0 .. len - 1
      BY <1>3, <1>6
    <3>2. CASE n \in 0 .. len - 1
      BY Zenon, <1>2, <1>7, <2>1, <2>2, <3>2
    <3> QED BY Zenon, <1>2, <3>1, <3>2
  <2> QED BY Zenon, <2>2 DEF RestartFindsItsLog, Ends
<1>14. NewestArchivesKept'
  <2>1. ASSUME NEW n \in 0 .. Len(arv') - 1, n >= Len(arv') - ha_copy_log_max_archives
        PROVE  n \in files'
    <3>1. n = len \/ (n \in 0 .. len - 1 /\ n >= len - ha_copy_log_max_archives)
      BY <1>3, <1>6, <2>1, ArchiveRemovalAssumption
    <3> QED BY Zenon, <1>2, <1>3, <3>1 DEF NewestArchivesKept
  <2> QED BY Zenon, <2>1 DEF NewestArchivesKept
<1> QED BY Zenon, <1>10, <1>11, <1>12, <1>13, <1>14 DEF AInv

\* Actions that leave the archives alone keep the layout.
LEMMA LayoutStep == Layout /\ UNCHANGED arv => Layout'
<1> SUFFICES ASSUME Layout, arv' = arv PROVE Layout'
  BY Zenon
<1>1. \A n : /\ Begins(n)' = Begins(n) /\ Ends(n)' = Ends(n)
             /\ nxarv_pageid(n)' = nxarv_pageid(n)
  BY Zenon DEF Begins, Ends, nxarv_pageid
<1> QED BY Zenon, <1>1 DEF Layout

\* What a removal, whole or cut short, leaves on disk is enough.
LEMMA FilesStep ==
  ASSUME AInv, UNCHANGED <<arv, row_required, update_errors>>,
         NEW last \in Int,
         \A n \in last_deleted + 1 .. last :
           Ends(n) <= required /\ n < Len(arv) - ha_copy_log_max_archives,
         files' = files \ (last_deleted + 1 .. last)
  PROVE  RestartFindsItsLog' /\ NewestArchivesKept'
<1>1. /\ RestartFindsItsLog /\ NewestArchivesKept /\ Layout /\ RowIsRequired
      /\ Len(arv) \in Nat /\ required \in Nat /\ row_required \in Nat
      /\ ha_copy_log_max_archives \in Nat
  BY ArchiveRemovalAssumption DEF AInv, TypeOK
<1>2. ASSUME update_errors' = 0, NEW n \in 0 .. Len(arv') - 1, row_required' < Ends(n)'
      PROVE  n \in files'
  <2>1. Ends(n)' = Ends(n) /\ Ends(n) \in Nat
    BY Zenon, <1>1 DEF Ends, Layout
  <2>2. n \in files
    BY Zenon, <1>1, <1>2, <2>1, RestartByEnds
  <2>3. row_required = required
    BY Zenon, <1>1, <1>2 DEF RowIsRequired
  <2>4. n \notin last_deleted + 1 .. last
    BY <1>1, <1>2, <2>1, <2>3
  <2> QED BY Zenon, <2>2, <2>4
<1>3. RestartFindsItsLog'
  BY Zenon, <1>2 DEF RestartFindsItsLog, Ends
<1>4. NewestArchivesKept'
  BY <1>1 DEF NewestArchivesKept
<1> QED BY Zenon, <1>3, <1>4

\* MaxToDelete leaves a positive number when a removal is due.
LEMMA LimitType == \A limit \in MaxToDelete \ {0} : limit \in Nat \ {0}
  BY ArchiveRemovalAssumption DEF MaxToDelete

\* The header that is read is not older than the one in memory.
LEMMA FetchStep == AInv /\ FetchHeader => AInv'
<1> SUFFICES ASSUME AInv, FetchHeader PROVE AInv'
  OBVIOUS
<1>1. /\ UNCHANGED <<arv, files, lockf, last_deleted, final, required, row_required,
                     remove_interval, restarts, update_errors>>
      /\ nxarv_num' = Len(arv) /\ last_nxarv_num' = LastNxarv
  BY Zenon DEF FetchHeader, diskVars, posVars
<1>2. TypeOK'
  BY <1>1 DEF AInv, TypeOK, LastNxarv
<1>3. Layout'
  BY Zenon, <1>1, LayoutStep DEF AInv
<1>4. RowIsRequired' /\ RestartFindsItsLog' /\ NewestArchivesKept'
  BY Zenon, <1>1 DEF AInv, RowIsRequired, RestartFindsItsLog, NewestArchivesKept
<1> QED BY Zenon, <1>2, <1>3, <1>4 DEF AInv

\* A removal deletes nothing that is needed.
LEMMA RemoveStep == AInv /\ RemoveArchives => AInv'
<1> SUFFICES ASSUME AInv, RemoveArchives PROVE AInv'
  OBVIOUS
<1>1. PICK limit \in MaxToDelete \ {0} :
        LET last == la_remove_archive_logs(Len(arv), limit)
        IN  /\ files' = files \ (last_deleted + 1 .. last)
            /\ last_deleted' = last
            /\ lockf' = IF last >= 0 THEN last ELSE lockf
            /\ nxarv_num' = Len(arv) /\ last_nxarv_num' = Len(arv)
            /\ UNCHANGED <<arv, posVars>>
  BY Zenon DEF RemoveArchives
<1>2. PICK last : last = la_remove_archive_logs(Len(arv), limit)
  BY Zenon
<1>3. /\ files' = files \ (last_deleted + 1 .. last)
      /\ last_deleted' = last
      /\ lockf' = IF last >= 0 THEN last ELSE lockf
      /\ nxarv_num' = Len(arv) /\ last_nxarv_num' = Len(arv)
      /\ UNCHANGED <<arv, final, required, row_required, remove_interval, restarts, update_errors>>
  BY Zenon, <1>1, <1>2 DEF posVars
<1>4. /\ last \in last_deleted .. Len(arv) - 1
      /\ \A n \in last_deleted + 1 .. last :
           n \in 0 .. Len(arv) - 1 /\ Ends(n) <= required
             /\ n < Len(arv) - ha_copy_log_max_archives
  BY Zenon, <1>2, LimitType, RemovalBound
<1>5. last \in Int /\ last_deleted \in Int /\ Len(arv) \in Nat
  BY <1>4 DEF AInv, TypeOK
<1>6. TypeOK'
  BY <1>3, <1>4, <1>5 DEF AInv, TypeOK
<1>7. Layout'
  BY Zenon, <1>3, LayoutStep DEF AInv
<1>8. RestartFindsItsLog' /\ NewestArchivesKept'
  BY Zenon, <1>3, <1>4, <1>5, FilesStep
<1>9. RowIsRequired'
  BY Zenon, <1>3 DEF AInv, RowIsRequired
<1> QED BY Zenon, <1>6, <1>7, <1>8, <1>9 DEF AInv

\* Reading on changes the read position only.
LEMMA ReadStep == AInv /\ ReadPage => AInv'
<1> SUFFICES ASSUME AInv, ReadPage PROVE AInv'
  OBVIOUS
<1>1. /\ UNCHANGED <<arv, files, lockf, nxarv_num, last_nxarv_num, last_deleted, required,
                     row_required, remove_interval, restarts, update_errors>>
      /\ final' = final + 1
  BY Zenon DEF ReadPage, diskVars
<1>2. TypeOK'
  BY <1>1 DEF AInv, TypeOK
<1>3. Layout'
  BY Zenon, <1>1, LayoutStep DEF AInv
<1>4. RowIsRequired' /\ RestartFindsItsLog' /\ NewestArchivesKept'
  BY Zenon, <1>1 DEF AInv, RowIsRequired, RestartFindsItsLog, NewestArchivesKept
<1> QED BY <1>2, <1>3, <1>4 DEF AInv

\* The row only moves forward, and stays behind the position in memory only
\* after an error.
LEMMA CommitStep == AInv /\ la_log_commit => AInv'
<1> SUFFICES ASSUME AInv, la_log_commit PROVE AInv'
  OBVIOUS
<1>1. /\ UNCHANGED <<arv, files, lockf, nxarv_num, last_nxarv_num, last_deleted, final,
                     remove_interval, restarts>>
      /\ required' \in required .. final
      /\ \/ row_required' = required' /\ update_errors' = update_errors
         \/ /\ update_errors < MaxUpdateErrors /\ update_errors' = update_errors + 1
            /\ row_required' = row_required
  BY Zenon DEF la_log_commit, diskVars
<1>2. /\ TypeOK /\ Layout /\ RowIsRequired /\ RestartFindsItsLog /\ NewestArchivesKept
      /\ update_errors \in 0 .. MaxUpdateErrors /\ MaxUpdateErrors \in Nat
      /\ row_required \in Nat /\ final \in Nat /\ required \in row_required .. final
  BY Zenon, ArchiveRemovalAssumption DEF AInv, TypeOK
<1>3. TypeOK'
  <2>1. /\ row_required' \in Nat /\ required' \in row_required' .. final'
        /\ update_errors' \in 0 .. MaxUpdateErrors
    BY <1>1, <1>2
  <2> QED BY Zenon, <1>1, <1>2, <2>1 DEF TypeOK
<1>4. Layout'
  BY Zenon, <1>1, <1>2, LayoutStep
<1>5. RowIsRequired'
  BY <1>1, <1>2 DEF RowIsRequired
<1>6. RestartFindsItsLog'
  <2>1. ASSUME update_errors' = 0, NEW n \in 0 .. Len(arv') - 1, row_required' < Ends(n)'
        PROVE  n \in files'
    <3>1. update_errors = 0 /\ row_required' = required'
      BY <1>1, <1>2, <2>1
    <3>2. row_required <= row_required'
      BY <1>1, <1>2, <3>1
    <3>3. Ends(n)' = Ends(n) /\ Ends(n) \in Nat /\ n \in 0 .. Len(arv) - 1
      BY Zenon, <1>1, <1>2 DEF Ends, Layout
    <3>4. row_required < Ends(n)
      BY <1>1, <1>2, <2>1, <3>1, <3>2, <3>3
    <3> QED BY Zenon, <1>1, <1>2, <3>1, <3>3, <3>4, RestartByEnds
  <2> QED BY Zenon, <2>1 DEF RestartFindsItsLog, Ends
<1>7. NewestArchivesKept'
  BY Zenon, <1>1, <1>2 DEF NewestArchivesKept
<1> QED BY Zenon, <1>3, <1>4, <1>5, <1>6, <1>7 DEF AInv

\* A restart takes over the row and finds a number for the last deleted archive.
LEMMA StartStep ==
  ASSUME AInv, NEW present, present \subseteq files, Start(present),
         RestartFindsItsLog', NewestArchivesKept'
  PROVE  AInv'
<1>1. /\ files' = present /\ restarts' = restarts + 1 /\ restarts < MaxRestarts
      /\ last_deleted' = IF lockf = -1 THEN la_find_last_deleted_arv_num(present) ELSE lockf
      /\ nxarv_num' = Len(arv) /\ last_nxarv_num' = 0
      /\ required' = row_required /\ final' = row_required
      /\ UNCHANGED <<arv, lockf, row_required, remove_interval, update_errors>>
  BY Zenon DEF Start
<1>2. TypeOK /\ Len(arv) \in Nat /\ files \subseteq 0 .. Len(arv) - 1 /\ MaxRestarts \in Nat
  BY ArchiveRemovalAssumption DEF AInv, TypeOK
<1>3. la_find_last_deleted_arv_num(present) \in -1 .. Len(arv) - 1
  <2>1. present \subseteq 0 .. Len(arv) - 1
    BY Zenon, <1>2
  <2> QED BY Zenon, <1>2, <2>1, FindLastDeleted
<1>4. TypeOK'
  BY <1>1, <1>2, <1>3 DEF TypeOK
<1>5. Layout'
  BY Zenon, <1>1, LayoutStep DEF AInv
<1>6. RowIsRequired'
  BY Zenon, <1>1 DEF RowIsRequired
<1> QED BY Zenon, <1>4, <1>5, <1>6 DEF AInv

\* A restart without a removal leaves the files alone.
LEMMA RestartStep == AInv /\ Restart => AInv'
<1> SUFFICES ASSUME AInv, Restart PROVE AInv'
  OBVIOUS
<1>1. Start(files)
  BY Zenon DEF Restart
<1>2. UNCHANGED <<arv, files, row_required, update_errors>>
  BY Zenon, <1>1 DEF Start
<1>3. RestartFindsItsLog' /\ NewestArchivesKept'
  BY Zenon, <1>2 DEF AInv, RestartFindsItsLog, NewestArchivesKept
<1> QED BY Zenon, <1>1, <1>3, StartStep

\* A removal cut short deletes a part of what the whole one would.
LEMMA CrashStep == AInv /\ CrashInRemoval => AInv'
<1> SUFFICES ASSUME AInv, CrashInRemoval PROVE AInv'
  OBVIOUS
<1>1. PICK limit \in MaxToDelete \ {0} :
        \E n \in last_deleted + 1 .. la_remove_archive_logs(Len(arv), limit) :
          Start(files \ (last_deleted + 1 .. n))
  BY Zenon DEF CrashInRemoval
<1>2. PICK last : last = la_remove_archive_logs(Len(arv), limit)
  OBVIOUS
<1>3. PICK n \in last_deleted + 1 .. last : Start(files \ (last_deleted + 1 .. n))
  BY Zenon, <1>1, <1>2
<1>4. /\ last \in last_deleted .. Len(arv) - 1
      /\ \A m \in last_deleted + 1 .. last :
           m \in 0 .. Len(arv) - 1 /\ Ends(m) <= required
             /\ m < Len(arv) - ha_copy_log_max_archives
  BY Zenon, <1>2, LimitType, RemovalBound
<1>5. last_deleted \in Int /\ Len(arv) \in Nat /\ last \in Int /\ n \in Int
  BY <1>3, <1>4 DEF AInv, TypeOK
<1>6. \A m \in last_deleted + 1 .. n : m \in last_deleted + 1 .. last
  BY <1>3, <1>5
<1>7. /\ files' = files \ (last_deleted + 1 .. n)
      /\ UNCHANGED <<arv, row_required, update_errors>>
  BY Zenon, <1>3 DEF Start
<1>8. RestartFindsItsLog' /\ NewestArchivesKept'
  BY Zenon, <1>4, <1>5, <1>6, <1>7, FilesStep
<1>9. files \ (last_deleted + 1 .. n) \subseteq files
  BY Zenon
<1> QED BY Zenon, <1>3, <1>8, <1>9, StartStep

\* AInv is an invariant.
THEOREM AInvAlways == Spec => []AInv
<1>1. AInv /\ [Next]_vars => AInv'
  <2> SUFFICES ASSUME AInv, [Next]_vars PROVE AInv'
    BY Zenon
  <2>1. CASE UNCHANGED vars
    <3>1. UNCHANGED <<arv, files, lockf, nxarv_num, last_nxarv_num, last_deleted, final,
                      required, row_required, remove_interval, restarts, update_errors>>
      BY Zenon, <2>1 DEF vars, diskVars, posVars
    <3>2. TypeOK'
      BY Zenon, <3>1 DEF AInv, TypeOK
    <3>3. Layout'
      BY Zenon, <3>1, LayoutStep DEF AInv
    <3>4. RowIsRequired' /\ RestartFindsItsLog' /\ NewestArchivesKept'
      BY Zenon, <3>1 DEF AInv, RowIsRequired, RestartFindsItsLog, NewestArchivesKept
    <3> QED BY Zenon, <3>2, <3>3, <3>4 DEF AInv
  <2>2. CASE logwr_archive_active_log
    BY Zenon, <2>2, ArchiveStep
  <2>3. CASE FetchHeader
    BY Zenon, <2>3, FetchStep
  <2>4. CASE RemoveArchives
    BY <2>4, RemoveStep
  <2>5. CASE ReadPage
    BY <2>5, ReadStep
  <2>6. CASE la_log_commit
    BY <2>6, CommitStep
  <2>7. CASE Restart
    BY <2>7, RestartStep
  <2>8. CASE CrashInRemoval
    BY <2>8, CrashStep
  <2> QED BY Zenon, <2>1, <2>2, <2>3, <2>4, <2>5, <2>6, <2>7, <2>8 DEF Next
<1> QED BY <1>1, InitAInv, PTL DEF Spec

\* The numbers of archives and pages that la_apply_log_file keeps have their
\* types; required_lsa lies between the committed row's and the read position.
THEOREM ArchiveTypeCorrect == Spec => []TypeOK
<1>1. AInv => TypeOK
  BY Zenon DEF AInv
<1> QED BY <1>1, AInvAlways, PTL

\* For any number and any sizes of archives, deaths of the applier in a removal
\* and restarts: la_remove_archive_logs deletes no archive that a restart from
\* the committed row needs, as long as no error of the row's update was ignored.
THEOREM RestartAlwaysFindsItsLog == Spec => []RestartFindsItsLog
<1>1. AInv => RestartFindsItsLog
  BY Zenon DEF AInv
<1> QED BY <1>1, AInvAlways, PTL

\* The ha_copy_log_max_archives newest archives are never deleted.
THEOREM NewestAlwaysKept == Spec => []NewestArchivesKept
<1>1. AInv => NewestArchivesKept
  BY Zenon DEF AInv
<1> QED BY <1>1, AInvAlways, PTL

\* The binary search of la_find_archive_num ends at the archive with the page,
\* whatever the sizes of the archives and the first guess.
THEOREM AlwaysFindsTheArchive == Spec => []FindsTheArchive
  BY FindsIt, AInvAlways, PTL

=============================================================================
