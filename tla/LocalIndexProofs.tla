-------------------------- MODULE LocalIndexProofs --------------------------
(***************************************************************************)
(* Proofs about LocalIndex for every set of processes and events and every *)
(* number of loads and crashes: comparing counts is enough for a cached    *)
(* index, and a rebuild that fails keeps the query cache.                  *)
(***************************************************************************)
EXTENDS LocalIndex, FiniteSetTheorems, TLAPS

\* A subset of a finite set that has as many members is the set.
LEMMA SameSize ==
    ASSUME NEW T, IsFiniteSet(T), NEW S \in SUBSET T, Cardinality(S) = Cardinality(T)
    PROVE  S = T
<1>1. CASE S # T
  BY <1>1, FS_Subset
<1> QED
  BY <1>1

-----------------------------------------------------------------------------
(* Loads. *)

Step(p) ==
    \/ ReadIndex(p) \/ CompareCount(p) \/ ReadRows(p)
    \/ TruncateIndex(p) \/ FillIndex(p)
    \/ ResetViews(p) \/ MakeViews(p) \/ WriteReadme(p) \/ WriteEntries(p)
    \/ SqlReadRows(p) \/ PrepareSchema(p) \/ SqlTransaction(p)
    \/ Crash(p)

Labels == {"idle", "count", "events", "schema", "commit"} \cup Writing

\* Rows are never replaced, so a copy of the index in memory is of stored events.
LoadTypes ==
    /\ pc \in [Processes -> Labels]
    /\ snap \in [Processes -> SUBSET rows]
    /\ before \in [Processes -> SUBSET rows]
    /\ answer \in [Processes -> (SUBSET rows) \cup {None}]

\* An index on disk, whole or torn, is of stored events.
CacheStored == cache # None => cache.of \subseteq rows

\* What p has built and is writing, and what its last load returned.
OwnLoad(p) ==
    /\ pc[p] \in Writing => before[p] \subseteq snap[p]
    /\ answer[p] # None => before[p] \subseteq answer[p] /\ answer[p] \subseteq rows

LoadInv ==
    /\ IsFiniteSet(rows)
    /\ LoadTypes
    /\ CacheStored
    /\ \A p \in Processes : OwnLoad(p)

\* A step of p leaves the registers of every other process alone.
Others(p) ==
    \A q \in Processes \ {p} :
        /\ pc'[q] = pc[q] /\ snap'[q] = snap[q]
        /\ before'[q] = before[q] /\ answer'[q] = answer[q]

LEMMA LoadInit == Init => LoadInv
<1> SUFFICES ASSUME Init PROVE LoadInv
  OBVIOUS
<1>1. IsFiniteSet(rows)
  BY FS_EmptySet DEF Init
<1>2. LoadTypes
  <2>1. pc \in [Processes -> Labels]
    BY DEF Init, Labels
  <2>2. {} \in SUBSET rows
    OBVIOUS
  <2> QED
    BY <2>1, <2>2 DEF Init, LoadTypes
<1>3. CacheStored
  BY DEF Init, CacheStored
<1>4. ASSUME NEW p \in Processes PROVE OwnLoad(p)
  BY DEF Init, OwnLoad, Writing
<1> QED
  BY <1>1, <1>2, <1>3, <1>4 DEF LoadInv

\* What a step of one process must establish: its own part.
LEMMA OwnStep ==
    ASSUME LoadInv, NEW p \in Processes, rows' = rows,
           LoadTypes', CacheStored', Others(p), OwnLoad(p)'
    PROVE  LoadInv'
<1>1. IsFiniteSet(rows')
  BY DEF LoadInv
<1>2. ASSUME NEW q \in Processes PROVE OwnLoad(q)'
  <2>1. CASE q = p
    BY <2>1
  <2>2. CASE q # p
    BY <2>2 DEF LoadInv, OwnLoad, Others
  <2> QED
    BY <2>1, <2>2
<1> QED
  BY <1>1, <1>2 DEF LoadInv

LEMMA LoadStep == LoadInv /\ [Next]_vars => LoadInv'
<1> SUFFICES ASSUME LoadInv, [Next]_vars PROVE LoadInv'
  OBVIOUS
<1>1. ASSUME NEW e \in Pool, AppendEvent(e) PROVE LoadInv'
  <2>1. IsFiniteSet(rows')
    BY <1>1, FS_AddElement DEF AppendEvent, LoadInv
  <2>2. /\ rows \subseteq rows'
        /\ UNCHANGED <<cache, pc, snap, before, answer>>
    BY <1>1 DEF AppendEvent, fileVars
  <2>3. LoadTypes'
    BY <2>2 DEF LoadInv, LoadTypes
  <2>4. CacheStored'
    BY <2>2 DEF LoadInv, CacheStored
  <2>5. ASSUME NEW q \in Processes PROVE OwnLoad(q)'
    BY <2>2 DEF LoadInv, OwnLoad
  <2> QED
    BY <2>1, <2>3, <2>4, <2>5 DEF LoadInv
<1>2. ASSUME NEW p \in Processes, Step(p) PROVE LoadInv'
  <2> USE DEF Goto
  <2>1. /\ snap[p] \subseteq rows /\ before[p] \subseteq rows
        /\ LoadTypes /\ CacheStored /\ OwnLoad(p) /\ IsFiniteSet(rows)
    BY DEF LoadInv, LoadTypes
  <2>2. ASSUME ReadIndex(p) PROVE LoadInv'
    <3>1. rows' = rows /\ cache' = cache
      BY <2>2 DEF ReadIndex, fileVars
    <3>2. LoadTypes' /\ Others(p)
      <4>1. pc' \in [Processes -> Labels] /\ \A q \in Processes \ {p} : pc'[q] = pc[q]
        BY <2>1, <2>2, <3>1 DEF ReadIndex, LoadTypes, Labels, Writing
      <4>2. /\ snap' \in [Processes -> SUBSET rows]
            /\ \A q \in Processes \ {p} : snap'[q] = snap[q]
        BY <2>1, <2>2, <3>1 DEF ReadIndex, CacheStored, LoadTypes
      <4>3. /\ before' \in [Processes -> SUBSET rows]
            /\ \A q \in Processes \ {p} : before'[q] = before[q]
        BY <2>1, <2>2, <3>1 DEF ReadIndex, LoadTypes
      <4>4. /\ answer' \in [Processes -> (SUBSET rows) \cup {None}]
            /\ \A q \in Processes \ {p} : answer'[q] = answer[q]
        BY <2>1, <2>2, <3>1 DEF ReadIndex, LoadTypes
      <4> QED
        BY <3>1, <4>1, <4>2, <4>3, <4>4 DEF LoadTypes, Others
    <3>3. pc'[p] \notin Writing /\ answer'[p] = None
      BY <2>1, <2>2 DEF ReadIndex, LoadTypes, Writing
    <3> QED
      BY <2>1, <3>1, <3>2, <3>3, OwnStep DEF OwnLoad, CacheStored
  <2>3. ASSUME CompareCount(p) PROVE LoadInv'
    <3>1. rows' = rows /\ cache' = cache /\ before' = before /\ snap' = snap
      BY <2>3 DEF CompareCount, fileVars
    <3>2. LoadTypes' /\ Others(p)
      <4>1. pc' \in [Processes -> Labels] /\ \A q \in Processes \ {p} : pc'[q] = pc[q]
        BY <2>1, <2>3, <3>1 DEF CompareCount, LoadTypes, Labels, Writing
      <4>2. /\ snap' \in [Processes -> SUBSET rows]
            /\ \A q \in Processes \ {p} : snap'[q] = snap[q]
        BY <2>1, <2>3, <3>1 DEF CompareCount, LoadTypes
      <4>3. /\ before' \in [Processes -> SUBSET rows]
            /\ \A q \in Processes \ {p} : before'[q] = before[q]
        BY <2>1, <2>3, <3>1 DEF CompareCount, LoadTypes
      <4>4. /\ answer' \in [Processes -> (SUBSET rows) \cup {None}]
            /\ \A q \in Processes \ {p} : answer'[q] = answer[q]
        BY <2>1, <2>3, <3>1 DEF CompareCount, LoadTypes
      <4> QED
        BY <3>1, <4>1, <4>2, <4>3, <4>4 DEF LoadTypes, Others
    <3>3. pc'[p] \notin Writing
      BY <2>1, <2>3 DEF CompareCount, LoadTypes, Writing
    <3>4. CASE answer' = answer
      BY <2>1, <3>1, <3>2, <3>3, <3>4, OwnStep DEF OwnLoad, CacheStored
    <3>5. CASE ~Stale(snap[p]) /\ answer' = [answer EXCEPT ![p] = snap[p]]
      <4>1. snap[p] = rows
        BY <2>1, <3>5, SameSize DEF Stale
      <4>2. answer'[p] = rows
        BY <2>1, <3>5, <4>1 DEF LoadTypes
      <4> QED
        BY <2>1, <3>1, <3>2, <3>3, <4>2, OwnStep DEF OwnLoad, CacheStored
    <3> QED
      BY <2>3, <3>4, <3>5 DEF CompareCount
  <2>4. ASSUME ReadRows(p) PROVE LoadInv'
    <3>1. /\ rows' = rows /\ cache' = cache /\ before' = before /\ answer' = answer
          /\ snap' = [snap EXCEPT ![p] = rows]
      BY <2>4 DEF ReadRows, fileVars
    <3>2. LoadTypes' /\ Others(p)
      <4>1. pc' \in [Processes -> Labels] /\ \A q \in Processes \ {p} : pc'[q] = pc[q]
        BY <2>1, <2>4, <3>1 DEF ReadRows, LoadTypes, Labels, Writing
      <4>2. /\ snap' \in [Processes -> SUBSET rows]
            /\ \A q \in Processes \ {p} : snap'[q] = snap[q]
        BY <2>1, <2>4, <3>1 DEF ReadRows, LoadTypes
      <4>3. /\ before' \in [Processes -> SUBSET rows]
            /\ \A q \in Processes \ {p} : before'[q] = before[q]
        BY <2>1, <2>4, <3>1 DEF ReadRows, LoadTypes
      <4>4. /\ answer' \in [Processes -> (SUBSET rows) \cup {None}]
            /\ \A q \in Processes \ {p} : answer'[q] = answer[q]
        BY <2>1, <2>4, <3>1 DEF ReadRows, LoadTypes
      <4> QED
        BY <3>1, <4>1, <4>2, <4>3, <4>4 DEF LoadTypes, Others
    <3>3. snap'[p] = rows
      BY <2>1, <3>1 DEF LoadTypes
    <3> QED
      BY <2>1, <3>1, <3>2, <3>3, OwnStep DEF OwnLoad, CacheStored
  <2>5. ASSUME TruncateIndex(p) PROVE LoadInv'
    <3>1. /\ UNCHANGED <<rows, snap, before, answer>>
          /\ cache'.of = {} /\ pc[p] \in Writing
      BY <2>5 DEF TruncateIndex, Writing
    <3>2. LoadTypes' /\ Others(p)
      <4>1. pc' \in [Processes -> Labels] /\ \A q \in Processes \ {p} : pc'[q] = pc[q]
        BY <2>1, <2>5, <3>1 DEF TruncateIndex, LoadTypes, Labels, Writing
      <4>2. /\ snap' \in [Processes -> SUBSET rows]
            /\ \A q \in Processes \ {p} : snap'[q] = snap[q]
        BY <2>1, <2>5, <3>1 DEF TruncateIndex, LoadTypes
      <4>3. /\ before' \in [Processes -> SUBSET rows]
            /\ \A q \in Processes \ {p} : before'[q] = before[q]
        BY <2>1, <2>5, <3>1 DEF TruncateIndex, LoadTypes
      <4>4. /\ answer' \in [Processes -> (SUBSET rows) \cup {None}]
            /\ \A q \in Processes \ {p} : answer'[q] = answer[q]
        BY <2>1, <2>5, <3>1 DEF TruncateIndex, LoadTypes
      <4> QED
        BY <3>1, <4>1, <4>2, <4>3, <4>4 DEF LoadTypes, Others
    <3> QED
      BY <2>1, <3>1, <3>2, OwnStep DEF OwnLoad, CacheStored
  <2>6. ASSUME FillIndex(p) PROVE LoadInv'
    <3>1. /\ UNCHANGED <<rows, snap, before, answer>>
          /\ cache'.of = snap[p] /\ pc[p] \in Writing
      <4>1. PICK w \in BOOLEAN : cache' = [of |-> snap[p], whole |-> w]
        BY <2>6 DEF FillIndex
      <4> QED
        BY <2>6, <4>1 DEF FillIndex, Writing
    <3>2. LoadTypes' /\ Others(p)
      <4>1. pc' \in [Processes -> Labels] /\ \A q \in Processes \ {p} : pc'[q] = pc[q]
        BY <2>1, <2>6, <3>1 DEF FillIndex, LoadTypes, Labels, Writing
      <4>2. /\ snap' \in [Processes -> SUBSET rows]
            /\ \A q \in Processes \ {p} : snap'[q] = snap[q]
        BY <2>1, <2>6, <3>1 DEF FillIndex, LoadTypes
      <4>3. /\ before' \in [Processes -> SUBSET rows]
            /\ \A q \in Processes \ {p} : before'[q] = before[q]
        BY <2>1, <2>6, <3>1 DEF FillIndex, LoadTypes
      <4>4. /\ answer' \in [Processes -> (SUBSET rows) \cup {None}]
            /\ \A q \in Processes \ {p} : answer'[q] = answer[q]
        BY <2>1, <2>6, <3>1 DEF FillIndex, LoadTypes
      <4> QED
        BY <3>1, <4>1, <4>2, <4>3, <4>4 DEF LoadTypes, Others
    <3> QED
      BY <2>1, <3>1, <3>2, OwnStep DEF OwnLoad, CacheStored
  <2>7. ASSUME ResetViews(p) \/ MakeViews(p) \/ WriteReadme(p) PROVE LoadInv'
    <3>1. UNCHANGED <<rows, cache, snap, before, answer>> /\ pc[p] \in Writing
      BY <2>7 DEF ResetViews, MakeViews, WriteReadme, Writing
    <3>2. LoadTypes' /\ Others(p)
      <4>1. pc' \in [Processes -> Labels] /\ \A q \in Processes \ {p} : pc'[q] = pc[q]
        BY <2>1, <2>7, <3>1 DEF ResetViews, MakeViews, WriteReadme, Fail, LoadTypes, Labels, Writing
      <4>2. /\ snap' \in [Processes -> SUBSET rows]
            /\ \A q \in Processes \ {p} : snap'[q] = snap[q]
        BY <2>1, <2>7, <3>1 DEF ResetViews, MakeViews, WriteReadme, Fail, LoadTypes
      <4>3. /\ before' \in [Processes -> SUBSET rows]
            /\ \A q \in Processes \ {p} : before'[q] = before[q]
        BY <2>1, <2>7, <3>1 DEF ResetViews, MakeViews, WriteReadme, Fail, LoadTypes
      <4>4. /\ answer' \in [Processes -> (SUBSET rows) \cup {None}]
            /\ \A q \in Processes \ {p} : answer'[q] = answer[q]
        BY <2>1, <2>7, <3>1 DEF ResetViews, MakeViews, WriteReadme, Fail, LoadTypes
      <4> QED
        BY <3>1, <4>1, <4>2, <4>3, <4>4 DEF LoadTypes, Others
    <3> QED
      BY <2>1, <3>1, <3>2, OwnStep DEF OwnLoad, CacheStored
  <2>8. ASSUME WriteEntries(p) PROVE LoadInv'
    <3>1. UNCHANGED <<rows, cache, snap, before>> /\ pc[p] \in Writing
      BY <2>8 DEF WriteEntries, Writing
    <3>2. answer' = answer \/ answer' = [answer EXCEPT ![p] = snap[p]]
      BY <2>8 DEF WriteEntries
    <3>3. LoadTypes' /\ Others(p)
      <4>1. pc' \in [Processes -> Labels] /\ \A q \in Processes \ {p} : pc'[q] = pc[q]
        BY <2>1, <2>8, <3>1, <3>2 DEF WriteEntries, Fail, LoadTypes, Labels, Writing
      <4>2. /\ snap' \in [Processes -> SUBSET rows]
            /\ \A q \in Processes \ {p} : snap'[q] = snap[q]
        BY <2>1, <2>8, <3>1, <3>2 DEF WriteEntries, Fail, LoadTypes
      <4>3. /\ before' \in [Processes -> SUBSET rows]
            /\ \A q \in Processes \ {p} : before'[q] = before[q]
        BY <2>1, <2>8, <3>1, <3>2 DEF WriteEntries, Fail, LoadTypes
      <4>4. /\ answer' \in [Processes -> (SUBSET rows) \cup {None}]
            /\ \A q \in Processes \ {p} : answer'[q] = answer[q]
        BY <2>1, <2>8, <3>1, <3>2 DEF WriteEntries, Fail, LoadTypes
      <4> QED
        BY <3>1, <4>1, <4>2, <4>3, <4>4 DEF LoadTypes, Others
    <3>4. answer'[p] = answer[p] \/ answer'[p] = snap[p]
      BY <2>1, <3>2 DEF LoadTypes
    <3> QED
      BY <2>1, <3>1, <3>3, <3>4, OwnStep DEF OwnLoad, CacheStored
  <2>9. ASSUME SqlReadRows(p) PROVE LoadInv'
    <3>1. rows' = rows /\ cache' = cache
      BY <2>9 DEF SqlReadRows, fileVars
    <3>2. LoadTypes' /\ Others(p)
      <4>1. pc' \in [Processes -> Labels] /\ \A q \in Processes \ {p} : pc'[q] = pc[q]
        BY <2>1, <2>9, <3>1 DEF SqlReadRows, LoadTypes, Labels, Writing
      <4>2. /\ snap' \in [Processes -> SUBSET rows]
            /\ \A q \in Processes \ {p} : snap'[q] = snap[q]
        BY <2>1, <2>9, <3>1 DEF SqlReadRows, LoadTypes
      <4>3. /\ before' \in [Processes -> SUBSET rows]
            /\ \A q \in Processes \ {p} : before'[q] = before[q]
        BY <2>1, <2>9, <3>1 DEF SqlReadRows, LoadTypes
      <4>4. /\ answer' \in [Processes -> (SUBSET rows) \cup {None}]
            /\ \A q \in Processes \ {p} : answer'[q] = answer[q]
        BY <2>1, <2>9, <3>1 DEF SqlReadRows, LoadTypes
      <4> QED
        BY <3>1, <4>1, <4>2, <4>3, <4>4 DEF LoadTypes, Others
    <3>3. pc'[p] \notin Writing /\ answer'[p] = None
      BY <2>1, <2>9 DEF SqlReadRows, LoadTypes, Writing
    <3> QED
      BY <2>1, <3>1, <3>2, <3>3, OwnStep DEF OwnLoad, CacheStored
  <2>10. ASSUME PrepareSchema(p) \/ SqlTransaction(p) \/ Crash(p) PROVE LoadInv'
    <3>1. UNCHANGED <<rows, cache, snap, before, answer>>
      BY <2>10 DEF PrepareSchema, SqlTransaction, Crash, fileVars
    <3>2. LoadTypes' /\ Others(p)
      <4>1. pc' \in [Processes -> Labels] /\ \A q \in Processes \ {p} : pc'[q] = pc[q]
        BY <2>1, <2>10, <3>1
        DEF PrepareSchema, SqlTransaction, Crash, Fail, LoadTypes, Labels, Writing
      <4>2. /\ snap' \in [Processes -> SUBSET rows]
            /\ \A q \in Processes \ {p} : snap'[q] = snap[q]
        BY <2>1, <2>10, <3>1 DEF PrepareSchema, SqlTransaction, Crash, Fail, LoadTypes
      <4>3. /\ before' \in [Processes -> SUBSET rows]
            /\ \A q \in Processes \ {p} : before'[q] = before[q]
        BY <2>1, <2>10, <3>1 DEF PrepareSchema, SqlTransaction, Crash, Fail, LoadTypes
      <4>4. /\ answer' \in [Processes -> (SUBSET rows) \cup {None}]
            /\ \A q \in Processes \ {p} : answer'[q] = answer[q]
        BY <2>1, <2>10, <3>1 DEF PrepareSchema, SqlTransaction, Crash, Fail, LoadTypes
      <4> QED
        BY <3>1, <4>1, <4>2, <4>3, <4>4 DEF LoadTypes, Others
    <3>3. pc'[p] \notin Writing
      BY <2>1, <2>10 DEF PrepareSchema, SqlTransaction, Crash, Fail, LoadTypes, Writing
    <3> QED
      BY <2>1, <3>1, <3>2, <3>3, OwnStep DEF OwnLoad, CacheStored
  <2> QED
    BY <1>2, <2>2, <2>3, <2>4, <2>5, <2>6, <2>7, <2>8, <2>9, <2>10 DEF Step
<1>3. CASE UNCHANGED vars
  BY <1>3 DEF vars, LoadInv, LoadTypes, CacheStored, OwnLoad
<1> QED
  BY <1>1, <1>2, <1>3 DEF Next, Step

\* load_or_rebuild_index compares counts only, and what it returns holds every
\* event stored before the load began and nothing that was not stored.
THEOREM CountsSuffice == Spec => []LoadSeesStored
<1>1. LoadInv => LoadSeesStored
  BY DEF LoadInv, OwnLoad, LoadSeesStored
<1> QED
  BY <1>1, LoadInit, LoadStep, PTL DEF Spec

-----------------------------------------------------------------------------
(* The query cache. *)

\* rebuild_sqlite_index resets a schema of another version only, and replaces
\* the rows in one transaction: filled once, the query cache is never left empty.
THEOREM QueryCacheStays == Spec => QueryCacheKept
<1>1. [Next]_vars => [sql # None /\ sql.version = "current" => sql'.version = "current"]_vars
  <2> SUFFICES ASSUME [Next]_vars, sql # None, sql.version = "current"
               PROVE  sql'.version = "current"
    OBVIOUS
  <2>1. ASSUME NEW e \in Pool, AppendEvent(e) PROVE sql' = sql
    BY <2>1 DEF AppendEvent, fileVars
  <2>2. ASSUME NEW p \in Processes, Step(p)
        PROVE  sql' = sql \/ sql'.version = "current"
    <3>1. CASE PrepareSchema(p)
      BY <3>1 DEF PrepareSchema
    <3>2. CASE SqlTransaction(p)
      BY <3>2 DEF SqlTransaction
    <3>3. CASE ReadIndex(p) \/ CompareCount(p) \/ ReadRows(p) \/ SqlReadRows(p) \/ Crash(p)
      BY <3>3 DEF ReadIndex, CompareCount, ReadRows, SqlReadRows, Crash, fileVars
    <3>4. CASE TruncateIndex(p) \/ FillIndex(p) \/ ResetViews(p) \/ MakeViews(p)
               \/ WriteReadme(p) \/ WriteEntries(p)
      BY <3>4 DEF TruncateIndex, FillIndex, ResetViews, MakeViews, WriteReadme, WriteEntries
    <3> QED
      BY <2>2, <3>1, <3>2, <3>3, <3>4 DEF Step
  <2>3. CASE UNCHANGED vars
    BY <2>3 DEF vars
  <2> QED
    BY <2>1, <2>2, <2>3 DEF Next, Step
<1> QED
  BY <1>1, PTL DEF Spec, QueryCacheKept

-----------------------------------------------------------------------------
(* The views. *)

\* A rebuild that has begun to write.
Busy(p) == pc[p] \in Writing \ {"truncate"}

\* The pages of an index.
Pages(s) == [n \in Build(s).nodes |-> s]

\* How far the rebuild of p has come, when no other disturbs it.
Progress(p) ==
    /\ pc[p] = "fill" => cache = [of |-> {}, whole |-> FALSE]
    /\ pc[p] \in {"reset", "make", "readme", "entries"} =>
          cache = [of |-> snap[p], whole |-> TRUE]
    /\ pc[p] = "make" => views = None
    /\ pc[p] = "readme" => views = [readme |-> None, entries |-> <<>>]
    /\ pc[p] = "entries" => views = [readme |-> snap[p], entries |-> <<>>]

ViewsOfIndex ==
    cache # None => \E s \in SUBSET rows :
        /\ cache = [of |-> s, whole |-> TRUE]
        /\ views = [readme |-> s, entries |-> Pages(s)]

\* Until rebuilds overlap or one is cut short, one at most writes, and the views
\* are out of step only while it does.
ViewsInv ==
    /\ rows \subseteq Pool
    /\ ~mixed =>
        /\ \A p, q \in Processes : Busy(p) /\ Busy(q) => p = q
        /\ \A p \in Processes : Progress(p)
        /\ (\A p \in Processes : ~Busy(p)) => ViewsOfIndex

\* None is none of the files a rebuild writes.
LEMMA NoneApart ==
    ASSUME ViewsInv, NEW s \in SUBSET rows
    PROVE  /\ \A w \in BOOLEAN : None # [of |-> s, whole |-> w]
           /\ \A r \in {None, s} : /\ None # [readme |-> r, entries |-> <<>>]
                                   /\ None # [readme |-> r, entries |-> Pages(s)]
<1>1. s \in SUBSET Pool
  BY DEF ViewsInv
<1>2. /\ None \notin [of : {s}, whole : BOOLEAN]
      /\ None \notin [readme : {None, s}, entries : {<<>>, Pages(s)}]
  BY <1>1, NoneAssumption, Zenon DEF Pages
<1> QED
  BY <1>2

LEMMA ViewsInit == Init => ViewsInv
<1> SUFFICES ASSUME Init PROVE ViewsInv
  OBVIOUS
<1>1. \A p \in Processes : pc[p] = "idle"
  BY DEF Init
<1> QED
  BY <1>1 DEF Init, ViewsInv, Busy, Writing, Progress, ViewsOfIndex

\* A step that leaves the files alone and no process newly writing.
LEMMA ViewsFrame ==
    ASSUME LoadInv, ViewsInv, ~mixed, UNCHANGED <<cache, views>>,
           rows \subseteq rows', rows' \subseteq Pool,
           \A p \in Processes : Busy(p)' <=> Busy(p),
           \A p \in Processes : Busy(p)' => pc'[p] = pc[p] /\ snap'[p] = snap[p]
    PROVE  ViewsInv'
<1>1. \A p \in Processes : Progress(p)'
  BY DEF ViewsInv, Progress, Busy, Writing
<1>2. ViewsOfIndex => ViewsOfIndex'
  BY DEF ViewsOfIndex, Pages
<1> QED
  BY <1>1, <1>2 DEF ViewsInv

\* A step of the one process that writes: the others have not begun.
LEMMA ViewsMove ==
    ASSUME LoadInv, ViewsInv, ~mixed, rows' = rows, NEW p \in Processes,
           \A q \in Processes \ {p} : ~Busy(q) /\ pc'[q] = pc[q],
           Progress(p)', ~Busy(p)' => ViewsOfIndex'
    PROVE  ViewsInv'
<1>1. \A q \in Processes \ {p} : ~Busy(q)' /\ Progress(q)'
  BY DEF Busy, Progress, Writing
<1> QED
  BY <1>1 DEF ViewsInv

LEMMA ViewsStep == LoadInv /\ ViewsInv /\ [Next]_vars => ViewsInv'
<1> SUFFICES ASSUME LoadInv, ViewsInv, [Next]_vars PROVE ViewsInv'
  OBVIOUS
<1>a. /\ pc \in [Processes -> Labels] /\ snap \in [Processes -> SUBSET rows]
      /\ rows \subseteq Pool
  BY DEF LoadInv, LoadTypes, ViewsInv
<1>1. ASSUME NEW e \in Pool, AppendEvent(e) PROVE ViewsInv'
  <2>1. /\ rows \subseteq rows' /\ rows' \subseteq Pool
        /\ UNCHANGED <<cache, views, pc, snap, mixed>>
    BY <1>1, <1>a DEF AppendEvent, fileVars
  <2>2. CASE mixed
    BY <2>1, <2>2 DEF ViewsInv
  <2>3. CASE ~mixed
    BY <2>1, <2>3, ViewsFrame DEF Busy
  <2> QED
    BY <2>2, <2>3
<1>2. ASSUME NEW p \in Processes, Step(p) PROVE rows' = rows
  BY <1>2 DEF Step, ReadIndex, CompareCount, ReadRows, TruncateIndex, FillIndex, ResetViews, MakeViews,
              WriteReadme, WriteEntries, SqlReadRows, PrepareSchema, SqlTransaction, Crash
<1>m. ASSUME NEW p \in Processes, Step(p) PROVE mixed => mixed'
  <2>1. mixed' = mixed \/ (mixed => mixed')
    <3>1. CASE ReadIndex(p) \/ CompareCount(p) \/ ReadRows(p) \/ FillIndex(p) \/ MakeViews(p)
               \/ SqlReadRows(p) \/ PrepareSchema(p) \/ SqlTransaction(p)
      BY <3>1 DEF ReadIndex, CompareCount, ReadRows, FillIndex, MakeViews, SqlReadRows,
                  PrepareSchema, SqlTransaction
    <3>2. CASE TruncateIndex(p) \/ ResetViews(p) \/ WriteReadme(p) \/ WriteEntries(p) \/ Crash(p)
      BY <3>2, Zenon DEF TruncateIndex, ResetViews, WriteReadme, WriteEntries, Crash, Fail
    <3> QED
      BY <1>m, <3>1, <3>2 DEF Step
  <2> QED
    BY <2>1
<1>3. ASSUME NEW p \in Processes, Step(p), mixed' PROVE ViewsInv'
  BY <1>2, <1>3, <1>a DEF ViewsInv
<1>4. ASSUME NEW p \in Processes, Step(p), ~mixed',
             ReadIndex(p) \/ CompareCount(p) \/ ReadRows(p) \/ SqlReadRows(p)
             \/ PrepareSchema(p) \/ SqlTransaction(p) \/ Crash(p)
      PROVE  ViewsInv'
  <2>1. UNCHANGED <<cache, views>> /\ ~mixed
    <3>1. UNCHANGED <<cache, views>>
      BY <1>4 DEF ReadIndex, CompareCount, ReadRows, SqlReadRows, PrepareSchema, SqlTransaction,
                  Crash, fileVars
    <3> QED
      BY <1>m, <1>4, <3>1
  <2>2. ~Busy(p) /\ ~Busy(p)'
    BY <1>4, <1>a DEF ReadIndex, CompareCount, ReadRows, SqlReadRows, PrepareSchema, SqlTransaction,
                Crash, Fail, Goto, Busy, Writing
  <2>3. \A q \in Processes \ {p} : pc'[q] = pc[q] /\ snap'[q] = snap[q]
    BY <1>4, <1>a DEF ReadIndex, CompareCount, ReadRows, SqlReadRows, PrepareSchema, SqlTransaction,
                Crash, Fail, Goto
  <2>4. \A q \in Processes : Busy(q)' <=> Busy(q)
    BY <2>2, <2>3 DEF Busy
  <2> QED
    BY <1>2, <1>4, <1>a, <2>1, <2>2, <2>3, <2>4, ViewsFrame
<1>5. ASSUME NEW p \in Processes, Step(p), ~mixed', TruncateIndex(p) PROVE ViewsInv'
  <2>1. ~mixed /\ \A q \in Processes \ {p} : ~Busy(q) /\ pc'[q] = pc[q]
    BY <1>5, <1>a DEF TruncateIndex, Goto, Busy
  <2>2. pc'[p] = "fill" /\ cache' = [of |-> {}, whole |-> FALSE]
    BY <1>5, <1>a DEF TruncateIndex, Goto
  <2>3. Progress(p)' /\ Busy(p)'
    BY <2>2 DEF Progress, Busy, Writing
  <2> QED
    BY <1>2, <1>5, <2>1, <2>3, ViewsMove
\* The other steps are of a process that has begun, and so the only one.
<1>6. ASSUME NEW p \in Processes, Step(p), ~mixed',
             FillIndex(p) \/ ResetViews(p) \/ MakeViews(p) \/ WriteReadme(p) \/ WriteEntries(p)
      PROVE  ViewsInv'
  <2>1. Busy(p) /\ ~mixed /\ snap' = snap /\ rows' = rows
    <3>1. Busy(p) /\ snap' = snap
      BY <1>6 DEF FillIndex, ResetViews, MakeViews, WriteReadme, WriteEntries, Busy, Writing
    <3> QED
      BY <1>2, <1>m, <1>6, <3>1
  <2>2. \A q \in Processes \ {p} : ~Busy(q) /\ pc'[q] = pc[q]
    <3>1. \A q \in Processes \ {p} : ~Busy(q)
      BY <2>1 DEF ViewsInv
    <3>2. \A q \in Processes \ {p} : pc'[q] = pc[q]
      BY <1>6, <1>a DEF FillIndex, ResetViews, MakeViews, WriteReadme, WriteEntries, Fail, Goto
    <3> QED
      BY <3>1, <3>2
  <2>3. Progress(p)
    BY <2>1 DEF ViewsInv
  <2>4. CASE FillIndex(p)
    <3>1. pc[p] = "fill" /\ pc'[p] = "reset" /\ ~cache.whole
      BY <2>3, <2>4, <1>a DEF FillIndex, Goto, Progress
    <3>2. cache' = [of |-> snap[p], whole |-> TRUE]
      BY <2>4, <3>1 DEF FillIndex
    <3>3. Progress(p)' /\ Busy(p)'
      BY <2>1, <3>1, <3>2 DEF Progress, Busy, Writing
    <3> QED
      BY <2>1, <2>2, <3>3, ViewsMove
  <2>5. CASE ResetViews(p)
    <3>1. \A q \in Processes \ {p} : pc[q] \notin {"make", "readme", "entries"}
      BY <2>2 DEF Busy, Writing
    <3>2. pc[p] = "reset" /\ pc'[p] = "make" /\ views' = None /\ cache' = cache
      BY <2>5, <3>1, <1>a DEF ResetViews, Goto
    <3>3. Progress(p)' /\ Busy(p)'
      BY <2>1, <2>3, <3>2 DEF Progress, Busy, Writing
    <3> QED
      BY <2>1, <2>2, <3>3, ViewsMove
  <2>6. CASE MakeViews(p)
    <3>1. /\ pc[p] = "make" /\ pc'[p] = "readme" /\ cache' = cache
          /\ views' = [readme |-> None, entries |-> <<>>]
      BY <2>3, <2>6, <1>a DEF MakeViews, Goto, Progress
    <3>2. Progress(p)' /\ Busy(p)'
      BY <2>1, <2>3, <3>1 DEF Progress, Busy, Writing
    <3> QED
      BY <2>1, <2>2, <3>2, ViewsMove
  <2>7. CASE WriteReadme(p)
    <3>1. views = [readme |-> None, entries |-> <<>>] /\ views # None
      BY <2>3, <2>7, <1>a, NoneApart DEF WriteReadme, Progress
    <3>2. /\ pc[p] = "readme" /\ pc'[p] = "entries" /\ cache' = cache
          /\ views' = [readme |-> snap[p], entries |-> <<>>]
      BY <2>7, <3>1, <1>a DEF WriteReadme, Goto
    <3>3. Progress(p)' /\ Busy(p)'
      BY <2>1, <2>3, <3>2 DEF Progress, Busy, Writing
    <3> QED
      BY <2>1, <2>2, <3>3, ViewsMove
  <2>8. CASE WriteEntries(p)
    <3>1. /\ views = [readme |-> snap[p], entries |-> <<>>] /\ views # None
          /\ cache = [of |-> snap[p], whole |-> TRUE] /\ pc[p] = "entries"
      BY <2>3, <2>8, <1>a, NoneApart DEF WriteEntries, Progress
    <3>2. Entries(p) = Pages(snap[p])
      BY <3>1 DEF Entries, Pages
    <3>3. /\ pc'[p] = "idle" /\ cache' = cache
          /\ views' = [readme |-> snap[p], entries |-> Pages(snap[p])]
      BY <2>8, <3>1, <3>2, <1>a DEF WriteEntries, Goto
    <3>4. \E s \in SUBSET rows : /\ cache' = [of |-> s, whole |-> TRUE]
                                 /\ views' = [readme |-> s, entries |-> Pages(s)]
      BY <1>a, <3>1, <3>3
    <3>5. ViewsOfIndex'
      BY <2>1, <3>4 DEF ViewsOfIndex, Pages
    <3>6. Progress(p)'
      BY <3>3 DEF Progress
    <3> QED
      BY <2>1, <2>2, <3>5, <3>6, ViewsMove
  <2> QED
    BY <1>6, <2>4, <2>5, <2>6, <2>7, <2>8
<1>7. CASE UNCHANGED vars
  BY <1>7 DEF vars, ViewsInv, Progress, ViewsOfIndex, Pages, Busy
<1> QED
  BY <1>1, <1>3, <1>4, <1>5, <1>6, <1>7 DEF Next, Step

\* While no rebuild overlaps another or is cut short, a store at rest has an index
\* that parses and one page for each of its entries, of that index.
THEOREM ViewsInStep == Spec => []ViewsMatchIndex
<1>1. ViewsInv => ViewsMatchIndex
  <2> SUFFICES ASSUME ViewsInv, Quiet, ~mixed, cache # None
               PROVE  /\ cache.whole /\ views # None /\ views.readme = cache.of
                      /\ views.entries = Pages(cache.of)
    BY DEF ViewsMatchIndex, Pages
  <2>1. ViewsOfIndex
    BY DEF ViewsInv, Quiet, Busy
  <2>2. PICK s \in SUBSET rows : /\ cache = [of |-> s, whole |-> TRUE]
                                 /\ views = [readme |-> s, entries |-> Pages(s)]
    BY <2>1 DEF ViewsOfIndex
  <2> QED
    BY <2>2, NoneApart
<1> QED
  BY <1>1, LoadInit, LoadStep, ViewsInit, ViewsStep, PTL DEF Spec
=============================================================================
