------------------------- MODULE SourceRefreshProofs -------------------------
(***************************************************************************)
(* Proofs about SourceRefresh for every set of processes, builds, sources  *)
(* and sessions: where a refresh is and what it has listed, that the       *)
(* stored chunks match their rows when refreshes neither overlap nor stop  *)
(* halfway, and that the watermark covers only what is indexed when agents *)
(* write between refreshes.                                                *)
(***************************************************************************)
EXTENDS SourceRefresh, FiniteSetTheorems, WellFoundedInduction, TLAPS

-----------------------------------------------------------------------------
(* Operators. *)

\* A nonempty set of naturals has a least element.
LEMMA LeastElement ==
    ASSUME NEW S \in SUBSET Nat, S # {}
    PROVE  \E x \in S : \A y \in S : x <= y
<1> DEFINE Less == {ss \in Nat \X Nat : ss[1] < ss[2]}
<1>1. Less = OpToRel(<, Nat)
  BY Zenon DEF OpToRel
<1>2. IsWellFoundedOn(Less, Nat)
  BY <1>1, NatLessThanWellFounded, Zenon
<1> HIDE DEF Less
<1>3. PICK x \in S : \A y \in S : ~ (<<y, x>> \in Less)
  BY <1>2, WFMin, Zenon
<1>4. ASSUME NEW y \in S PROVE x <= y
  <2>1. y < x => <<y, x>> \in Less
    BY SMT DEF Less
  <2> QED
    BY <1>3, <2>1
<1> QED
  BY <1>4

\* The next due profile is one of those due.
LEMMA MinInSet ==
    ASSUME NEW S \in SUBSET Nat, S # {}
    PROVE  Min(S) \in S
BY LeastElement DEF Min

\* The larger of two numbers is one of them.
LEMMA MaxOfTwo ==
    ASSUME NEW a \in Nat, NEW b \in Nat
    PROVE  Max({a, b}) = IF a >= b THEN a ELSE b
<1>1. CASE a >= b
  <2>1. \A x \in {a, b} : (\A y \in {a, b} : x >= y) <=> x = a
    BY <1>1
  <2> QED
    BY <1>1, <2>1 DEF Max
<1>2. CASE ~ (a >= b)
  <2>1. \A x \in {a, b} : (\A y \in {a, b} : x >= y) <=> x = b
    BY <1>2
  <2> QED
    BY <1>2, <2>1 DEF Max
<1> QED
  BY <1>1, <1>2

\* A subset of a finite set that has as many members is the set.
LEMMA SameSize ==
    ASSUME NEW T, IsFiniteSet(T), NEW S \in SUBSET T, Cardinality(S) >= Cardinality(T)
    PROVE  S = T
<1>1. Cardinality(S) \in Nat /\ Cardinality(T) \in Nat /\ Cardinality(S) <= Cardinality(T)
  BY FS_Subset, FS_CardinalityType
<1>2. CASE S # T
  BY <1>1, <1>2, FS_Subset
<1> QED
  BY <1>2

-----------------------------------------------------------------------------
(* Types, and where a process is in its refresh. *)

Labels == {"idle", "profile", "parser", "walk", "next",
           "upsert", "stored", "format", "putChunks", "emit"}

\* A profile is being refreshed; its scan has begun; a session is at hand,
\* and has a row.
Scanning == Labels \ {"idle", "profile"}
Walking == Scanning \ {"parser"}
AtSession == {"upsert", "stored", "format", "putChunks", "emit"}
AtRow == AtSession \ {"upsert"}

Job == [due : SUBSET Sources, source : Sources \cup {None},
        since : (0 .. MaxTime) \cup {None}, ahead : SUBSET Sessions,
        listed : [Sessions -> 0 .. MaxTime], high : 0 .. MaxTime,
        session : Sessions \cup {None}, chunks : Version \cup {None}]

Typed ==
    /\ clock \in 0 .. MaxTime
    /\ mtime \in [Sessions -> 0 .. MaxTime]
    /\ row \in [Sessions -> Version \cup {None}]
    /\ chunks \in [Sessions -> Version \cup {None}]
    /\ watermark \in [Sources -> (0 .. MaxTime) \cup {None}]
    /\ repoOf \in [EventId -> Repos \cup {None}]
    /\ content \in [EventId -> Version \cup {None}]
    /\ faults \in 0 .. MaxFaults
    /\ pc \in [Procs -> Labels]
    /\ job \in [Procs -> Job]

\* What process p has listed exists, and what it is about to use it has.
Ready(p) ==
    /\ \A s \in Sessions : job[p].listed[s] <= mtime[s]
    /\ pc[p] \in Scanning => job[p].source \in Sources
    /\ pc[p] \in Walking => job[p].since \in 0 .. MaxTime
    /\ pc[p] \in AtSession =>
        job[p].session \in Sessions /\ job[p].listed[job[p].session] # 0
    /\ pc[p] \in AtRow => row[job[p].session] # None
    /\ pc[p] \in {"putChunks", "emit"} => job[p].chunks # None

RefreshInv ==
    /\ Typed
    /\ \A s \in Sessions : mtime[s] <= clock
    /\ \A p \in Procs : Ready(p)


\* What the types say of one process.
LEMMA JobType ==
    ASSUME Typed, NEW p \in Procs
    PROVE  /\ job[p] \in Job /\ pc[p] \in Labels
           /\ job[p].due \in SUBSET Nat
           /\ job[p].listed \in [Sessions -> 0 .. MaxTime]
           /\ Parser[p] \in Parsers /\ Repo[p] \in Repos
<1>1. job[p] \in Job /\ pc[p] \in Labels
  BY DEF Typed
<1>2. job[p].due \in SUBSET Nat /\ job[p].listed \in [Sessions -> 0 .. MaxTime]
  BY <1>1, SourcesAssumption DEF Job
<1>3. Parser[p] \in Parsers /\ Repo[p] \in Repos
  BY DEF Parsers, Repos
<1> QED
  BY <1>1, <1>2, <1>3

\* The newest listed session is listed.
LEMMA NewestListed ==
    ASSUME Typed, NEW p \in Procs, Listed(p) # {}
    PROVE  /\ Newest(p) \in Sessions /\ job[p].listed[Newest(p)] # 0
           /\ job[p].listed[Newest(p)] \in 1 .. MaxTime
<1> DEFINE T == {MaxTime - job[p].listed[s] : s \in Listed(p)}
<1>1. \A s \in Listed(p) : s \in Sessions /\ job[p].listed[s] \in 1 .. MaxTime
  BY JobType, BoundsAssumption DEF Listed
<1>2. T \in SUBSET Nat /\ T # {}
  BY <1>1, BoundsAssumption
<1>3. PICK x \in T : \A y \in T : x <= y
  BY <1>2, LeastElement
<1>4. PICK s \in Listed(p) : x = MaxTime - job[p].listed[s]
  OBVIOUS
<1>5. ASSUME NEW t \in Listed(p) PROVE job[p].listed[t] <= job[p].listed[s]
  <2>1. MaxTime - job[p].listed[t] \in T
    OBVIOUS
  <2>2. MaxTime - job[p].listed[s] <= MaxTime - job[p].listed[t]
    BY <1>3, <1>4, <2>1
  <2> HIDE DEF T
  <2> QED
    BY <1>1, <2>2, BoundsAssumption
<1>6. Newest(p) \in Listed(p)
  BY <1>5 DEF Newest
<1> QED
  BY <1>1, <1>6 DEF Listed

\* A process without a job is ready for anything.
LEMMA NoJobType == NoJob \in Job
BY BoundsAssumption DEF NoJob, Job

\* The initial state has the types.
LEMMA InitInv == Init => RefreshInv
<1> SUFFICES ASSUME Init PROVE RefreshInv
  OBVIOUS
<1>1. Typed
  BY NoJobType, BoundsAssumption DEF Init, Typed, Labels
<1>2. \A s \in Sessions : mtime[s] <= clock
  BY DEF Init
<1>3. ASSUME NEW p \in Procs PROVE Ready(p)
  BY DEF Init, Ready, NoJob, Scanning, Walking, AtSession, AtRow
<1> QED
  BY <1>1, <1>2, <1>3 DEF RefreshInv

\* Times move on, and rows are not removed.
LEMMA Monotone ==
    ASSUME RefreshInv, Next
    PROVE  /\ clock' \in 0 .. MaxTime /\ clock <= clock'
           /\ mtime' \in [Sessions -> 0 .. MaxTime]
           /\ \A s \in Sessions : mtime[s] <= mtime'[s] /\ mtime'[s] <= clock'
           /\ \A s \in Sessions : row[s] # None => row'[s] # None
<1> USE DEF RefreshInv, Typed
<1>1. ASSUME NEW s \in Sessions, Write(s)
      PROVE  /\ clock' \in 0 .. MaxTime /\ clock <= clock'
             /\ mtime' \in [Sessions -> 0 .. MaxTime]
             /\ \A t \in Sessions : mtime[t] <= mtime'[t] /\ mtime'[t] <= clock'
             /\ row' = row
  BY <1>1, BoundsAssumption DEF Write, metadataVars
<1>2. ASSUME NEW p \in Procs, Begin(p) \/ Step(p) \/ Fail(p)
      PROVE  UNCHANGED <<clock, mtime>>
  BY <1>2 DEF Begin, Step, Fail, BeginScan, CheckParser, Visit, EndWalk, NextSession,
              UpsertRow, UseStored, Format, PutChunks, Emit, FinishScan, Done, nativeVars
<1>3. ASSUME NEW p \in Procs, UpsertRow(p), NEW s \in Sessions, row[s] # None
      PROVE  row'[s] # None
  <2>1. Found(p, job[p].session) # None
    <3>1. job[p].session \in Sessions /\ job[p].listed[job[p].session] # 0
      BY <1>3 DEF UpsertRow, Ready, AtSession
    <3>2. Found(p, job[p].session) \in Version
      BY <3>1, JobType, BoundsAssumption DEF Found, Version
    <3> QED
      BY <3>2, NoneAssumption
  <2> QED
    BY <1>3, <2>1 DEF UpsertRow
<1>4. ASSUME NEW p \in Procs, Begin(p) \/ Step(p) \/ Fail(p), ~ UpsertRow(p)
      PROVE  row' = row
  BY <1>4 DEF Begin, Step, Fail, BeginScan, CheckParser, Visit, EndWalk, NextSession,
              UseStored, Format, PutChunks, Emit, FinishScan, Done, metadataVars
<1> QED
  BY <1>1, <1>2, <1>3, <1>4 DEF Next

\* A process's job may be replaced by any other.
LEMMA JobAfter ==
    ASSUME Typed, NEW p \in Procs, NEW j \in Job, job' = [job EXCEPT ![p] = j]
    PROVE  job' \in [Procs -> Job]
BY DEF Typed

\* A step of a refresh preserves the types.
LEMMA TypedStep ==
    ASSUME RefreshInv, Next
    PROVE  Typed'
<1> USE DEF RefreshInv
<1>1. ASSUME NEW s \in Sessions, Write(s) PROVE Typed'
  BY <1>1, Monotone DEF Write, Typed, metadataVars, eventVars
<1>2. ASSUME NEW p \in Procs, Begin(p) PROVE Typed'
  <2>1. PICK due \in SUBSET Sources : job' = [job EXCEPT ![p] = [NoJob EXCEPT !.due = due]]
    BY <1>2 DEF Begin
  <2>2. [NoJob EXCEPT !.due = due] \in Job
    BY NoJobType DEF Job
  <2> QED
    BY <1>2, <2>1, <2>2
       DEF Begin, Goto, Typed, Labels, nativeVars, metadataVars, eventVars
<1>3. ASSUME NEW p \in Procs, BeginScan(p) PROVE Typed'
  <2> DEFINE n == Min(job[p].due)
             j == [NoJob EXCEPT !.due = job[p].due, !.source = n, !.since = watermark[n]]
  <2>1. n \in Sources
    BY <1>3, JobType, MinInSet DEF BeginScan, Job
  <2>2. watermark[n] \in (0 .. MaxTime) \cup {None}
    BY <2>1 DEF Typed
  <2> HIDE DEF n
  <2>3. j \in Job
    BY <2>1, <2>2, NoJobType, JobType DEF Job
  <2>4. job' = [job EXCEPT ![p] = j]
    BY <1>3 DEF BeginScan, n
  <2> HIDE DEF j
  <2> QED
    BY <1>3, <2>3, <2>4
       DEF BeginScan, Goto, Typed, Labels, nativeVars, metadataVars, eventVars
<1>4. ASSUME NEW p \in Procs, Done(p) \/ Fail(p) PROVE Typed'
  <2>1. /\ job' = [job EXCEPT ![p] = NoJob] /\ pc' = [pc EXCEPT ![p] = "idle"]
        /\ UNCHANGED <<nativeVars, metadataVars, eventVars>>
    BY <1>4 DEF Done, Fail, Goto
  <2>2. faults' \in 0 .. MaxFaults
    BY <1>4, BoundsAssumption DEF Done, Fail, Typed
  <2> QED
    BY <2>1, <2>2, NoJobType DEF Typed, Labels, nativeVars, metadataVars, eventVars
<1>5. ASSUME NEW p \in Procs, CheckParser(p) PROVE Typed'
  <2>1. PICK since \in (0 .. MaxTime) \cup {None} :
            job' = [job EXCEPT ![p].since = since, ![p].ahead = InSource(job[p].source)]
    <3>1. job[p].since \in (0 .. MaxTime) \cup {None} /\ 0 \in 0 .. MaxTime
      BY JobType, BoundsAssumption DEF Job
    <3>2. (IF ParserMismatch(p) \/ job[p].since = None THEN 0 ELSE job[p].since)
            \in (0 .. MaxTime) \cup {None}
      BY <3>1
    <3> QED
      BY <1>5, <3>2 DEF CheckParser
  <2>2. InSource(job[p].source) \in SUBSET Sessions
    BY DEF InSource
  <2> DEFINE j == [job[p] EXCEPT !.since = since, !.ahead = InSource(job[p].source)]
  <2>3. j \in Job
    BY <2>2, JobType DEF Job
  <2>4. job' = [job EXCEPT ![p] = j]
    BY <2>1 DEF Typed
  <2> HIDE DEF j
  <2>5. job' \in [Procs -> Job]
    BY <2>3, <2>4, JobAfter
  <2> QED
    BY <1>5, <2>5 DEF CheckParser, Goto, Typed, Labels, nativeVars, metadataVars, eventVars
<1>6. ASSUME NEW p \in Procs, Visit(p) PROVE Typed'
  <2>1. PICK s \in job[p].ahead :
            job' = [job EXCEPT ![p].ahead = @ \ {s},
                               ![p].listed[s] =
                                    IF mtime[s] > job[p].since THEN mtime[s] ELSE @]
    BY <1>6 DEF Visit
  <2>2. /\ s \in Sessions /\ mtime[s] \in 0 .. MaxTime /\ job[p].listed[s] \in 0 .. MaxTime
        /\ job[p].ahead \ {s} \in SUBSET Sessions
    BY JobType DEF Job, Typed
  <2> DEFINE t == IF mtime[s] > job[p].since THEN mtime[s] ELSE job[p].listed[s]
             j == [job[p] EXCEPT !.ahead = @ \ {s}, !.listed = [@ EXCEPT ![s] = t]]
  <2>3. j \in Job
    <3>1. t \in 0 .. MaxTime
      BY <2>2
    <3> HIDE DEF t
    <3> QED
      BY <2>2, <3>1, JobType DEF Job
  <2>4. job' = [job EXCEPT ![p] = j]
    BY <2>1, <2>2 DEF Typed
  <2> HIDE DEF j
  <2>5. job' \in [Procs -> Job]
    BY <2>3, <2>4, JobAfter
  <2> QED
    BY <1>6, <2>5 DEF Visit, Typed, nativeVars, metadataVars, eventVars
<1>7. ASSUME NEW p \in Procs, EndWalk(p) PROVE Typed'
  BY <1>7 DEF EndWalk, Goto, Typed, Labels, nativeVars, metadataVars, eventVars
<1>8. ASSUME NEW p \in Procs, NextSession(p) PROVE Typed'
  <2> DEFINE s == Newest(p)
  <2>1. s \in Sessions /\ job[p].listed[s] \in 1 .. MaxTime /\ job[p].high \in 0 .. MaxTime
    BY <1>8, NewestListed, JobType DEF NextSession, Job
  <2>2. Max({job[p].high, job[p].listed[s]}) \in 0 .. MaxTime
    BY <2>1, MaxOfTwo, BoundsAssumption
  <2>3. job' = [job EXCEPT ![p].session = s,
                           ![p].high = Max({job[p].high, job[p].listed[s]})]
    BY <1>8 DEF NextSession
  <2> DEFINE high == Max({job[p].high, job[p].listed[s]})
             j == [job[p] EXCEPT !.session = s, !.high = high]
  <2> HIDE DEF s, high
  <2>4. j \in Job
    BY <2>1, <2>2, JobType DEF Job, high
  <2>5. job' = [job EXCEPT ![p] = j]
    BY <2>3 DEF Typed, high
  <2> HIDE DEF j
  <2>6. job' \in [Procs -> Job]
    BY <2>4, <2>5, JobAfter
  <2> QED
    BY <1>8, <2>6 DEF NextSession, Goto, Typed, Labels, nativeVars, metadataVars, eventVars
<1>9. ASSUME NEW p \in Procs, UpsertRow(p) PROVE Typed'
  <2> DEFINE s == job[p].session
  <2>1. s \in Sessions /\ Found(p, s) \in Version
    <3>1. s \in Sessions /\ job[p].listed[s] # 0
      BY <1>9 DEF UpsertRow, Ready, AtSession
    <3> QED
      BY <3>1, JobType, BoundsAssumption DEF Found, Version
  <2>2. row' \in [Sessions -> Version \cup {None}]
    BY <1>9, <2>1 DEF UpsertRow, Typed
  <2> QED
    BY <1>9, <2>2 DEF UpsertRow, Goto, Typed, Labels, nativeVars, eventVars
<1>10. ASSUME NEW p \in Procs, UseStored(p) PROVE Typed'
  <2>1. chunks[job[p].session] \in Version \cup {None}
    BY <1>10 DEF UseStored, Ready, AtSession, Typed
  <2> DEFINE j == [job[p] EXCEPT !.chunks = chunks[job[p].session]]
  <2>2. j \in Job
    BY <2>1, JobType DEF Job
  <2>3. job' = [job EXCEPT ![p] = j]
    BY <1>10 DEF UseStored, Typed
  <2> HIDE DEF j
  <2>4. job' \in [Procs -> Job]
    BY <2>2, <2>3, JobAfter
  <2> QED
    BY <1>10, <2>4 DEF UseStored, Goto, Typed, Labels, nativeVars, metadataVars, eventVars
<1>11. ASSUME NEW p \in Procs, Format(p) PROVE Typed'
  <2>1. [time |-> mtime[job[p].session], parser |-> Parser[p]] \in Version
    <3>1. /\ job[p].session \in Sessions /\ job[p].listed[job[p].session] # 0
          /\ job[p].listed[job[p].session] <= mtime[job[p].session]
      BY <1>11 DEF Format, Ready, AtSession
    <3>2. mtime[job[p].session] \in 1 .. MaxTime
      BY <3>1, JobType, BoundsAssumption DEF Typed
    <3> QED
      BY <3>2, JobType DEF Version
  <2> DEFINE v == [time |-> mtime[job[p].session], parser |-> Parser[p]]
             j == [job[p] EXCEPT !.chunks = v]
  <2> HIDE DEF v
  <2>2. j \in Job
    BY <2>1, JobType DEF Job, v
  <2>3. job' = [job EXCEPT ![p] = j]
    BY <1>11 DEF Format, Typed, v
  <2> HIDE DEF j
  <2>4. job' \in [Procs -> Job]
    BY <2>2, <2>3, JobAfter
  <2> QED
    BY <1>11, <2>4 DEF Format, Goto, Typed, Labels, nativeVars, metadataVars, eventVars
<1>12. ASSUME NEW p \in Procs, PutChunks(p) PROVE Typed'
  <2>1. job[p].session \in Sessions /\ job[p].chunks \in Version \cup {None}
    BY <1>12, JobType DEF PutChunks, Ready, AtSession, Job
  <2> QED
    BY <1>12, <2>1 DEF PutChunks, Goto, Typed, Labels, nativeVars, eventVars
<1>13. ASSUME NEW p \in Procs, Emit(p) PROVE Typed'
  <2> DEFINE s == job[p].session
             id == EventOf(s)
  <2>1. s \in Sessions /\ row[s] # None
    BY <1>13 DEF Emit, Ready, AtSession, AtRow
  <2>2. id \in EventId
    BY <2>1 DEF EventOf, EventId, Typed
  <2>3. job[p].chunks \in Version \cup {None} /\ Repo[p] \in Repos
    BY JobType DEF Job
  <2>4. /\ repoOf' = [repoOf EXCEPT ![id] = IF @ = None THEN Repo[p] ELSE @]
        /\ content' = [content EXCEPT ![id] = job[p].chunks]
        /\ job' = [job EXCEPT ![p].listed[s] = 0, ![p].session = None, ![p].chunks = None]
    BY <1>13 DEF Emit
  <2> HIDE DEF id
  <2>5. /\ repoOf' \in [EventId -> Repos \cup {None}]
        /\ content' \in [EventId -> Version \cup {None}]
    BY <2>2, <2>3, <2>4 DEF Typed
  <2> DEFINE j == [job[p] EXCEPT !.listed = [@ EXCEPT ![s] = 0],
                                 !.session = None, !.chunks = None]
  <2>6. j \in Job
    <3>1. [job[p].listed EXCEPT ![s] = 0] \in [Sessions -> 0 .. MaxTime]
      BY <2>1, JobType, BoundsAssumption
    <3> QED
      BY <3>1, JobType DEF Job
  <2>7. job' = [job EXCEPT ![p] = j]
    BY <2>4 DEF Typed
  <2> HIDE DEF j
  <2>8. job' \in [Procs -> Job]
    BY <2>6, <2>7, JobAfter
  <2> QED
    BY <1>13, <2>5, <2>8 DEF Emit, Goto, Typed, Labels, nativeVars, metadataVars
<1>14. ASSUME NEW p \in Procs, FinishScan(p) PROVE Typed'
  <2> DEFINE n == job[p].source
  <2>1. n \in Sources /\ job[p].high \in 0 .. MaxTime /\ 0 \in 0 .. MaxTime
    BY <1>14, JobType, BoundsAssumption DEF FinishScan, Ready, Scanning, Labels, Job
  <2>2. MarkAfter(watermark[n], job[p].high) \in (0 .. MaxTime) \cup {None}
    BY <2>1 DEF MarkAfter, Typed
  <2>3. watermark' \in [Sources -> (0 .. MaxTime) \cup {None}]
    BY <1>14, <2>1, <2>2 DEF FinishScan, Typed
  <2> DEFINE j == [job[p] EXCEPT !.due = @ \ {n}]
  <2>4. j \in Job
    BY JobType DEF Job
  <2>5. job' = [job EXCEPT ![p] = j]
    BY <1>14 DEF FinishScan, Typed
  <2> HIDE DEF j
  <2>6. job' \in [Procs -> Job]
    BY <2>4, <2>5, JobAfter
  <2> QED
    BY <1>14, <2>3, <2>6 DEF FinishScan, Goto, Typed, Labels, nativeVars, eventVars
<1> QED
  BY <1>1, <1>2, <1>3, <1>4, <1>5, <1>6, <1>7, <1>8, <1>9, <1>10, <1>11, <1>12, <1>13,
     <1>14 DEF Next, Step

-----------------------------------------------------------------------------
(* Ready. *)

\* A process that stays where it is stays ready.
LEMMA ReadyFrame ==
    ASSUME RefreshInv, Next, NEW q \in Procs, pc'[q] = pc[q], job'[q] = job[q]
    PROVE  Ready(q)'
<1>1. Ready(q) /\ job[q].listed \in [Sessions -> 0 .. MaxTime]
      /\ mtime \in [Sessions -> 0 .. MaxTime]
  BY JobType DEF RefreshInv, Typed
<1>2. \A s \in Sessions : job[q].listed[s] <= mtime'[s]
  <2> SUFFICES ASSUME NEW s \in Sessions PROVE job[q].listed[s] <= mtime'[s]
    OBVIOUS
  <2>1. /\ job[q].listed[s] \in Nat /\ mtime[s] \in Nat
        /\ job[q].listed[s] <= mtime[s]
    BY <1>1, BoundsAssumption DEF Ready
  <2>2. mtime[s] <= mtime'[s] /\ mtime'[s] \in Nat
    BY Monotone, BoundsAssumption
  <2> QED
    BY <2>1, <2>2
<1>3. pc[q] \in AtRow => row'[job[q].session] # None
  BY <1>1, Monotone DEF Ready, AtRow, AtSession
<1> QED
  BY <1>1, <1>2, <1>3 DEF Ready

\* A process that goes on with the same listing has only to be ready for the
\* place it comes to.
LEMMA ReadyGoesOn ==
    ASSUME RefreshInv, Next, NEW p \in Procs,
           \/ job'[p].listed = job[p].listed
           \/ \E s \in Sessions : \E t \in {0, mtime[s]} :
                job'[p].listed = [job[p].listed EXCEPT ![s] = t],
           pc'[p] \in Scanning => job'[p].source \in Sources,
           pc'[p] \in Walking => job'[p].since \in 0 .. MaxTime,
           pc'[p] \in AtSession =>
                job'[p].session \in Sessions /\ job'[p].listed[job'[p].session] # 0,
           pc'[p] \in AtRow => row'[job'[p].session] # None,
           pc'[p] \in {"putChunks", "emit"} => job'[p].chunks # None
    PROVE  Ready(p)'
<1>1. Ready(p) /\ job[p].listed \in [Sessions -> 0 .. MaxTime]
      /\ mtime \in [Sessions -> 0 .. MaxTime]
  BY JobType DEF RefreshInv, Typed
<1>2. ASSUME NEW s \in Sessions PROVE job'[p].listed[s] <= mtime'[s]
  <2>1. /\ job[p].listed[s] \in Nat /\ mtime[s] \in Nat
        /\ job[p].listed[s] <= mtime[s]
    BY <1>1, BoundsAssumption DEF Ready
  <2>2. mtime[s] <= mtime'[s] /\ mtime'[s] \in Nat
    BY Monotone, BoundsAssumption
  <2>3. job'[p].listed[s] \in {job[p].listed[s], 0, mtime[s]}
    BY <1>1
  <2> QED
    BY <2>1, <2>2, <2>3
<1> QED
  BY <1>2 DEF Ready

\* A step of any process keeps every process ready.
LEMMA ReadyStep ==
    ASSUME RefreshInv, Next, NEW q \in Procs
    PROVE  Ready(q)'
<1>1. /\ pc \in [Procs -> Labels] /\ job \in [Procs -> Job]
      /\ job[q] \in Job /\ Ready(q)
  BY JobType DEF RefreshInv, Typed
<1>2. CASE pc'[q] = pc[q] /\ job'[q] = job[q]
  BY <1>2, ReadyFrame
<1>3. CASE pc'[q] \notin Scanning /\ \A s \in Sessions : job'[q].listed[s] = 0
  <2>1. \A s \in Sessions : job'[q].listed[s] <= mtime'[s]
    BY <1>3, Monotone, BoundsAssumption
  <2> QED
    BY <1>3, <2>1 DEF Ready, Scanning, Walking, AtSession, AtRow, Labels
<1>4. ASSUME \/ Begin(q) \/ Done(q) \/ Fail(q)
      PROVE  pc'[q] \notin Scanning /\ \A s \in Sessions : job'[q].listed[s] = 0
  BY <1>1, <1>4 DEF Begin, Done, Fail, Goto, NoJob, Scanning
<1>5. CASE BeginScan(q)
  <2>1. job'[q].source \in Sources /\ pc'[q] = "parser"
        /\ \A s \in Sessions : job'[q].listed[s] = 0
    BY <1>1, <1>5, JobType, MinInSet DEF BeginScan, Goto, NoJob, Job, RefreshInv
  <2>2. \A s \in Sessions : job'[q].listed[s] <= mtime'[s]
    BY <2>1, Monotone, BoundsAssumption
  <2> QED
    BY <2>1, <2>2 DEF Ready, Walking, AtSession, AtRow
<1>6. CASE CheckParser(q)
  <2>1. /\ job'[q].source = job[q].source /\ job'[q].listed = job[q].listed
        /\ pc'[q] = "walk" /\ pc[q] = "parser"
        /\ job'[q].since =
                IF ParserMismatch(q) \/ job[q].since = None THEN 0 ELSE job[q].since
    BY <1>1, <1>6 DEF CheckParser, Goto, Job
  <2>2. job'[q].since \in 0 .. MaxTime
    BY <1>1, <2>1, BoundsAssumption DEF Job
  <2> QED
    BY <1>1, <2>1, <2>2, ReadyGoesOn DEF Ready, Scanning, Labels, AtSession, AtRow
<1>7. CASE Visit(q)
  <2>1. PICK s \in job[q].ahead :
            job' = [job EXCEPT ![q].ahead = @ \ {s},
                               ![q].listed[s] =
                                    IF mtime[s] > job[q].since THEN mtime[s] ELSE @]
    BY <1>7 DEF Visit
  <2>2. /\ s \in Sessions
        /\ job'[q].listed =
            [job[q].listed EXCEPT ![s] = IF mtime[s] > job[q].since THEN mtime[s] ELSE @]
    BY <1>1, <2>1 DEF Job
  <2>3. /\ job'[q].source = job[q].source /\ job'[q].since = job[q].since
        /\ pc'[q] = pc[q] /\ pc[q] = "walk"
    BY <1>1, <1>7, <2>1 DEF Visit, Job
  <2>4. \/ job'[q].listed = job[q].listed
        \/ job'[q].listed = [job[q].listed EXCEPT ![s] = mtime[s]]
    <3>1. job[q].listed \in [Sessions -> 0 .. MaxTime]
      BY <1>1 DEF Job
    <3> QED
      BY <2>2, <3>1
  <2> QED
    BY <1>1, <2>2, <2>3, <2>4, ReadyGoesOn DEF Ready, Scanning, Walking, Labels, AtSession, AtRow
<1>8. CASE EndWalk(q)
  <2>1. job' = job /\ pc'[q] = "next" /\ pc[q] = "walk"
    BY <1>1, <1>8 DEF EndWalk, Goto
  <2> QED
    BY <1>1, <2>1, ReadyGoesOn DEF Ready, Scanning, Walking, Labels, AtSession, AtRow
<1>9. CASE NextSession(q)
  <2>1. /\ job'[q].session = Newest(q) /\ job'[q].listed = job[q].listed
        /\ job'[q].source = job[q].source /\ job'[q].since = job[q].since
        /\ pc[q] = "next" /\ pc'[q] \in {"stored", "upsert"} /\ row' = row
        /\ pc'[q] = "stored" => row[Newest(q)] = Found(q, Newest(q))
    BY <1>1, <1>9 DEF NextSession, Goto, Job, Unchanged, metadataVars
  <2>2. /\ Newest(q) \in Sessions /\ job[q].listed[Newest(q)] # 0
        /\ Found(q, Newest(q)) # None
    <3>1. /\ Newest(q) \in Sessions /\ job[q].listed[Newest(q)] \in 1 .. MaxTime
          /\ job[q].listed[Newest(q)] # 0
      BY <1>9, NewestListed DEF NextSession, RefreshInv
    <3>2. Found(q, Newest(q)) \in Version
      BY <3>1, JobType DEF Found, Version, RefreshInv
    <3> QED
      BY <3>1, <3>2, NoneAssumption
  <2> QED
    BY <1>1, <2>1, <2>2, ReadyGoesOn DEF Ready, Scanning, Walking, Labels, AtSession, AtRow
<1>10. CASE UpsertRow(q)
  <2>1. /\ job' = job /\ pc[q] = "upsert" /\ pc'[q] = "format"
        /\ row' = [row EXCEPT ![job[q].session] = Found(q, job[q].session)]
    BY <1>1, <1>10 DEF UpsertRow, Goto
  <2>2. /\ job[q].session \in Sessions /\ job[q].listed[job[q].session] # 0
        /\ Found(q, job[q].session) # None
    <3>1. job[q].session \in Sessions /\ job[q].listed[job[q].session] # 0
      BY <1>1, <2>1 DEF Ready, AtSession
    <3>2. Found(q, job[q].session) \in Version
      BY <3>1, JobType, BoundsAssumption DEF Found, Version, RefreshInv
    <3> QED
      BY <3>1, <3>2, NoneAssumption
  <2>3. row'[job[q].session] # None
    BY <2>1, <2>2 DEF RefreshInv, Typed
  <2> QED
    BY <1>1, <2>1, <2>2, <2>3, ReadyGoesOn DEF Ready, Scanning, Walking, Labels, AtSession, AtRow
<1>11. CASE UseStored(q) \/ Format(q) \/ PutChunks(q)
  <2>1. /\ job'[q].session = job[q].session /\ job'[q].listed = job[q].listed
        /\ job'[q].source = job[q].source /\ job'[q].since = job[q].since
        /\ row' = row /\ pc[q] \in AtRow /\ pc'[q] \in AtRow
    BY <1>1, <1>11 DEF UseStored, Format, PutChunks, Goto, Job, AtRow, AtSession, metadataVars
  <2>2. pc'[q] \in {"putChunks", "emit"} => job'[q].chunks # None
    <3>1. CASE UseStored(q)
      BY <1>1, <3>1 DEF UseStored, Goto, Job
    <3>2. CASE Format(q)
      <4>1. job'[q].chunks = [time |-> mtime[job[q].session], parser |-> Parser[q]]
        BY <1>1, <3>2 DEF Format, Job
      <4>2. /\ job[q].session \in Sessions /\ job[q].listed[job[q].session] # 0
            /\ job[q].listed[job[q].session] <= mtime[job[q].session]
        BY <1>1, <3>2 DEF Format, Ready, AtSession
      <4>3. mtime[job[q].session] \in 1 .. MaxTime
        BY <4>2, JobType, BoundsAssumption DEF Typed, RefreshInv
      <4>4. job'[q].chunks \in Version
        BY <4>1, <4>3, JobType DEF Version, RefreshInv
      <4> QED
        BY <4>4, NoneAssumption
    <3>3. CASE PutChunks(q)
      BY <1>1, <3>3 DEF PutChunks, Ready
    <3> QED
      BY <1>11, <3>1, <3>2, <3>3
  <2> QED
    BY <1>1, <2>1, <2>2, ReadyGoesOn DEF Ready, Scanning, Walking, Labels, AtSession, AtRow
<1>12. CASE Emit(q)
  <2>1. /\ job'[q].listed = [job[q].listed EXCEPT ![job[q].session] = 0]
        /\ job'[q].source = job[q].source /\ job'[q].since = job[q].since
        /\ pc[q] = "emit" /\ pc'[q] = "next"
    BY <1>1, <1>12 DEF Emit, Goto, Job
  <2>2. job[q].session \in Sessions
    BY <1>1, <2>1 DEF Ready, AtSession
  <2> QED
    BY <1>1, <2>1, <2>2, ReadyGoesOn DEF Ready, Scanning, Walking, Labels, AtSession, AtRow
<1>13. CASE FinishScan(q)
  <2>1. job'[q].listed = job[q].listed /\ pc'[q] = "profile"
    BY <1>1, <1>13 DEF FinishScan, Goto, Job
  <2> QED
    BY <2>1, ReadyGoesOn DEF Scanning, Walking, AtSession, AtRow
<1>14. ASSUME NEW p \in Procs, p # q, Begin(p) \/ Step(p) \/ Fail(p)
       PROVE  pc'[q] = pc[q] /\ job'[q] = job[q]
  BY <1>1, <1>14
     DEF Begin, Step, Fail, BeginScan, CheckParser, Visit, EndWalk, NextSession, UpsertRow,
         UseStored, Format, PutChunks, Emit, FinishScan, Done, Goto
<1>15. ASSUME NEW s \in Sessions, Write(s) PROVE pc'[q] = pc[q] /\ job'[q] = job[q]
  BY <1>15 DEF Write
<1> QED
  BY <1>2, <1>3, <1>4, <1>5, <1>6, <1>7, <1>8, <1>9, <1>10, <1>11, <1>12, <1>13, <1>14,
     <1>15 DEF Next, Step

\* Every behaviour keeps the types and keeps every process ready.
LEMMA RefreshInvariance == Spec => []RefreshInv
<1>1. ASSUME RefreshInv, [Next]_vars PROVE RefreshInv'
  <2>1. CASE Next
    BY <1>1, <2>1, TypedStep, ReadyStep, Monotone DEF RefreshInv
  <2>2. CASE UNCHANGED vars
    BY <1>1, <2>2
       DEF RefreshInv, Typed, Ready, vars, nativeVars, metadataVars, eventVars
  <2> QED
    BY <1>1, <2>1, <2>2
<1> QED
  BY <1>1, InitInv, PTL DEF Spec

-----------------------------------------------------------------------------
(* Chunks and rows. *)

(***************************************************************************)
(* Refreshes do not overlap and none is cut short.  Otherwise a process    *)
(* that comes between the commit of a row and the commit of its chunks     *)
(* takes the old chunks for the new fingerprint, and so does the next      *)
(* refresh after a crash there.                                            *)
(***************************************************************************)
OneRefresh == ~ Overlap /\ MaxFaults = 0

\* The stored chunks of session s are of its row's parser and version.
Matched(s) ==
    row[s] # None =>
        /\ chunks[s] # None
        /\ chunks[s].time >= row[s].time
        /\ chunks[s].parser = row[s].parser

\* Process p has committed a row and not yet its chunks.
Between(p) == pc[p] \in {"format", "putChunks"}

\* What process p will store matches the row.
Formats(p) ==
    LET s == job[p].session IN
    /\ pc[p] = "stored" => row[s] = Found(p, s)
    /\ Between(p) => row[s].parser = Parser[p] /\ row[s].time <= mtime[s]
    /\ pc[p] = "putChunks" =>
        job[p].chunks.parser = Parser[p] /\ job[p].chunks.time >= row[s].time

MatchInv ==
    /\ \A p, q \in Procs : pc[p] # "idle" /\ pc[q] # "idle" => p = q
    /\ \A s \in Sessions :
        Matched(s) \/ \E p \in Procs : Between(p) /\ job[p].session = s
    /\ \A p \in Procs : Formats(p)


\* One process acts at a time, and the others are idle.
LEMMA OneActs ==
    ASSUME RefreshInv, MatchInv, OneRefresh, Next
    PROVE  \/ \E s \in Sessions : Write(s)
           \/ \E p \in Procs :
                /\ Begin(p) \/ Step(p)
                /\ \A q \in Procs \ {p} : pc[q] = "idle" /\ pc'[q] = "idle"
<1>1. ASSUME NEW p \in Procs, Fail(p) PROVE FALSE
  BY <1>1 DEF Fail, OneRefresh, RefreshInv, Typed
<1>2. ASSUME NEW p \in Procs, Begin(p) \/ Step(p), NEW q \in Procs \ {p}
      PROVE  pc[q] = "idle" /\ pc'[q] = "idle"
  <2>1. pc[q] = "idle"
    <3>1. CASE Begin(p)
      BY <3>1 DEF Begin, OneRefresh, Quiet
    <3>2. CASE Step(p)
      <4>1. pc[p] # "idle"
        BY <3>2 DEF Step, BeginScan, CheckParser, Visit, EndWalk, NextSession, UpsertRow,
                    UseStored, Format, PutChunks, Emit, FinishScan, Done
      <4> QED
        BY <4>1 DEF MatchInv
    <3> QED
      BY <1>2, <3>1, <3>2
  <2>2. pc'[q] = pc[q]
    BY <1>2 DEF Begin, Step, BeginScan, CheckParser, Visit, EndWalk, NextSession, UpsertRow,
                UseStored, Format, PutChunks, Emit, FinishScan, Done, Goto, RefreshInv, Typed
  <2> QED
    BY <2>1, <2>2
<1> QED
  BY <1>1, <1>2 DEF Next

\* What the process that acts will store matches the row.
LEMMA FormatsStep ==
    ASSUME RefreshInv, NEW p \in Procs, Formats(p), Begin(p) \/ Step(p)
    PROVE  Formats(p)'
<1>1. /\ pc \in [Procs -> Labels] /\ job \in [Procs -> Job] /\ job[p] \in Job /\ Ready(p)
      /\ row \in [Sessions -> Version \cup {None}]
  BY JobType DEF RefreshInv, Typed
<1>2. CASE pc'[p] \notin {"stored", "format", "putChunks"}
  BY <1>2 DEF Formats, Between
<1>3. CASE NextSession(p)
  <2>1. /\ job'[p].session = Newest(p) /\ job'[p].listed = job[p].listed /\ row' = row
        /\ pc'[p] \in {"stored", "upsert"}
        /\ pc'[p] = "stored" => row[Newest(p)] = Found(p, Newest(p))
    BY <1>1, <1>3 DEF NextSession, Goto, Job, Unchanged, metadataVars
  <2> QED
    BY <2>1 DEF Formats, Between, Found
<1>4. CASE UpsertRow(p)
  <2> DEFINE s == job[p].session
  <2>1. /\ job' = job /\ pc'[p] = "format" /\ mtime' = mtime
        /\ row' = [row EXCEPT ![s] = Found(p, s)]
        /\ s \in Sessions /\ job[p].listed[s] <= mtime[s]
    BY <1>1, <1>4 DEF UpsertRow, Goto, Ready, AtSession, nativeVars
  <2>2. row'[s].parser = Parser[p] /\ row'[s].time <= mtime'[s]
    BY <1>1, <2>1 DEF Found
  <2> QED
    BY <2>1, <2>2 DEF Formats, Between
<1>5. CASE UseStored(p)
  <2> DEFINE s == job[p].session
  <2>1. /\ job'[p].session = s /\ pc[p] = "stored" /\ pc'[p] \in {"format", "emit"}
        /\ row' = row /\ mtime' = mtime
        /\ s \in Sessions /\ job[p].listed[s] <= mtime[s]
    BY <1>1, <1>5 DEF UseStored, Goto, Job, Ready, AtSession, nativeVars, metadataVars
  <2>2. row[s].parser = Parser[p] /\ row[s].time <= mtime[s]
    BY <2>1 DEF Formats, Found
  <2> QED
    BY <2>1, <2>2 DEF Formats, Between
<1>6. CASE Format(p)
  <2> DEFINE s == job[p].session
  <2>1. /\ job'[p].session = s /\ pc[p] = "format" /\ pc'[p] = "putChunks"
        /\ row' = row /\ mtime' = mtime
        /\ job'[p].chunks = [time |-> mtime[s], parser |-> Parser[p]]
    BY <1>1, <1>6 DEF Format, Goto, Job, nativeVars, metadataVars
  <2>2. row[s].parser = Parser[p] /\ row[s].time <= mtime[s]
    BY <2>1 DEF Formats, Between
  <2> QED
    BY <2>1, <2>2 DEF Formats, Between
<1>7. ASSUME \/ Begin(p) \/ BeginScan(p) \/ CheckParser(p) \/ Visit(p) \/ EndWalk(p)
             \/ PutChunks(p) \/ Emit(p) \/ FinishScan(p) \/ Done(p)
      PROVE  pc'[p] \notin {"stored", "format", "putChunks"}
  BY <1>1, <1>7 DEF Begin, BeginScan, CheckParser, Visit, EndWalk, PutChunks, Emit,
                    FinishScan, Done, Goto
<1> QED
  BY <1>2, <1>3, <1>4, <1>5, <1>6, <1>7 DEF Step

\* Only between the commit of a row and that of its chunks do they differ.
LEMMA MatchedStep ==
    ASSUME RefreshInv, MatchInv, NEW p \in Procs, Begin(p) \/ Step(p),
           \A q \in Procs \ {p} : pc[q] = "idle", NEW s \in Sessions
    PROVE  (Matched(s) \/ \E q \in Procs : Between(q) /\ job[q].session = s)'
<1>1. /\ pc \in [Procs -> Labels] /\ job \in [Procs -> Job] /\ job[p] \in Job /\ Ready(p)
      /\ row \in [Sessions -> Version \cup {None}]
      /\ chunks \in [Sessions -> Version \cup {None}]
  BY JobType DEF RefreshInv, Typed
<1>2. Matched(s) \/ (Between(p) /\ job[p].session = s)
  BY DEF MatchInv, Between
<1>3. CASE UpsertRow(p)
  <2>1. /\ pc[p] = "upsert" /\ pc'[p] = "format" /\ job' = job /\ chunks' = chunks
        /\ row' = [row EXCEPT ![job[p].session] = Found(p, job[p].session)]
    BY <1>1, <1>3 DEF UpsertRow, Goto
  <2>2. CASE s = job[p].session
    BY <2>1, <2>2 DEF Between
  <2>3. CASE s # job[p].session
    <3>1. Matched(s) /\ row'[s] = row[s]
      BY <1>1, <1>2, <2>1, <2>3 DEF Between
    <3> QED
      BY <2>1, <3>1 DEF Matched
  <2> QED
    BY <2>2, <2>3
<1>4. CASE PutChunks(p)
  <2> DEFINE t == job[p].session
  <2>1. /\ pc[p] = "putChunks" /\ row' = row
        /\ chunks' = [chunks EXCEPT ![t] = job[p].chunks]
        /\ t \in Sessions /\ job[p].chunks # None
    BY <1>1, <1>4 DEF PutChunks, Ready, AtSession
  <2>2. CASE s = t
    <3>1. row[t].parser = Parser[p]
          /\ job[p].chunks.parser = Parser[p] /\ job[p].chunks.time >= row[t].time
      BY <2>1 DEF MatchInv, Formats, Between
    <3>2. chunks'[s] = job[p].chunks
      BY <1>1, <2>1, <2>2
    <3> QED
      BY <2>1, <2>2, <3>1, <3>2 DEF Matched
  <2>3. CASE s # t
    <3>1. Matched(s) /\ chunks'[s] = chunks[s]
      BY <1>1, <1>2, <2>1, <2>3
    <3> QED
      BY <2>1, <3>1 DEF Matched
  <2> QED
    BY <2>2, <2>3
<1>5. CASE Format(p)
  <2>1. /\ pc'[p] = "putChunks" /\ job'[p].session = job[p].session
        /\ row' = row /\ chunks' = chunks
    BY <1>1, <1>5 DEF Format, Goto, Job, metadataVars
  <2> QED
    BY <1>2, <2>1 DEF Matched, Between
<1>6. CASE \/ Begin(p) \/ BeginScan(p) \/ CheckParser(p) \/ Visit(p) \/ EndWalk(p)
           \/ NextSession(p) \/ UseStored(p) \/ Emit(p) \/ FinishScan(p) \/ Done(p)
  <2>1. ~ Between(p) /\ row' = row /\ chunks' = chunks
    BY <1>6 DEF Begin, BeginScan, CheckParser, Visit, EndWalk, NextSession, UseStored, Emit,
                FinishScan, Done, Between, metadataVars
  <2> QED
    BY <1>2, <2>1 DEF Matched
<1> QED
  BY <1>3, <1>4, <1>5, <1>6 DEF Step

(***************************************************************************)
(* When refreshes do not overlap and none is cut short, the stored         *)
(* transcript of every session is, between refreshes, of its row's parser  *)
(* and as new as its fingerprint, whatever builds take turns and however   *)
(* agents write meanwhile (refresh_single_profile).                        *)
(***************************************************************************)
THEOREM ChunksInStep ==
    ASSUME OneRefresh
    PROVE  Spec => []ChunksMatchRow
<1>1. Init => MatchInv
  BY DEF Init, MatchInv, Matched, Formats, Between
<1>2. ASSUME RefreshInv, MatchInv, [Next]_vars PROVE MatchInv'
  <2>1. ASSUME NEW s \in Sessions, Write(s) PROVE MatchInv'
    <3>1. /\ UNCHANGED <<row, chunks, pc, job>>
          /\ Next
      BY <2>1 DEF Write, Next, metadataVars
    <3>2. ASSUME NEW p \in Procs PROVE Formats(p)'
      <4> DEFINE t == job[p].session
      <4>1. Formats(p)
        BY <1>2 DEF MatchInv
      <4>2. Between(p) => row[t].time <= mtime'[t]
        <5> SUFFICES ASSUME Between(p) PROVE row[t].time <= mtime'[t]
          OBVIOUS
        <5>1. t \in Sessions /\ row[t] # None
          BY <1>2 DEF RefreshInv, Ready, Between, AtSession, AtRow
        <5>2. row[t].time \in Nat /\ row[t].time <= mtime[t] /\ mtime[t] \in Nat
          BY <1>2, <4>1, <5>1, BoundsAssumption DEF Formats, RefreshInv, Typed, Version
        <5>3. mtime[t] <= mtime'[t] /\ mtime'[t] \in Nat
          BY <1>2, <3>1, <5>1, Monotone, BoundsAssumption
        <5> QED
          BY <5>2, <5>3
      <4> QED
        BY <3>1, <4>1, <4>2 DEF Formats, Between, Found
    <3> QED
      BY <1>2, <3>1, <3>2 DEF MatchInv, Matched, Between
  <2>2. ASSUME NEW p \in Procs, Begin(p) \/ Step(p),
               \A q \in Procs \ {p} : pc[q] = "idle" /\ pc'[q] = "idle"
        PROVE  MatchInv'
    <3>1. Formats(p)'
      BY <1>2, <2>2, FormatsStep DEF MatchInv
    <3>2. \A q \in Procs \ {p} : Formats(q)'
      BY <2>2 DEF Formats, Between
    <3>3. \A s \in Sessions :
            (Matched(s) \/ \E q \in Procs : Between(q) /\ job[q].session = s)'
      BY <1>2, <2>2, MatchedStep
    <3> QED
      BY <2>2, <3>1, <3>2, <3>3 DEF MatchInv
  <2>3. CASE Next
    BY <1>2, <2>1, <2>2, <2>3, OneActs
  <2>4. CASE UNCHANGED vars
    BY <1>2, <2>4 DEF MatchInv, Matched, Formats, Between, Found, vars, nativeVars, metadataVars
  <2> QED
    BY <1>2, <2>3, <2>4
<1>3. MatchInv => ChunksMatchRow
  BY DEF MatchInv, Matched, Between, Quiet, ChunksMatchRow
<1> QED
  BY <1>1, <1>2, <1>3, RefreshInvariance, PTL DEF Spec

-----------------------------------------------------------------------------
(* The watermark. *)

(***************************************************************************)
(* Agents write only between refreshes, and no source holds more sessions  *)
(* than a walk lists.  Otherwise a file can be written after the walk has  *)
(* passed it and before one it lists, or not be reached at all, and is at  *)
(* or below the mark without having been indexed.                          *)
(***************************************************************************)
SteadySources ==
    /\ ~ WritesDuringScan
    /\ \A n \in Sources : IsFiniteSet(InSource(n)) /\ Cardinality(InSource(n)) <= Limit

\* The row of session s is of its last write.
UpToDate(s) == row[s] # None /\ row[s].time = mtime[s]

\* Process p has listed its source's files as they are, and whatever it has
\* neither listed nor ahead of it is indexed.
Covers(p) ==
    /\ \A s \in Sessions :
        job[p].listed[s] # 0 => job[p].listed[s] = mtime[s] /\ SourceOf[s] = job[p].source
    /\ pc[p] \in Scanning /\ job[p].since # None =>
        \A s \in InSource(job[p].source) :
            0 < mtime[s] /\ mtime[s] <= job[p].since => UpToDate(s)
    /\ pc[p] = "walk" => job[p].ahead \subseteq InSource(job[p].source)
    /\ pc[p] \in Walking =>
        \A s \in InSource(job[p].source) :
            0 < mtime[s] =>
                \/ job[p].listed[s] # 0
                \/ UpToDate(s)
                \/ pc[p] = "walk" /\ s \in job[p].ahead
    /\ pc[p] \in AtRow => UpToDate(job[p].session)
    /\ job[p].high <= clock

CoverInv ==
    /\ \A n \in Sources : watermark[n] # None => watermark[n] <= clock
    /\ WatermarkCovers
    /\ \A p \in Procs : pc[p] # "idle" => Covers(p)

\* A row stays up to date: only a newer version of it is stored.
LEMMA UpToDateStays ==
    ASSUME RefreshInv, NEW p \in Procs, pc[p] # "idle" => Covers(p), Begin(p) \/ Step(p) \/ Fail(p),
           NEW s \in Sessions, UpToDate(s)
    PROVE  UpToDate(s)'
<1>1. mtime' = mtime /\ row \in [Sessions -> Version \cup {None}]
  BY DEF Begin, Step, Fail, BeginScan, CheckParser, Visit, EndWalk, NextSession, UpsertRow,
         UseStored, Format, PutChunks, Emit, FinishScan, Done, nativeVars, RefreshInv, Typed
<1>2. CASE UpsertRow(p)
  <2> DEFINE t == job[p].session
  <2>1. /\ t \in Sessions /\ job[p].listed[t] = mtime[t]
        /\ row' = [row EXCEPT ![t] = Found(p, t)]
        /\ row'[t] # None
    <3>1. pc[p] = "upsert" /\ row' = [row EXCEPT ![t] = Found(p, t)]
      BY <1>2 DEF UpsertRow
    <3>2. t \in Sessions /\ job[p].listed[t] # 0
      BY <3>1 DEF RefreshInv, Ready, AtSession
    <3>3. job[p].listed[t] = mtime[t]
      BY <3>1, <3>2 DEF Covers
    <3>4. Found(p, t) \in Version
      BY <3>2, JobType, BoundsAssumption DEF Found, Version, RefreshInv
    <3> QED
      BY <1>1, <3>1, <3>2, <3>3, <3>4, NoneAssumption
  <2>2. CASE s = t
    <3>1. row'[s].time = mtime[s]
      BY <1>1, <2>1, <2>2 DEF Found
    <3> QED
      BY <1>1, <2>1, <2>2, <3>1 DEF UpToDate
  <2>3. CASE s # t
    <3>1. row'[s] = row[s]
      BY <1>1, <2>1, <2>3
    <3> QED
      BY <1>1, <3>1 DEF UpToDate
  <2> QED
    BY <2>2, <2>3
<1>3. CASE ~ UpsertRow(p)
  <2>1. row' = row
    BY <1>3 DEF Begin, Step, Fail, BeginScan, CheckParser, Visit, EndWalk, NextSession,
                UseStored, Format, PutChunks, Emit, FinishScan, Done, metadataVars
  <2> QED
    BY <1>1, <2>1 DEF UpToDate
<1> QED
  BY <1>2, <1>3

\* While the walk goes on, every file is listed, indexed or still ahead; when
\* it is over, none is ahead.
LEMMA WalkCovers ==
    ASSUME RefreshInv, SteadySources, NEW p \in Procs, pc[p] = "walk", Covers(p), WalkIsOver(p),
           NEW s \in InSource(job[p].source), 0 < mtime[s]
    PROVE  job[p].listed[s] # 0 \/ UpToDate(s)
<1> DEFINE n == job[p].source
<1>1. n \in Sources /\ Listed(p) \subseteq InSource(n)
  BY DEF RefreshInv, Ready, Scanning, Labels, Covers, Listed, InSource
<1>2. job[p].listed[s] # 0 \/ UpToDate(s) \/ s \in job[p].ahead
  BY DEF Covers, Walking, Scanning, Labels
<1>3. CASE job[p].ahead = {}
  BY <1>2, <1>3
<1>4. CASE Cardinality(Listed(p)) >= Limit
  <2>1. IsFiniteSet(InSource(n)) /\ Cardinality(InSource(n)) <= Limit
    BY <1>1 DEF SteadySources
  <2>2. IsFiniteSet(Listed(p))
    BY <1>1, <2>1, FS_Subset
  <2>3. Cardinality(Listed(p)) >= Cardinality(InSource(n))
    BY <1>4, <2>1, <2>2, FS_CardinalityType, BoundsAssumption
  <2>4. Listed(p) = InSource(n)
    BY <1>1, <2>1, <2>3, SameSize
  <2> QED
    BY <2>4 DEF Listed
<1> QED
  BY <1>3, <1>4 DEF WalkIsOver

\* A process that stays where it is covers what it did.
LEMMA CoversFrame ==
    ASSUME NEW q \in Procs, Covers(q), pc'[q] = pc[q], job'[q] = job[q],
           RefreshInv, mtime' = mtime, clock' = clock,
           \A s \in Sessions : UpToDate(s) => UpToDate(s)'
    PROVE  Covers(q)'
<1>1. pc[q] \in AtRow => job[q].session \in Sessions
  BY DEF RefreshInv, Ready, AtRow
<1>2. \A n : InSource(n) \subseteq Sessions
  BY DEF InSource
<1> QED
  BY <1>1, <1>2 DEF Covers

\* A process that covers its source and takes a step goes on covering it.
LEMMA CoversStep ==
    ASSUME RefreshInv, SteadySources, WatermarkCovers, NEW p \in Procs,
           pc[p] # "idle" => Covers(p), Begin(p) \/ Step(p), pc'[p] # "idle"
    PROVE  Covers(p)'
<1>1. /\ pc \in [Procs -> Labels] /\ job \in [Procs -> Job] /\ job[p] \in Job /\ Ready(p)
      /\ row \in [Sessions -> Version \cup {None}]
      /\ mtime \in [Sessions -> 0 .. MaxTime] /\ clock \in 0 .. MaxTime
      /\ \A s \in Sessions : mtime[s] <= clock
      /\ job[p].listed \in [Sessions -> 0 .. MaxTime]
  BY JobType DEF RefreshInv, Typed
<1>2. mtime' = mtime /\ clock' = clock
  BY DEF Begin, Step, BeginScan, CheckParser, Visit, EndWalk, NextSession, UpsertRow,
         UseStored, Format, PutChunks, Emit, FinishScan, Done, nativeVars
<1>3. \A s \in Sessions : UpToDate(s) => UpToDate(s)'
  BY UpToDateStays
<1>4. \A n : InSource(n) \subseteq Sessions
  BY DEF InSource
<1>5. CASE Begin(p)
  <2>1. /\ pc'[p] = "profile" /\ job'[p].listed = [s \in Sessions |-> 0] /\ job'[p].high = 0
    BY <1>1, <1>5 DEF Begin, Goto, NoJob
  <2> QED
    BY <1>1, <1>2, <2>1, BoundsAssumption DEF Covers, Scanning, Walking, AtRow, AtSession
<1>6. CASE BeginScan(p)
  <2> DEFINE n == Min(job[p].due)
  <2>1. /\ pc'[p] = "parser" /\ job'[p].listed = [s \in Sessions |-> 0] /\ job'[p].high = 0
        /\ job'[p].source = n /\ job'[p].since = watermark[n] /\ row' = row
    BY <1>1, <1>6 DEF BeginScan, Goto, NoJob, metadataVars
  <2> HIDE DEF n
  <2>2. ASSUME job'[p].since # None, NEW s \in InSource(n), 0 < mtime[s], mtime[s] <= job'[p].since
        PROVE  UpToDate(s)'
    <3>1. s \in Sessions /\ SourceOf[s] = n
      BY DEF InSource
    <3>2. row[s] # None /\ row[s].time = mtime[s]
      BY <2>1, <2>2, <3>1 DEF WatermarkCovers
    <3> QED
      BY <1>2, <2>1, <3>2 DEF UpToDate
  <2> QED
    BY <1>1, <1>2, <2>1, <2>2, BoundsAssumption DEF Covers, Walking, AtRow, AtSession
<1>7. CASE CheckParser(p)
  <2>1. /\ pc[p] = "parser" /\ pc'[p] = "walk" /\ job'[p].listed = job[p].listed
        /\ job'[p].high = job[p].high /\ job'[p].source = job[p].source
        /\ job'[p].since \in {0, job[p].since}
        /\ job'[p].ahead = InSource(job[p].source)
    BY <1>1, <1>7 DEF CheckParser, Goto, Job
  <2>2. Covers(p)
    BY <2>1
  <2>3. ASSUME job'[p].since # None, NEW s \in InSource(job[p].source), 0 < mtime[s],
               mtime[s] <= job'[p].since
        PROVE  UpToDate(s)'
    <3>1. s \in Sessions /\ mtime[s] \in 0 .. MaxTime
      BY <1>1, <1>4
    <3>2. job'[p].since = job[p].since
      BY <2>1, <2>3, <3>1, BoundsAssumption
    <3> QED
      BY <1>3, <2>1, <2>2, <2>3, <3>1, <3>2 DEF Covers, Scanning, Labels
  <2> QED
    BY <1>2, <2>1, <2>2, <2>3 DEF Covers, AtRow, AtSession
<1>8. CASE Visit(p)
  <2>1. PICK s \in job[p].ahead :
            job' = [job EXCEPT ![p].ahead = @ \ {s},
                               ![p].listed[s] =
                                    IF mtime[s] > job[p].since THEN mtime[s] ELSE @]
    BY <1>8 DEF Visit
  <2>2. s \in InSource(job[p].source) /\ s \in Sessions /\ SourceOf[s] = job[p].source
        /\ pc[p] = "walk" /\ Covers(p) /\ pc' = pc
    BY <1>1, <1>8 DEF Visit, Covers, Job, InSource
  <2>3. /\ pc'[p] = "walk" /\ job'[p].source = job[p].source /\ job'[p].since = job[p].since
        /\ job'[p].high = job[p].high /\ job'[p].ahead = job[p].ahead \ {s}
        /\ job'[p].listed = [job[p].listed EXCEPT ![s] =
                                IF mtime[s] > job[p].since THEN mtime[s] ELSE @]
    BY <1>1, <2>1, <2>2 DEF Job
  <2>4. job[p].since \in 0 .. MaxTime /\ job[p].since # None
    BY <1>1, <2>2, NoneAssumption, BoundsAssumption DEF Ready, Walking, Scanning, Labels
  <2>5. ASSUME NEW t \in Sessions, job'[p].listed[t] # 0
        PROVE  job'[p].listed[t] = mtime[t] /\ SourceOf[t] = job[p].source
    BY <1>1, <2>2, <2>3, <2>5 DEF Covers
  <2>6. ASSUME NEW t \in InSource(job[p].source), 0 < mtime[t], mtime[t] <= job[p].since
        PROVE  UpToDate(t)'
    BY <1>3, <1>4, <2>2, <2>4, <2>6 DEF Covers, Scanning, Labels
  <2>7. ASSUME NEW t \in InSource(job[p].source), 0 < mtime[t]
        PROVE  job'[p].listed[t] # 0 \/ UpToDate(t)' \/ t \in job'[p].ahead
    <3>1. t \in Sessions /\ mtime[t] \in 0 .. MaxTime
      BY <1>1, <1>4
    <3>2. CASE t = s
      <4>1. CASE mtime[s] > job[p].since
        <5>1. job'[p].listed[s] = mtime[s]
          BY <1>1, <2>2, <2>3, <4>1
        <5> QED
          BY <2>7, <3>2, <5>1, <3>1
      <4>2. CASE ~ (mtime[s] > job[p].since)
        BY <2>4, <2>6, <2>7, <3>1, <3>2, <4>2, BoundsAssumption
      <4> QED
        BY <4>1, <4>2
    <3>3. CASE t # s
      <4>1. job[p].listed[t] # 0 \/ UpToDate(t) \/ t \in job[p].ahead
        BY <2>2, <2>7 DEF Covers, Walking, Scanning, Labels
      <4>2. job'[p].listed[t] = job[p].listed[t]
        BY <1>1, <2>3, <3>1, <3>3
      <4> QED
        BY <1>3, <2>3, <3>1, <3>3, <4>1, <4>2
    <3> QED
      BY <3>2, <3>3
  <2>8. job'[p].ahead \subseteq InSource(job[p].source) /\ job[p].high <= clock
    BY <2>2, <2>3 DEF Covers
  <2> QED
    BY <1>2, <2>3, <2>5, <2>6, <2>7, <2>8 DEF Covers, AtRow, AtSession
<1>9. CASE EndWalk(p)
  <2>1. pc[p] = "walk" /\ pc'[p] = "next" /\ job' = job /\ WalkIsOver(p) /\ Covers(p)
    BY <1>1, <1>9 DEF EndWalk, Goto
  <2>2. \A s \in InSource(job[p].source) :
            0 < mtime[s] => job[p].listed[s] # 0 \/ UpToDate(s)'
    BY <1>3, <1>4, <2>1, WalkCovers
  <2>3. job[p].since # None =>
            \A s \in InSource(job[p].source) :
                0 < mtime[s] /\ mtime[s] <= job[p].since => UpToDate(s)'
    BY <1>3, <1>4, <2>1 DEF Covers, Scanning, Labels
  <2>4. /\ \A s \in Sessions :
            job[p].listed[s] # 0 => job[p].listed[s] = mtime[s] /\ SourceOf[s] = job[p].source
        /\ job[p].high <= clock
    BY <2>1 DEF Covers
  <2> QED
    BY <1>2, <2>1, <2>2, <2>3, <2>4 DEF Covers, AtRow, AtSession
<1>10. CASE NextSession(p)
  <2>1. PICK s \in Sessions :
            s = Newest(p) /\ job[p].listed[s] # 0 /\ job[p].listed[s] \in 1 .. MaxTime
    BY <1>10, NewestListed DEF NextSession, RefreshInv
  <2>2. /\ pc[p] = "next" /\ pc'[p] \in {"stored", "upsert"} /\ Covers(p) /\ row' = row
        /\ job'[p].listed = job[p].listed /\ job'[p].source = job[p].source
        /\ job'[p].since = job[p].since /\ job'[p].session = s
        /\ job'[p].high = Max({job[p].high, job[p].listed[s]})
        /\ pc'[p] = "stored" => row[s] = Found(p, s)
    BY <1>1, <1>10, <2>1 DEF NextSession, Goto, Job, Unchanged, metadataVars
  <2>3. job[p].listed[s] = mtime[s] /\ mtime[s] <= clock /\ job[p].high <= clock
    BY <1>1, <2>2, <2>1 DEF Covers
  <2>4. job'[p].high <= clock
    <3>1. job[p].high \in Nat /\ job[p].listed[s] \in Nat
      BY <1>1, <2>1, BoundsAssumption DEF Job
    <3> QED
      BY <2>2, <2>3, <3>1, MaxOfTwo
  <2>5. pc'[p] \in AtRow => UpToDate(s)'
    <3> SUFFICES ASSUME pc'[p] = "stored" PROVE UpToDate(s)'
      BY <2>2 DEF AtRow, AtSession
    <3>1. row[s] = Found(p, s) /\ Found(p, s) \in Version
      BY <1>1, <2>2, <2>1, JobType DEF Found, Version, RefreshInv
    <3>2. row[s] # None /\ row[s].time = mtime[s]
      BY <2>3, <3>1, NoneAssumption DEF Found
    <3> QED
      BY <1>2, <2>2, <3>2 DEF UpToDate
  <2> QED
    BY <1>2, <1>3, <1>4, <2>2, <2>4, <2>5 DEF Covers, Scanning, Walking, Labels
<1>11. CASE UpsertRow(p)
  <2>1. PICK s : s = job[p].session
    OBVIOUS
  <2>2. /\ pc[p] = "upsert" /\ pc'[p] = "format" /\ job' = job /\ Covers(p)
        /\ row' = [row EXCEPT ![s] = Found(p, s)]
    BY <1>1, <1>11, <2>1 DEF UpsertRow, Goto
  <2>3. s \in Sessions /\ job[p].listed[s] # 0
    BY <1>1, <2>1, <2>2 DEF Ready, AtSession
  <2>4. UpToDate(s)'
    <3>1. Found(p, s) \in Version /\ job[p].listed[s] = mtime[s]
      BY <1>1, <2>2, <2>3, JobType, BoundsAssumption DEF Covers, Found, Version, RefreshInv
    <3>2. row'[s] # None /\ row'[s].time = mtime[s]
      BY <1>1, <2>2, <2>3, <3>1, NoneAssumption DEF Found
    <3> QED
      BY <1>2, <3>2 DEF UpToDate
  <2> QED
    BY <1>2, <1>3, <1>4, <2>1, <2>2, <2>4 DEF Covers, Scanning, Walking, Labels
<1>12. CASE UseStored(p) \/ Format(p) \/ PutChunks(p)
  <2>1. /\ pc[p] \in AtRow /\ pc'[p] \in AtRow /\ Covers(p)
        /\ job'[p].listed = job[p].listed /\ job'[p].source = job[p].source
        /\ job'[p].since = job[p].since /\ job'[p].session = job[p].session
        /\ job'[p].high = job[p].high
    BY <1>1, <1>12 DEF UseStored, Format, PutChunks, Goto, Job, AtRow, AtSession
  <2>2. job[p].session \in Sessions /\ UpToDate(job[p].session)
    BY <1>1, <2>1 DEF Ready, AtRow, Covers
  <2>3. pc[p] \in Walking /\ pc[p] # "walk" /\ pc[p] \in Scanning
        /\ pc'[p] # "walk"
    BY <2>1 DEF AtRow, AtSession, Walking, Scanning, Labels
  <2> QED
    BY <1>2, <1>3, <1>4, <2>1, <2>2, <2>3 DEF Covers
<1>13. CASE Emit(p)
  <2> DEFINE s == job[p].session
  <2>1. /\ pc[p] = "emit" /\ pc'[p] = "next" /\ Covers(p)
        /\ job'[p].listed = [job[p].listed EXCEPT ![s] = 0]
        /\ job'[p].source = job[p].source /\ job'[p].since = job[p].since
        /\ job'[p].high = job[p].high
    BY <1>1, <1>13 DEF Emit, Goto, Job
  <2>2. s \in Sessions /\ UpToDate(s)
    BY <1>1, <2>1 DEF Ready, AtSession, AtRow, Covers
  <2>3. \A t \in Sessions : job'[p].listed[t] = IF t = s THEN 0 ELSE job[p].listed[t]
    BY <1>1, <2>1
  <2>4. ASSUME NEW t \in InSource(job[p].source), 0 < mtime[t]
        PROVE  job'[p].listed[t] # 0 \/ UpToDate(t)'
    <3>1. job[p].listed[t] # 0 \/ UpToDate(t)
      BY <2>1, <2>4 DEF Covers, Walking, Scanning, Labels
    <3> QED
      BY <1>3, <1>4, <2>2, <2>3, <3>1
  <2>5. job[p].since # None =>
            \A t \in InSource(job[p].source) :
                0 < mtime[t] /\ mtime[t] <= job[p].since => UpToDate(t)'
    BY <1>3, <1>4, <2>1 DEF Covers, Scanning, Labels
  <2>6. /\ \A t \in Sessions :
            job'[p].listed[t] # 0 => job'[p].listed[t] = mtime[t] /\ SourceOf[t] = job[p].source
        /\ job[p].high <= clock
    BY <2>1, <2>3 DEF Covers
  <2> QED
    BY <1>2, <2>1, <2>4, <2>5, <2>6 DEF Covers, AtRow, AtSession
<1>14. CASE FinishScan(p)
  <2>1. /\ pc[p] = "next" /\ pc'[p] = "profile" /\ Covers(p) /\ Listed(p) = {}
        /\ job'[p].listed = job[p].listed /\ job'[p].high = job[p].high
        /\ job'[p].source = job[p].source
    BY <1>1, <1>14 DEF FinishScan, Goto, Job
  <2> QED
    BY <1>2, <2>1 DEF Covers, Scanning, Walking, AtRow, AtSession
<1>15. CASE Done(p)
  BY <1>1, <1>15 DEF Done, Goto
<1> QED
  BY <1>5, <1>6, <1>7, <1>8, <1>9, <1>10, <1>11, <1>12, <1>13, <1>14, <1>15 DEF Step

(***************************************************************************)
(* When agents write between refreshes and no source holds more sessions   *)
(* than a walk lists, a file at or below its source's watermark has a row  *)
(* of exactly its mtime, whatever builds refresh at the same time and      *)
(* wherever refreshes fail: skip_by_mtime leaves out nothing that is not   *)
(* indexed.                                                                *)
(***************************************************************************)
THEOREM MarkIsIndexed ==
    ASSUME SteadySources
    PROVE  Spec => []WatermarkCovers
<1>1. Init => CoverInv
  BY SourcesAssumption DEF Init, CoverInv, WatermarkCovers
<1>2. ASSUME RefreshInv, CoverInv, [Next]_vars PROVE CoverInv'
  <2> DEFINE MarksPast == \A n \in Sources : watermark[n] # None => watermark[n] <= clock
  <2>1. ASSUME NEW s \in Sessions, Write(s) PROVE CoverInv'
    <3>1. /\ \A p \in Procs : pc'[p] = "idle"
          /\ clock' = clock + 1 /\ mtime' = [mtime EXCEPT ![s] = clock + 1]
          /\ row' = row /\ watermark' = watermark
      BY <2>1 DEF Write, SteadySources, Quiet, metadataVars
    <3>2. /\ clock \in Nat /\ mtime \in [Sessions -> 0 .. MaxTime]
          /\ watermark \in [Sources -> (0 .. MaxTime) \cup {None}]
      BY <1>2, BoundsAssumption DEF RefreshInv, Typed
    <3>3. \A n \in Sources : watermark[n] # None => watermark[n] \in Nat /\ watermark[n] <= clock
      BY <1>2, <3>2, BoundsAssumption DEF CoverInv
    <3>4. WatermarkCovers'
      <4> SUFFICES ASSUME NEW t \in Sessions, watermark[SourceOf[t]] # None, 0 < mtime'[t],
                          mtime'[t] <= watermark[SourceOf[t]]
                   PROVE  row[t] # None /\ row[t].time = mtime'[t]
        BY <3>1 DEF WatermarkCovers
      <4>1. SourceOf[t] \in Sources
        BY SourcesAssumption
      <4>2. t # s
        BY <3>1, <3>2, <3>3, <4>1
      <4>3. mtime'[t] = mtime[t]
        BY <3>1, <3>2, <4>2
      <4> QED
        BY <1>2, <4>3 DEF CoverInv, WatermarkCovers
    <3>5. MarksPast'
      BY <3>1, <3>2, <3>3
    <3> QED
      BY <3>1, <3>4, <3>5 DEF CoverInv
  <2>2. ASSUME NEW p \in Procs, Begin(p) \/ Step(p) \/ Fail(p) PROVE CoverInv'
    <3>1. /\ mtime' = mtime /\ clock' = clock
          /\ watermark' = watermark \/ FinishScan(p)
          /\ \A q \in Procs \ {p} : pc'[q] = pc[q] /\ job'[q] = job[q]
      BY <1>2, <2>2
         DEF Begin, Step, Fail, BeginScan, CheckParser, Visit, EndWalk, NextSession, UpsertRow,
             UseStored, Format, PutChunks, Emit, FinishScan, Done, Goto, nativeVars,
             metadataVars, RefreshInv, Typed
    <3>2. \A s \in Sessions : UpToDate(s) => UpToDate(s)'
      BY <1>2, <2>2, UpToDateStays DEF CoverInv
    <3>3. ASSUME NEW q \in Procs, pc'[q] # "idle" PROVE Covers(q)'
      <4>1. CASE q # p
        BY <1>2, <3>1, <3>2, <3>3, <4>1, CoversFrame DEF CoverInv
      <4>2. CASE q = p /\ ~ Fail(p)
        BY <1>2, <2>2, <3>3, <4>2, CoversStep DEF CoverInv
      <4>3. CASE q = p /\ Fail(p)
        BY <1>2, <3>3, <4>3 DEF Fail, Goto, RefreshInv, Typed
      <4> QED
        BY <4>1, <4>2, <4>3
    <3>4. (WatermarkCovers /\ MarksPast)'
      <4>1. CASE watermark' = watermark
        <5>1. MarksPast'
          BY <1>2, <3>1, <4>1 DEF CoverInv
        <5>2. WatermarkCovers'
          BY <1>2, <3>1, <3>2, <4>1 DEF CoverInv, WatermarkCovers, UpToDate
        <5> QED
          BY <5>1, <5>2
      <4>2. CASE FinishScan(p)
        <5> DEFINE n == job[p].source
        <5>1. /\ pc[p] = "next" /\ Listed(p) = {} /\ row' = row
              /\ watermark' = [watermark EXCEPT ![n] = MarkAfter(@, job[p].high)]
          BY <4>2 DEF FinishScan
        <5>2. Covers(p) /\ n \in Sources /\ watermark \in [Sources -> (0 .. MaxTime) \cup {None}]
          BY <1>2, <5>1 DEF CoverInv, RefreshInv, Ready, Typed, Scanning, Labels
        <5>3. MarksPast'
          <6>1. /\ job[p].high <= clock /\ clock \in Nat
                /\ watermark[n] # None => watermark[n] <= clock
            BY <1>2, <5>2, BoundsAssumption DEF Covers, CoverInv, RefreshInv, Typed
          <6>2. MarkAfter(watermark[n], job[p].high) <= clock
            BY <6>1 DEF MarkAfter
          <6> QED
            BY <1>2, <3>1, <5>1, <5>2, <6>2 DEF CoverInv
        <5>4. ASSUME NEW s \in Sessions, SourceOf[s] = n, 0 < mtime[s] PROVE UpToDate(s)
          <6>1. s \in InSource(n) /\ job[p].listed[s] = 0
            BY <5>1, <5>4 DEF InSource, Listed
          <6> QED
            BY <5>1, <5>2, <5>4, <6>1 DEF Covers, Walking, Scanning, Labels
        <5>5. WatermarkCovers'
          <6> SUFFICES ASSUME NEW s \in Sessions, watermark'[SourceOf[s]] # None, 0 < mtime[s],
                              mtime[s] <= watermark'[SourceOf[s]]
                       PROVE  row[s] # None /\ row[s].time = mtime[s]
            BY <3>1, <5>1 DEF WatermarkCovers
          <6>1. CASE SourceOf[s] = n
            BY <5>4, <6>1 DEF UpToDate
          <6>2. CASE SourceOf[s] # n
            <7>1. watermark'[SourceOf[s]] = watermark[SourceOf[s]]
              BY <5>1, <5>2, <6>2, SourcesAssumption
            <7> QED
              BY <1>2, <7>1 DEF CoverInv, WatermarkCovers
          <6> QED
            BY <6>1, <6>2
        <5> QED
          BY <5>3, <5>5
      <4> QED
        BY <3>1, <4>1, <4>2
    <3> QED
      BY <3>3, <3>4 DEF CoverInv
  <2>3. CASE UNCHANGED vars
    <3>1. /\ UNCHANGED <<clock, mtime, row, watermark, pc, job>>
      BY <2>3 DEF vars, nativeVars, metadataVars
    <3> QED
      BY <1>2, <3>1 DEF CoverInv, WatermarkCovers, Covers, UpToDate
  <2> QED
    BY <1>2, <2>1, <2>2, <2>3 DEF Next
<1>3. CoverInv => WatermarkCovers
  BY DEF CoverInv
<1> QED
  BY <1>1, <1>2, <1>3, RefreshInvariance, PTL DEF Spec

=============================================================================
