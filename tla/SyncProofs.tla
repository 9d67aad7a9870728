----------------------------- MODULE SyncProofs -----------------------------
(***************************************************************************)
(* Proofs about Sync for every set of machines, clients, repos, sessions   *)
(* and remotes, every page size and every number of faults: types, the     *)
(* refinement of Replicas, paging and, with one client per machine and     *)
(* repo, that pulls handle only new events and project before they store.  *)
(***************************************************************************)
EXTENDS Sync, FiniteSetTheorems, WellFoundedInduction, TLAPS

-----------------------------------------------------------------------------
(* Operators. *)

\* A nonempty set of naturals has a least element.
LEMMA LeastElement ==
    ASSUME NEW S \in SUBSET Nat, S # {}
    PROVE  \E x \in S : \A y \in S : x <= y
<1> DEFINE Less == {ss \in Nat \X Nat : ss[1] < ss[2]}
<1>1. Less = OpToRel(<, Nat)
  BY Zenon DEF OpToRel
<1>2. IsWellFoundedOn(Less, Nat)
  BY <1>1, NatLessThanWellFounded, Zenon
<1> HIDE DEF Less
<1>3. PICK x \in S : \A y \in S : ~ (<<y, x>> \in Less)
  BY <1>2, WFMin, Zenon
<1>4. ASSUME NEW y \in S PROVE x <= y
  <2>1. ~ (y < x)
    <3>1. y < x => <<y, x>> \in Less
      BY SMT DEF Less
    <3> QED
      BY <1>3, <3>1
  <2> QED
    BY <2>1
<1> QED
  BY <1>4

\* A nonempty set of naturals with an upper bound contains its maximum.
LEMMA MaxInSet ==
    ASSUME NEW n \in Nat, NEW S \in SUBSET (0 .. n), S # {}
    PROVE  Max(S) \in S /\ \A y \in S : y <= Max(S)
<1> DEFINE T == {n - x : x \in S}
<1>1. T \in SUBSET Nat /\ T # {}
  <2>1. \A x \in S : n - x \in Nat
    OBVIOUS
  <2>2. PICK x \in S : TRUE
    OBVIOUS
  <2>3. n - x \in T
    OBVIOUS
  <2> QED
    BY <2>1, <2>3
<1>2. PICK t \in T : \A y \in T : t <= y
  BY <1>1, LeastElement
<1>3. PICK x \in S : t = n - x
  OBVIOUS
<1>4. ASSUME NEW y \in S PROVE x >= y
  <2>1. n - y \in T
    OBVIOUS
  <2>2. n - x <= n - y
    BY <2>1, <1>2, <1>3
  <2>3. x \in 0 .. n /\ y \in 0 .. n
    OBVIOUS
  <2> QED
    BY <2>2, <2>3
<1> QED
  BY <1>4 DEF Max

\* The first of some items is one of them, and none comes before it.
LEMMA FirstItem ==
    ASSUME NEW T \in SUBSET Item, T # {}
    PROVE  First(T) \in T /\ \A y \in T : First(T).pos <= y.pos
<1> DEFINE S == {x.pos : x \in T}
<1>1. S \in SUBSET Nat /\ S # {}
  BY DEF Item
<1>2. PICK p \in S : \A q \in S : p <= q
  BY <1>1, LeastElement
<1>3. PICK x \in T : x.pos = p
  OBVIOUS
<1>4. \A y \in T : x.pos <= y.pos
  BY <1>2, <1>3
<1> QED
  BY <1>4 DEF First

\* A page is nonempty when there is anything to list.
LEMMA PageNonempty ==
    ASSUME TypeOK, NEW c \in Clients, Rest(c) # {}
    PROVE  Page(c) # {}
<1>1. Rest(c) \in SUBSET Nat
  BY DEF TypeOK, Rest, Matching
<1>2. PICK m \in Rest(c) : \A y \in Rest(c) : m <= y
  BY <1>1, LeastElement
<1>3. {j \in Rest(c) : j <= m} = {m}
  BY <1>1, <1>2
<1>4. Cardinality({m}) = 1
  BY FS_Singleton
<1>5. m \in Page(c)
  BY <1>3, <1>4, SizesAssumption DEF Page
<1> QED
  BY <1>5

\* A page lies in the log, and one that is not the last has a next cursor.
LEMMA PageFacts ==
    ASSUME TypeOK, NEW c \in Clients
    PROVE  /\ Page(c) \subseteq DOMAIN log
           /\ DOMAIN log = 1 .. Len(log) /\ Len(log) \in Nat
           /\ Rest(c) # Page(c) => NextCursor(c) \in Nat
<1>1. DOMAIN log = 1 .. Len(log) /\ Len(log) \in Nat
  BY DEF TypeOK
<1>2. Rest(c) \subseteq DOMAIN log /\ Page(c) \subseteq Rest(c)
  BY DEF Rest, Page, Matching
<1>3. ASSUME Rest(c) # {} PROVE Page(c) # {}
  BY <1>3, PageNonempty
<1>4. ASSUME Rest(c) # Page(c) PROVE NextCursor(c) \in Nat
  <2>1. Page(c) # {}
    BY <1>2, <1>3, <1>4
  <2>2. Page(c) \in SUBSET (0 .. Len(log))
    BY <1>1, <1>2
  <2>3. Max(Page(c)) \in Page(c)
    BY <1>1, <2>1, <2>2, MaxInSet
  <2> QED
    BY <2>2, <2>3 DEF NextCursor
<1> QED
  BY <1>1, <1>2, <1>4

-----------------------------------------------------------------------------
(* The inductive invariant. *)

\* Where a client's todo is a push's.
Pushing == {"post", "append", "insert", "chunks"}

\* What a client pushes its machine holds, what it has pulled is at the
\* remote, and a client that is about to handle an item has one.
Provenance(c) ==
    /\ pc[c] \in Pushing => \A x \in job[c].todo : local[MachineOf[c]][x.id] # Absent
    /\ pc[c] \notin Pushing => \A x \in job[c].pulled : x.id \in LoggedIds
    /\ pc[c] \in {"chunks", "ingestChunks"} => job[c].todo # {}

SyncInv == TypeOK /\ \A c \in Clients : Provenance(c)

\* An idle client's locals are well typed.
LEMMA NoJobType == NoJob \in Job
BY SizesAssumption DEF NoJob, Job

\* What the types say of one client.
LEMMA JobType ==
    ASSUME TypeOK, NEW c \in Clients
    PROVE  /\ job[c] \in Job
           /\ job[c].todo \in SUBSET Item
           /\ job[c].pulled \in SUBSET Item
           /\ pc[c] \in Labels
           /\ MachineOf[c] \in Machines
BY ClientsAssumption DEF TypeOK, Job

\* What the types say of one line of the log.
LEMMA LogItems ==
    ASSUME TypeOK, NEW i \in DOMAIN log
    PROVE  /\ log[i] \in Entry
           /\ i \in Nat
           /\ log[i].id.at \in Nat
           /\ log[i].id \in LoggedIds
<1>1. i \in 1 .. Len(log) /\ log[i] \in Entry
  BY DEF TypeOK
<1>2. log[i].id \in LoggedIds
  BY DEF LoggedIds
<1> QED
  BY <1>1, <1>2, SizesAssumption DEF Entry, Id

\* The invariant holds initially.
LEMMA InitInv == Init => SyncInv
<1> SUFFICES ASSUME Init PROVE SyncInv
  OBVIOUS
<1>1. TypeOK
  <2>1. /\ backend \in Backends /\ clock \in 0 .. MaxTime
        /\ log \in Seq(Entry)
        /\ faults \in 0 .. MaxFaults
    BY SizesAssumption DEF Init
  <2>2. local \in [Machines -> [Id -> (0 .. Parts) \cup {Absent}]]
    BY DEF Init
  <2>3. /\ row \in [Machines -> [Sessions -> 0 .. MaxTime]]
        /\ transcript \in [Machines -> [Sessions -> 0 .. MaxTime]]
    BY SizesAssumption DEF Init
  <2>4. pc \in [Clients -> Labels] /\ job \in [Clients -> Job]
    BY NoJobType DEF Init, Labels
  <2> QED
    BY <2>1, <2>2, <2>3, <2>4 DEF TypeOK
<1>2. ASSUME NEW c \in Clients PROVE Provenance(c)
  BY DEF Init, Provenance, NoJob, Pushing
<1> QED
  BY <1>1, <1>2 DEF SyncInv

-----------------------------------------------------------------------------
(* Types. *)

\* A step of Sync preserves the types.
LEMMA TypeStep ==
    ASSUME SyncInv, Next
    PROVE  TypeOK'
<1> USE DEF SyncInv
<1>1. ASSUME NEW s \in Sessions, Record(s) PROVE TypeOK'
  <2> DEFINE now == clock + 1
             id == [session |-> s, at |-> now]
  <2>1. now \in 1 .. MaxTime /\ id \in Id /\ OwnerOf[s] \in Machines
    BY <1>1, SizesAssumption, ClientsAssumption DEF Record, TypeOK, Id
  <2>2. local' \in [Machines -> [Id -> (0 .. Parts) \cup {Absent}]]
    BY <1>1, <2>1, SizesAssumption DEF Record, TypeOK
  <2>3. /\ row' \in [Machines -> [Sessions -> 0 .. MaxTime]]
        /\ transcript' \in [Machines -> [Sessions -> 0 .. MaxTime]]
        /\ clock' \in 0 .. MaxTime
    BY <1>1, <2>1, SizesAssumption DEF Record, TypeOK
  <2> QED
    BY <1>1, <2>2, <2>3 DEF Record, TypeOK
<1>2. ASSUME NEW c \in Clients, NEW r \in Targets(c), BeginPush(c, r) PROVE TypeOK'
  <2>1. Collected(c, r) \in SUBSET Item
    <3>1. ASSUME NEW id \in HeldOf(MachineOf[c], r)
          PROVE  [pos |-> id.at, id |-> id, parts |-> local[MachineOf[c]][id]] \in Item
      <4>1. id \in Id /\ local[MachineOf[c]][id] # Absent /\ id.at \in Nat
        BY SizesAssumption DEF HeldOf, Id
      <4>2. local[MachineOf[c]][id] \in 0 .. Parts
        BY <4>1, JobType DEF TypeOK
      <4> QED
        BY <4>1, <4>2 DEF Item
    <3> QED
      BY <3>1 DEF Collected
  <2>2. [NoJob EXCEPT !.todo = Collected(c, r)] \in Job
    BY <2>1, NoJobType DEF Job
  <2> QED
    BY <1>2, <2>2 DEF BeginPush, Goto, TypeOK, Labels, machineVars
<1>3. ASSUME NEW c \in Clients, Receive(c) PROVE TypeOK'
  <2>1. LoggedIds \in SUBSET Id
    BY LogItems DEF LoggedIds, Entry
  <2>2. [job[c] EXCEPT !.existing = LoggedIds] \in Job
    BY <2>1, JobType DEF Job
  <2> QED
    BY <1>3, <2>2 DEF Receive, Goto, TypeOK, Labels, machineVars
<1>4. ASSUME NEW c \in Clients, Append1(c) PROVE TypeOK'
  <2>1. First(job[c].todo) \in Item
    BY <1>4, JobType, FirstItem DEF Append1
  <2>2. job' \in [Clients -> Job]
    BY <1>4, JobType DEF Append1, Job, TypeOK
  <2>3. log' \in Seq(Entry)
    <3>1. [id |-> First(job[c].todo).id, parts |-> First(job[c].todo).parts] \in Entry
      BY <2>1 DEF Item, Entry
    <3> QED
      BY <1>4, <3>1 DEF Append1, TypeOK
  <2> QED
    BY <1>4, <2>2, <2>3 DEF Append1, TypeOK, machineVars
<1>5. ASSUME NEW c \in Clients, InsertEvent(c) PROVE TypeOK'
  <2>1. First(job[c].todo) \in Item
    BY <1>5, JobType, FirstItem DEF InsertEvent
  <2>2. log' \in Seq(Entry)
    <3>1. [id |-> First(job[c].todo).id, parts |-> 0] \in Entry
      BY <2>1, SizesAssumption DEF Item, Entry
    <3> QED
      BY <1>5, <3>1 DEF InsertEvent, TypeOK
  <2> QED
    BY <1>5, <2>2 DEF InsertEvent, Goto, TypeOK, Labels, machineVars
<1>6. ASSUME NEW c \in Clients, InsertChunks(c) PROVE TypeOK'
  <2> DEFINE e == First(job[c].todo)
             sent == job[c].sent
  <2>1. e \in Item
    BY <1>6, JobType, FirstItem DEF InsertChunks, Provenance
  <2>2. sent + 1 \in 0 .. Parts
    BY <1>6, <2>1, JobType, SizesAssumption DEF InsertChunks, Item, Job
  <2>3. job' \in [Clients -> Job]
    BY <1>6, <2>2, JobType DEF InsertChunks, Job, TypeOK
  <2>4. ASSUME NEW i \in DOMAIN log
        PROVE  [log[i] EXCEPT !.parts = Max({@, sent + 1})] \in Entry
    <3>1. {log[i].parts, sent + 1} \in SUBSET (0 .. Parts)
      BY <2>2, LogItems DEF Entry
    <3>2. Max({log[i].parts, sent + 1}) \in 0 .. Parts
      BY <3>1, MaxInSet, SizesAssumption
    <3> QED
      BY <3>2, LogItems DEF Entry
  <2>5. log' \in [DOMAIN log -> Entry]
    BY <1>6, <2>4, LogItems DEF InsertChunks
  <2>6. log' \in Seq(Entry)
    BY <2>5 DEF TypeOK
  <2> QED
    BY <1>6, <2>3, <2>6 DEF InsertChunks, TypeOK, machineVars
<1>7. ASSUME NEW c \in Clients, EndChunks(c) PROVE TypeOK'
  <2> DEFINE next == [job[c] EXCEPT !.todo = @ \ {First(job[c].todo)}, !.sent = 0]
  <2>1. job[c].todo \ {First(job[c].todo)} \in SUBSET Item /\ 0 \in 0 .. Parts
    BY JobType, SizesAssumption
  <2>2. next \in Job
    BY <2>1, JobType DEF Job
  <2>3. job' = [job EXCEPT ![c] = next]
    BY <1>7 DEF EndChunks, TypeOK
  <2> HIDE DEF next
  <2>4. job' \in [Clients -> Job]
    BY <2>2, <2>3 DEF TypeOK
  <2> QED
    BY <1>7, <2>4 DEF EndChunks, Goto, TypeOK, Labels, machineVars
<1>8. ASSUME NEW c \in Clients, EndPush(c) \/ EndPull(c) \/ Fail(c) PROVE TypeOK'
  <2>1. Finish(c) /\ UNCHANGED <<backend, clock, log, machineVars>>
    BY <1>8 DEF EndPush, EndPull, Fail, machineVars
  <2>2. faults' \in 0 .. MaxFaults
    BY <1>8, SizesAssumption DEF EndPush, EndPull, Fail, TypeOK
  <2> QED
    BY <2>1, <2>2, NoJobType DEF Finish, Goto, TypeOK, Labels, machineVars
<1>9. ASSUME NEW c \in Clients, BeginPull(c) PROVE TypeOK'
  BY <1>9, NoJobType DEF BeginPull, Goto, TypeOK, Labels, machineVars
<1>10. ASSUME NEW c \in Clients, FetchPage(c) PROVE TypeOK'
  <2> DEFINE items == {[pos |-> i, id |-> log[i].id, parts |-> log[i].parts] : i \in Page(c)}
  <2>1. items \in SUBSET Item
    BY LogItems, PageFacts DEF Item, Entry
  <2>2. (IF Page(c) # Rest(c) THEN NextCursor(c) ELSE job[c].cursor) \in Nat
    BY PageFacts, JobType DEF Job
  <2> HIDE DEF items
  <2>3. job' \in [Clients -> Job]
    BY <1>10, <2>1, <2>2, JobType DEF FetchPage, Job, TypeOK, items
  <2> QED
    BY <1>10, <2>3 DEF FetchPage, Goto, TypeOK, Labels, machineVars
<1>11. ASSUME NEW c \in Clients, FetchEvents(c) PROVE TypeOK'
  <2>1. {[pos |-> log[i].id.at, id |-> log[i].id, parts |-> 0] : i \in Matching(c)}
            \in SUBSET Item
    BY LogItems, SizesAssumption DEF Item, Entry, Matching
  <2>2. job' \in [Clients -> Job]
    BY <1>11, <2>1, JobType DEF FetchEvents, Job, TypeOK
  <2> QED
    BY <1>11, <2>2 DEF FetchEvents, Goto, TypeOK, Labels, machineVars
<1>12. ASSUME NEW c \in Clients, FetchChunks(c) PROVE TypeOK'
  <2> DEFINE got == {[pos |-> log[i].id.at, id |-> log[i].id, parts |-> log[i].parts] :
                        i \in {j \in DOMAIN log : \E x \in job[c].pulled : x.id = log[j].id}}
  <2>1. got \in SUBSET Item
    BY LogItems DEF Item, Entry
  <2>2. job' = [job EXCEPT ![c].pulled = got]
    BY <1>12, JobType DEF FetchChunks
  <2> HIDE DEF got
  <2>3. job' \in [Clients -> Job]
    BY <2>1, <2>2, JobType DEF Job, TypeOK
  <2> QED
    BY <1>12, <2>3 DEF FetchChunks, Goto, TypeOK, Labels, machineVars
<1>13. ASSUME NEW c \in Clients, Dedupe(c) PROVE TypeOK'
  <2>1. PICK new \in SUBSET job[c].pulled :
            job' = [job EXCEPT ![c] = [NoJob EXCEPT !.todo = new, !.pulled = new]]
    BY <1>13 DEF Dedupe
  <2>2. [NoJob EXCEPT !.todo = new, !.pulled = new] \in Job
    BY <2>1, NoJobType, JobType DEF Job
  <2> QED
    BY <1>13, <2>1, <2>2 DEF Dedupe, Goto, TypeOK, Labels, machineVars
<1>14. ASSUME NEW c \in Clients, IngestRow(c) \/ IngestChunks(c) PROVE TypeOK'
  <2> DEFINE e == First(job[c].todo)
  <2>1. e \in Item
    BY <1>14, JobType, FirstItem DEF IngestRow, IngestChunks, Provenance
  <2>2. e.id.at \in 0 .. MaxTime /\ e.id.session \in Sessions
    BY <2>1, SizesAssumption DEF Item, Id
  <2>3. /\ row' \in [Machines -> [Sessions -> 0 .. MaxTime]]
        /\ transcript' \in [Machines -> [Sessions -> 0 .. MaxTime]]
    <3>1. CASE IngestRow(c)
      BY <3>1, <2>2, JobType DEF IngestRow, TypeOK
    <3>2. CASE IngestChunks(c)
      BY <3>2, <2>2, JobType DEF IngestChunks, TypeOK
    <3> QED
      BY <1>14, <3>1, <3>2
  <2>4. job' \in [Clients -> Job]
    <3>1. job' = job \/ job' = [job EXCEPT ![c].todo = @ \ {e}]
      BY <1>14 DEF IngestRow, IngestChunks
    <3>2. [job[c] EXCEPT !.todo = @ \ {e}] \in Job
      BY JobType DEF Job
    <3> QED
      BY <3>1, <3>2 DEF TypeOK
  <2>5. pc' \in [Clients -> Labels]
    BY <1>14 DEF IngestRow, IngestChunks, Goto, Labels, TypeOK
  <2> QED
    BY <1>14, <2>3, <2>4, <2>5 DEF IngestRow, IngestChunks, TypeOK
<1>15. ASSUME NEW c \in Clients, EndIngest(c) PROVE TypeOK'
  BY <1>15 DEF EndIngest, Goto, TypeOK, Labels, machineVars
<1>16. ASSUME NEW c \in Clients, Store(c) PROVE TypeOK'
  <2> DEFINE e == First(job[c].pulled)
  <2>1. e \in Item
    BY <1>16, JobType, FirstItem DEF Store
  <2>2. local' \in [Machines -> [Id -> (0 .. Parts) \cup {Absent}]]
    BY <1>16, <2>1, JobType DEF Store, TypeOK, Item
  <2>3. job' \in [Clients -> Job]
    BY <1>16, JobType DEF Store, Job, TypeOK
  <2> QED
    BY <1>16, <2>2, <2>3 DEF Store, TypeOK
<1> QED
  BY <1>1, <1>2, <1>3, <1>4, <1>5, <1>6, <1>7, <1>8, <1>9, <1>10, <1>11, <1>12, <1>13,
     <1>14, <1>15, <1>16 DEF Next, Step

-----------------------------------------------------------------------------
(* What a step does to the remote and to the machines. *)

\* Appending an entry adds its id.
LEMMA AppendedIds ==
    ASSUME log \in Seq(Entry), NEW r \in Entry, log' = Append(log, r)
    PROVE  LoggedIds' = LoggedIds \cup {r.id}
<1> DEFINE n == Len(log)
<1>1. n \in Nat /\ DOMAIN log = 1 .. n /\ DOMAIN log' = 1 .. n + 1
  OBVIOUS
<1>2. (\A i \in 1 .. n : log'[i] = log[i]) /\ log'[n + 1] = r
  OBVIOUS
<1>3. 1 .. n + 1 = (1 .. n) \cup {n + 1}
  BY <1>1
<1>4. LoggedIds' = {log'[i].id : i \in (1 .. n) \cup {n + 1}}
  BY <1>1, <1>3 DEF LoggedIds
<1>5. LoggedIds = {log[i].id : i \in 1 .. n}
  BY <1>1 DEF LoggedIds
<1> QED
  BY <1>2, <1>4, <1>5

\* The remote changes only by a push, which adds an event its machine holds.
RemoteStep ==
    \/ LoggedIds' = LoggedIds
    \/ \E m \in Machines, id \in Id :
        /\ local[m][id] # Absent
        /\ LoggedIds' = LoggedIds \cup {id}
        /\ local' = local

\* A machine's events change only by recording one or by storing one that
\* the remote has.
LocalStep ==
    \/ local' = local
    \/ \E id \in Id, k \in 0 .. Parts :
        /\ local' = [local EXCEPT ![OwnerOf[id.session]][id] = k]
        /\ LoggedIds' = LoggedIds
    \/ \E m \in Machines, id \in Id \cap LoggedIds, k \in 0 .. Parts :
        /\ local' = [local EXCEPT ![m][id] = k]
        /\ LoggedIds' = LoggedIds

\* Every step is of these kinds: sync only copies.
LEMMA CopySteps ==
    ASSUME SyncInv, Next
    PROVE  RemoteStep /\ LocalStep
<1> USE DEF SyncInv
<1>1. ASSUME NEW s \in Sessions, Record(s) PROVE RemoteStep /\ LocalStep
  <2> DEFINE id == [session |-> s, at |-> clock + 1]
  <2>1. id \in Id /\ Parts \in 0 .. Parts /\ id.session = s
    BY <1>1, SizesAssumption DEF Record, TypeOK, Id
  <2>2. local' = [local EXCEPT ![OwnerOf[id.session]][id] = Parts]
    BY <1>1, <2>1 DEF Record
  <2>3. LoggedIds' = LoggedIds
    BY <1>1 DEF Record, LoggedIds
  <2> HIDE DEF id
  <2> QED
    BY <2>1, <2>2, <2>3 DEF RemoteStep, LocalStep
<1>2. ASSUME NEW c \in Clients, Append1(c) PROVE RemoteStep /\ LocalStep
  <2> DEFINE e == First(job[c].todo)
  <2>1. e \in job[c].todo /\ e \in Item
    BY <1>2, JobType, FirstItem DEF Append1
  <2>2. local[MachineOf[c]][e.id] # Absent
    BY <1>2, <2>1 DEF Append1, Provenance, Pushing
  <2>3. local' = local
    BY <1>2 DEF Append1, machineVars
  <2>4. CASE e.id \in job[c].existing
    BY <1>2, <2>3, <2>4 DEF Append1, RemoteStep, LocalStep, LoggedIds
  <2>5. CASE e.id \notin job[c].existing
    <3>1. [id |-> e.id, parts |-> e.parts] \in Entry
      BY <2>1 DEF Item, Entry
    <3>2. LoggedIds' = LoggedIds \cup {e.id}
      BY <1>2, <2>5, <3>1, AppendedIds DEF Append1, TypeOK
    <3> QED
      BY <2>1, <2>2, <2>3, <3>2, JobType DEF Item, RemoteStep, LocalStep
  <2> QED
    BY <2>4, <2>5
<1>3. ASSUME NEW c \in Clients, InsertEvent(c) PROVE RemoteStep /\ LocalStep
  <2> DEFINE e == First(job[c].todo)
  <2>1. e \in job[c].todo /\ e \in Item
    BY <1>3, JobType, FirstItem DEF InsertEvent
  <2>2. local[MachineOf[c]][e.id] # Absent
    BY <1>3, <2>1 DEF InsertEvent, Provenance, Pushing
  <2>3. local' = local
    BY <1>3 DEF InsertEvent, machineVars
  <2>4. CASE e.id \in LoggedIds
    BY <1>3, <2>3, <2>4 DEF InsertEvent, RemoteStep, LocalStep, LoggedIds
  <2>5. CASE e.id \notin LoggedIds
    <3>1. [id |-> e.id, parts |-> 0] \in Entry
      BY <2>1, SizesAssumption DEF Item, Entry
    <3>2. LoggedIds' = LoggedIds \cup {e.id}
      BY <1>3, <2>5, <3>1, AppendedIds DEF InsertEvent, TypeOK
    <3> QED
      BY <2>1, <2>2, <2>3, <3>2, JobType DEF Item, RemoteStep, LocalStep
  <2> QED
    BY <2>4, <2>5
<1>4. ASSUME NEW c \in Clients, InsertChunks(c) PROVE RemoteStep /\ LocalStep
  <2>1. DOMAIN log' = DOMAIN log
    BY <1>4 DEF InsertChunks
  <2>2. ASSUME NEW i \in DOMAIN log PROVE log'[i].id = log[i].id
    BY <1>4, LogItems DEF InsertChunks, Entry
  <2>3. LoggedIds' = LoggedIds
    BY <2>1, <2>2 DEF LoggedIds
  <2> QED
    BY <1>4, <2>3 DEF InsertChunks, machineVars, RemoteStep, LocalStep
<1>5. ASSUME NEW c \in Clients, Store(c) PROVE RemoteStep /\ LocalStep
  <2> DEFINE e == First(job[c].pulled)
  <2>1. e \in job[c].pulled /\ e \in Item
    BY <1>5, JobType, FirstItem DEF Store
  <2>2. e.id \in Id \cap LoggedIds /\ e.parts \in 0 .. Parts
    BY <1>5, <2>1 DEF Store, Provenance, Pushing, Item
  <2>3. LoggedIds' = LoggedIds
    BY <1>5 DEF Store, LoggedIds
  <2>4. local' = [local EXCEPT ![MachineOf[c]][e.id] = e.parts]
    BY <1>5 DEF Store
  <2> HIDE DEF e
  <2> QED
    BY <2>2, <2>3, <2>4, JobType DEF RemoteStep, LocalStep
<1>6. ASSUME UNCHANGED <<log, local>> PROVE RemoteStep /\ LocalStep
  BY <1>6 DEF RemoteStep, LocalStep, LoggedIds
<1>7. ASSUME NEW c \in Clients,
             \/ \E r \in Targets(c) : BeginPush(c, r)
             \/ Receive(c) \/ EndChunks(c) \/ EndPush(c) \/ BeginPull(c) \/ FetchPage(c)
             \/ FetchEvents(c) \/ FetchChunks(c) \/ Dedupe(c) \/ IngestRow(c)
             \/ IngestChunks(c) \/ EndIngest(c) \/ EndPull(c) \/ Fail(c)
      PROVE  UNCHANGED <<log, local>>
  BY <1>7 DEF BeginPush, Receive, EndChunks, EndPush, BeginPull, FetchPage, FetchEvents,
              FetchChunks, Dedupe, IngestRow, IngestChunks, EndIngest, EndPull, Fail,
              machineVars
<1> QED
  BY <1>1, <1>2, <1>3, <1>4, <1>5, <1>6, <1>7 DEF Next, Step

\* Nothing is lost, at the remote or on a machine.
LEMMA NothingLost ==
    ASSUME SyncInv, Next
    PROVE  /\ LoggedIds \subseteq LoggedIds'
           /\ \A m \in Machines, id \in Id : local[m][id] # Absent => local'[m][id] # Absent
<1>1. LoggedIds \subseteq LoggedIds'
  BY CopySteps DEF RemoteStep
<1>2. \A k \in 0 .. Parts : k # Absent
  BY AbsentAssumption
<1>3. \A id \in Id : OwnerOf[id.session] \in Machines
  BY ClientsAssumption DEF Id
<1>4. ASSUME NEW m \in Machines, NEW id \in Id, local[m][id] # Absent
      PROVE  local'[m][id] # Absent
  <2>1. local \in [Machines -> [Id -> (0 .. Parts) \cup {Absent}]]
    BY DEF SyncInv, TypeOK
  <2>2. CASE local' = local
    BY <1>4, <2>2
  <2>3. ASSUME NEW n \in Machines, NEW x \in Id, NEW k \in 0 .. Parts,
               local' = [local EXCEPT ![n][x] = k]
        PROVE  local'[m][id] # Absent
    BY <1>2, <1>4, <2>1, <2>3
  <2> QED
    BY <1>3, <2>2, <2>3, CopySteps DEF LocalStep
<1> QED
  BY <1>1, <1>4

-----------------------------------------------------------------------------
(* Provenance. *)

\* A client that does not move keeps its provenance, since nothing is lost.
LEMMA ProvenanceFrame ==
    ASSUME SyncInv, Next, NEW c \in Clients, pc'[c] = pc[c], job'[c] = job[c]
    PROVE  Provenance(c)'
<1>1. Provenance(c) /\ MachineOf[c] \in Machines
  BY JobType DEF SyncInv
<1>2. \A x \in job[c].todo : x.id \in Id
  BY JobType DEF SyncInv, Item
<1> QED
  BY <1>1, <1>2, NothingLost DEF Provenance

\* A push keeps to the items it collected.
LEMMA TodoShrinks ==
    ASSUME SyncInv, Next, NEW c \in Clients,
           pc[c] \in Pushing, pc'[c] \in Pushing,
           job'[c].todo \subseteq job[c].todo,
           pc'[c] = "chunks" => job'[c].todo # {}
    PROVE  Provenance(c)'
<1>1. Provenance(c) /\ MachineOf[c] \in Machines
  BY JobType DEF SyncInv
<1>2. \A x \in job[c].todo : x.id \in Id
  BY JobType DEF SyncInv, Item
<1>3. pc'[c] # "ingestChunks"
  BY DEF Pushing
<1> QED
  BY <1>1, <1>2, <1>3, NothingLost DEF Provenance

\* A pull keeps to the events it fetched.
LEMMA PulledShrinks ==
    ASSUME SyncInv, Next, NEW c \in Clients,
           pc[c] \notin Pushing, pc'[c] \notin Pushing,
           job'[c].pulled \subseteq job[c].pulled,
           pc'[c] = "ingestChunks" => job'[c].todo # {}
    PROVE  Provenance(c)'
<1>1. Provenance(c)
  BY DEF SyncInv
<1>2. pc'[c] # "chunks"
  BY DEF Pushing
<1> QED
  BY <1>1, <1>2, NothingLost DEF Provenance

\* A client without a job has nothing to account for.
LEMMA FreshJob ==
    ASSUME NEW c \in Clients, job'[c] = NoJob, pc'[c] \notin Pushing, pc'[c] # "ingestChunks"
    PROVE  Provenance(c)'
BY DEF Provenance, NoJob, Pushing

\* A step of any client preserves every client's provenance.
LEMMA ProvenanceStep ==
    ASSUME SyncInv, Next, NEW d \in Clients
    PROVE  Provenance(d)'
<1> USE DEF SyncInv
<1>1. pc \in [Clients -> Labels] /\ job \in [Clients -> Job]
  BY DEF TypeOK
<1>2. ASSUME NEW s \in Sessions, Record(s) PROVE Provenance(d)'
  BY <1>2, ProvenanceFrame DEF Record
<1>3. ASSUME NEW c \in Clients, \E r \in Targets(c) : BeginPush(c, r) PROVE Provenance(d)'
  <2>1. CASE d # c
    BY <1>1, <1>3, <2>1, ProvenanceFrame DEF BeginPush, Goto
  <2>2. CASE d = c
    <3>1. PICK r \in Targets(c) : BeginPush(c, r)
      BY <1>3
    <3>2. pc'[c] \in {"post", "insert"} /\ local' = local
      BY <1>1, <3>1 DEF BeginPush, Goto, machineVars
    <3>3. job'[c].todo = Collected(c, r)
      BY <1>1, <3>1 DEF BeginPush, NoJob
    <3>4. \A x \in Collected(c, r) : local[MachineOf[c]][x.id] # Absent
      BY DEF Collected, HeldOf
    <3> QED
      BY <2>2, <3>2, <3>3, <3>4 DEF Provenance, Pushing
  <2> QED
    BY <2>1, <2>2
<1>4. ASSUME NEW c \in Clients, Receive(c) \/ Append1(c) PROVE Provenance(d)'
  <2>1. CASE d # c
    BY <1>1, <1>4, <2>1, ProvenanceFrame DEF Receive, Append1, Goto
  <2>2. CASE d = c
    <3>1. pc[c] \in Pushing /\ pc'[c] \in Pushing /\ pc'[c] # "chunks"
      BY <1>1, <1>4 DEF Receive, Append1, Goto, Pushing
    <3>2. job'[c].todo \subseteq job[c].todo
      BY <1>1, <1>4 DEF Receive, Append1, Job
    <3> QED
      BY <2>2, <3>1, <3>2, TodoShrinks
  <2> QED
    BY <2>1, <2>2
<1>5. ASSUME NEW c \in Clients, InsertEvent(c) \/ InsertChunks(c) PROVE Provenance(d)'
  <2>1. CASE d # c
    BY <1>1, <1>5, <2>1, ProvenanceFrame DEF InsertEvent, InsertChunks, Goto
  <2>2. CASE d = c
    <3>1. pc[c] \in Pushing /\ pc'[c] \in Pushing
      BY <1>1, <1>5 DEF InsertEvent, InsertChunks, Goto, Pushing
    <3>2. job'[c].todo = job[c].todo
      BY <1>1, <1>5 DEF InsertEvent, InsertChunks, Job
    <3>3. job[c].todo # {}
      BY <1>5 DEF InsertEvent, InsertChunks, Provenance
    <3> QED
      BY <2>2, <3>1, <3>2, <3>3, TodoShrinks
  <2> QED
    BY <2>1, <2>2
<1>6. ASSUME NEW c \in Clients, EndChunks(c) PROVE Provenance(d)'
  <2>1. CASE d # c
    BY <1>1, <1>6, <2>1, ProvenanceFrame DEF EndChunks, Goto
  <2>2. CASE d = c
    <3>1. pc[c] \in Pushing /\ pc'[c] \in Pushing /\ pc'[c] # "chunks"
      BY <1>1, <1>6 DEF EndChunks, Goto, Pushing
    <3>2. job'[c].todo \subseteq job[c].todo
      BY <1>1, <1>6 DEF EndChunks, Job
    <3> QED
      BY <2>2, <3>1, <3>2, TodoShrinks
  <2> QED
    BY <2>1, <2>2
<1>7. ASSUME NEW c \in Clients, EndPush(c) \/ EndPull(c) \/ Fail(c) \/ BeginPull(c)
      PROVE  Provenance(d)'
  <2>1. CASE d # c
    BY <1>1, <1>7, <2>1, ProvenanceFrame DEF EndPush, EndPull, Fail, BeginPull, Finish, Goto
  <2>2. CASE d = c
    BY <1>1, <1>7, <2>2, FreshJob
       DEF EndPush, EndPull, Fail, BeginPull, Finish, Goto, Pushing
  <2> QED
    BY <2>1, <2>2
<1>8. ASSUME NEW c \in Clients, FetchPage(c) \/ FetchEvents(c) \/ FetchChunks(c)
      PROVE  Provenance(d)'
  <2>1. CASE d # c
    BY <1>1, <1>8, <2>1, ProvenanceFrame DEF FetchPage, FetchEvents, FetchChunks, Goto
  <2>2. CASE d = c
    <3>1. /\ pc[c] \notin Pushing
          /\ pc'[c] \notin Pushing \cup {"chunks", "ingestChunks"}
          /\ log' = log
      BY <1>1, <1>8 DEF FetchPage, FetchEvents, FetchChunks, Goto, Pushing
    <3>2. \A x \in job[c].pulled : x.id \in LoggedIds
      BY <3>1 DEF Provenance
    <3>3. \A x \in job'[c].pulled : x.id \in LoggedIds
      <4>1. CASE FetchPage(c)
        <5>1. \A x \in job'[c].pulled :
                x \in job[c].pulled \/ \E i \in Page(c) : x.id = log[i].id
          BY <1>1, <4>1 DEF FetchPage, Job
        <5> QED
          BY <3>2, <5>1, PageFacts, LogItems
      <4>2. CASE FetchEvents(c)
        <5>1. \A x \in job'[c].pulled : \E i \in Matching(c) : x.id = log[i].id
          BY <1>1, <4>2 DEF FetchEvents, Job
        <5> QED
          BY <5>1, LogItems DEF Matching
      <4>3. CASE FetchChunks(c)
        <5>1. \A x \in job'[c].pulled : \E i \in DOMAIN log : x.id = log[i].id
          BY <1>1, <4>3 DEF FetchChunks, Job
        <5> QED
          BY <5>1, LogItems
      <4> QED
        BY <1>8, <4>1, <4>2, <4>3
    <3>4. LoggedIds' = LoggedIds
      BY <3>1 DEF LoggedIds
    <3> QED
      BY <2>2, <3>1, <3>3, <3>4 DEF Provenance
  <2> QED
    BY <2>1, <2>2
<1>9. ASSUME NEW c \in Clients, Dedupe(c) PROVE Provenance(d)'
  <2>1. CASE d # c
    BY <1>1, <1>9, <2>1, ProvenanceFrame DEF Dedupe, Goto
  <2>2. CASE d = c
    <3>1. pc[c] \notin Pushing /\ pc'[c] \notin Pushing /\ pc'[c] # "ingestChunks"
      BY <1>1, <1>9 DEF Dedupe, Goto, Pushing
    <3>2. job'[c].pulled \subseteq job[c].pulled
      BY <1>1, <1>9 DEF Dedupe, NoJob
    <3> QED
      BY <2>2, <3>1, <3>2, PulledShrinks
  <2> QED
    BY <2>1, <2>2
<1>10. ASSUME NEW c \in Clients, IngestRow(c) \/ IngestChunks(c) \/ EndIngest(c) \/ Store(c)
       PROVE  Provenance(d)'
  <2>1. CASE d # c
    BY <1>1, <1>10, <2>1, ProvenanceFrame DEF IngestRow, IngestChunks, EndIngest, Store, Goto
  <2>2. CASE d = c
    <3>1. pc[c] \notin Pushing /\ pc'[c] \notin Pushing
      BY <1>1, <1>10 DEF IngestRow, IngestChunks, EndIngest, Store, Goto, Pushing
    <3>2. job'[c].pulled \subseteq job[c].pulled
      BY <1>1, <1>10 DEF IngestRow, IngestChunks, EndIngest, Store, Job
    <3>3. pc'[c] = "ingestChunks" => job'[c].todo # {}
      BY <1>1, <1>10 DEF IngestRow, IngestChunks, EndIngest, Store, Goto
    <3> QED
      BY <2>2, <3>1, <3>2, <3>3, PulledShrinks
  <2> QED
    BY <2>1, <2>2
<1> QED
  BY <1>2, <1>3, <1>4, <1>5, <1>6, <1>7, <1>8, <1>9, <1>10 DEF Next, Step

-----------------------------------------------------------------------------
(* Theorems. *)

\* The invariant is inductive.
LEMMA SyncInvariance == Spec => []SyncInv
<1>1. ASSUME SyncInv, [Next]_vars PROVE SyncInv'
  <2>1. CASE Next
    BY <1>1, <2>1, TypeStep, ProvenanceStep DEF SyncInv
  <2>2. CASE UNCHANGED vars
    BY <1>1, <2>2
       DEF SyncInv, TypeOK, Provenance, LoggedIds, vars, machineVars
  <2> QED
    BY <1>1, <2>1, <2>2
<1> QED
  BY <1>1, InitInv, PTL DEF Spec

(***************************************************************************)
(* Every behaviour keeps the variables of sync well typed, whatever the    *)
(* clients, machines, remotes, page size and faults: in particular a pull  *)
(* never asks for a page with an undefined cursor (list_events_page).      *)
(***************************************************************************)
THEOREM SyncTypeCorrect == Spec => []TypeOK
<1>1. SyncInv => TypeOK
  BY DEF SyncInv
<1> QED
  BY <1>1, SyncInvariance, PTL

\* The events each machine holds.
HeldNow == [m \in Machines |-> {id \in Id : local[m][id] # Absent}]

\* Setting one machine's entry adds that event to what it holds.
LEMMA HeldAfter ==
    ASSUME TypeOK, NEW m \in Machines, NEW x \in Id, NEW k \in 0 .. Parts,
           local' = [local EXCEPT ![m][x] = k]
    PROVE  HeldNow' = [HeldNow EXCEPT ![m] = @ \cup {x}]
<1>1. k # Absent
  BY AbsentAssumption
<1>2. local \in [Machines -> [Id -> (0 .. Parts) \cup {Absent}]]
  BY DEF TypeOK
<1>3. ASSUME NEW n \in Machines
      PROVE  HeldNow'[n] = IF n = m THEN HeldNow[n] \cup {x} ELSE HeldNow[n]
  <2>1. CASE n = m
    <3>1. \A id \in Id : local'[m][id] = IF id = x THEN k ELSE local[m][id]
      BY <1>2
    <3> QED
      BY <1>1, <2>1, <3>1 DEF HeldNow
  <2>2. CASE n # m
    <3>1. local'[n] = local[n]
      BY <1>2, <2>2
    <3> QED
      BY <2>2, <3>1 DEF HeldNow
  <2> QED
    BY <2>1, <2>2
<1> QED
  BY <1>3 DEF HeldNow

(***************************************************************************)
(* Sync implements Replicas: whatever is retried, interrupted or           *)
(* interleaved, push and pull only ever copy recorded events, to the       *)
(* remote and from it, and lose none (handle_push, pull_events).           *)
(***************************************************************************)
THEOREM Refinement == Spec => KeepsPromise
<1>1. Init => Promise!Init
  <2> SUFFICES ASSUME Init PROVE Promise!Init
    OBVIOUS
  <2>1. LoggedIds = {}
    BY DEF Init, LoggedIds
  <2>2. [m \in Machines |-> {id \in Id : local[m][id] # Absent}] = [m \in Machines |-> {}]
    BY DEF Init
  <2> QED
    BY <2>1, <2>2 DEF Promise!Init
<1>2. ASSUME SyncInv, [Next]_vars
      PROVE  [Promise!Next]_<<LoggedIds, HeldNow>>
  <2>1. CASE UNCHANGED vars
    BY <2>1 DEF vars, machineVars, LoggedIds, HeldNow
  <2>2. CASE Next
    <3>1. RemoteStep /\ LocalStep
      BY <1>2, <2>2, CopySteps
    <3>2. CASE local' = local /\ LoggedIds' = LoggedIds
      BY <3>2 DEF HeldNow
    <3>3. ASSUME NEW m \in Machines, NEW id \in Id, local[m][id] # Absent,
                 LoggedIds' = LoggedIds \cup {id}, local' = local
          PROVE  Promise!Upload(m)
      <4>1. id \in HeldNow[m]
        BY <3>3 DEF HeldNow
      <4>2. HeldNow' = HeldNow
        BY <3>3 DEF HeldNow
      <4> QED
        BY <3>3, <4>1, <4>2 DEF Promise!Upload, HeldNow
    <3>4. ASSUME NEW id \in Id, NEW k \in 0 .. Parts,
                 local' = [local EXCEPT ![OwnerOf[id.session]][id] = k],
                 LoggedIds' = LoggedIds
          PROVE  Promise!Record(id)
      <4>1. OwnerOf[id.session] \in Machines
        BY ClientsAssumption DEF Id
      <4>2. HeldNow' = [HeldNow EXCEPT ![OwnerOf[id.session]] = @ \cup {id}]
        BY <1>2, <3>4, <4>1, HeldAfter DEF SyncInv
      <4> QED
        BY <3>4, <4>2 DEF Promise!Record, HeldNow
    <3>5. ASSUME NEW m \in Machines, NEW id \in Id \cap LoggedIds, NEW k \in 0 .. Parts,
                 local' = [local EXCEPT ![m][id] = k],
                 LoggedIds' = LoggedIds
          PROVE  Promise!Download(m)
      <4>1. HeldNow' = [HeldNow EXCEPT ![m] = @ \cup {id}]
        BY <1>2, <3>5, HeldAfter DEF SyncInv
      <4> QED
        BY <3>5, <4>1 DEF Promise!Download, HeldNow
    <3> QED
      BY <3>1, <3>2, <3>3, <3>4, <3>5 DEF RemoteStep, LocalStep, Promise!Next
  <2> QED
    BY <1>2, <2>1, <2>2
<1>3. ASSUME [Promise!Next]_<<LoggedIds, HeldNow>>
      PROVE  [Promise!Next]_<<LoggedIds, [m \in Machines |-> {id \in Id : local[m][id] # Absent}]>>
  BY <1>3 DEF HeldNow
<1> QED
  BY <1>1, <1>2, <1>3, SyncInvariance, PTL DEF Spec, KeepsPromise, Promise!Spec

-----------------------------------------------------------------------------
(* Paging. *)

\* The log only grows, and its lines keep their ids.
LogGrows ==
    /\ Len(log') \in Nat /\ Len(log) <= Len(log')
    /\ DOMAIN log' = 1 .. Len(log')
    /\ \A i \in DOMAIN log : log'[i].id = log[i].id

\* Every step lets the log grow and leaves the remote the same one.
LEMMA LogStep ==
    ASSUME SyncInv, Next
    PROVE  LogGrows /\ backend' = backend
<1>1. log \in Seq(Entry) /\ Len(log) \in Nat /\ DOMAIN log = 1 .. Len(log)
  BY DEF SyncInv, TypeOK
<1>2. backend' = backend
  BY DEF Next, Step, Record, BeginPush, Receive, Append1, InsertEvent, InsertChunks,
         EndChunks, EndPush, BeginPull, FetchPage, FetchEvents, FetchChunks, Dedupe,
         IngestRow, IngestChunks, EndIngest, Store, EndPull, Fail
<1>3. \/ log' = log
      \/ \E r : log' = Append(log, r)
      \/ \E c \in Clients : InsertChunks(c)
  BY DEF Next, Step, Record, BeginPush, Receive, Append1, InsertEvent,
         EndChunks, EndPush, BeginPull, FetchPage, FetchEvents, FetchChunks, Dedupe,
         IngestRow, IngestChunks, EndIngest, Store, EndPull, Fail
<1>4. CASE log' = log
  BY <1>1, <1>2, <1>4 DEF LogGrows
<1>5. ASSUME NEW r, log' = Append(log, r) PROVE LogGrows
  BY <1>1, <1>5 DEF LogGrows
<1>6. ASSUME NEW c \in Clients, InsertChunks(c) PROVE LogGrows
  <2>1. TypeOK' /\ DOMAIN log' = DOMAIN log
    BY <1>6, TypeStep DEF InsertChunks
  <2>2. Len(log') = Len(log) /\ DOMAIN log' = 1 .. Len(log')
    BY <1>1, <2>1 DEF TypeOK
  <2>3. \A i \in DOMAIN log : log'[i].id = log[i].id
    BY <1>6, LogItems DEF InsertChunks, Entry, SyncInv
  <2> QED
    BY <1>1, <2>2, <2>3 DEF LogGrows
<1> QED
  BY <1>2, <1>3, <1>4, <1>5, <1>6

\* A client between two pages has every matching line up to its cursor.
Gapless(c) ==
    pc[c] = "page" =>
        /\ job[c].cursor <= Len(log)
        /\ {x.pos : x \in job[c].pulled} = {i \in Matching(c) : i <= job[c].cursor}

\* Appending changes nothing before the cursor.
LEMMA GaplessFrame ==
    ASSUME SyncInv, Next, NEW c \in Clients, Gapless(c), pc'[c] = pc[c], job'[c] = job[c]
    PROVE  Gapless(c)'
<1> SUFFICES ASSUME pc[c] = "page" PROVE Gapless(c)'
  BY DEF Gapless
<1>1. /\ job[c].cursor \in Nat /\ job[c].cursor <= Len(log)
      /\ Len(log) \in Nat /\ DOMAIN log = 1 .. Len(log)
  BY JobType DEF Gapless, Job, SyncInv, TypeOK
<1>2. LogGrows /\ backend' = backend
  BY LogStep
<1>3. job[c].cursor <= Len(log')
  BY <1>1, <1>2 DEF LogGrows
<1>4. ASSUME NEW i \in 1 .. job[c].cursor
      PROVE  i \in Matching(c)' <=> i \in Matching(c)
  <2>1. i \in DOMAIN log /\ i \in DOMAIN log' /\ log'[i].id = log[i].id
    BY <1>1, <1>2, <1>3 DEF LogGrows
  <2> QED
    BY <1>2, <2>1 DEF Matching
<1>5. /\ \A i \in Matching(c) : i \in Nat /\ i >= 1
      /\ \A i \in Matching(c)' : i \in Nat /\ i >= 1
  BY <1>1, <1>2 DEF Matching, LogGrows
<1>6. {i \in Matching(c)' : i <= job[c].cursor} = {i \in Matching(c) : i <= job[c].cursor}
  BY <1>1, <1>4, <1>5
<1> QED
  BY <1>3, <1>6 DEF Gapless

\* The lines a page hands out are all of the rest up to its last one.
LEMMA PageIsPrefix ==
    ASSUME TypeOK, NEW c \in Clients, Page(c) # Rest(c)
    PROVE  /\ NextCursor(c) \in Page(c)
           /\ Page(c) = {i \in Rest(c) : i <= NextCursor(c)}
<1>1. /\ Page(c) \subseteq Rest(c) /\ Rest(c) \subseteq DOMAIN log
      /\ DOMAIN log = 1 .. Len(log) /\ Len(log) \in Nat
  BY PageFacts DEF Page, Rest, Matching
<1>2. Page(c) # {} /\ Page(c) \in SUBSET (0 .. Len(log))
  <2>1. Rest(c) # {}
    BY <1>1
  <2> QED
    BY <1>1, <2>1, PageNonempty
<1>3. NextCursor(c) \in Page(c) /\ \A i \in Page(c) : i <= NextCursor(c)
  BY <1>1, <1>2, MaxInSet DEF NextCursor
<1>4. ASSUME NEW i \in Rest(c), i <= NextCursor(c) PROVE i \in Page(c)
  <2> DEFINE A == {j \in Rest(c) : j <= i}
             B == {j \in Rest(c) : j <= NextCursor(c)}
  <2>1. A \subseteq B /\ B \subseteq 1 .. Len(log)
    BY <1>1, <1>3, <1>4
  <2>2. IsFiniteSet(B)
    <3>1. IsFiniteSet(1 .. Len(log))
      BY <1>1, FS_Interval
    <3> QED
      BY <2>1, <3>1, FS_Subset
  <2>3. /\ Cardinality(A) \in Nat /\ Cardinality(B) \in Nat
        /\ Cardinality(A) <= Cardinality(B)
    BY <2>1, <2>2, FS_Subset, FS_CardinalityType
  <2>4. Cardinality(B) <= PageSize
    BY <1>3 DEF Page
  <2>5. Cardinality(A) <= PageSize
    BY <2>3, <2>4, SizesAssumption
  <2> QED
    BY <2>5 DEF Page
<1> QED
  BY <1>1, <1>3, <1>4

\* A step of any client leaves no gap in any pull.
LEMMA GaplessStep ==
    ASSUME SyncInv, Next, NEW d \in Clients, Gapless(d)
    PROVE  Gapless(d)'
<1> USE DEF SyncInv
<1>1. pc \in [Clients -> Labels] /\ job \in [Clients -> Job]
  BY DEF TypeOK
<1>2. ASSUME NEW s \in Sessions, Record(s) PROVE Gapless(d)'
  BY <1>2, GaplessFrame DEF Record
<1>3. ASSUME NEW c \in Clients, BeginPull(c) PROVE Gapless(d)'
  <2>1. CASE d # c
    BY <1>1, <1>3, <2>1, GaplessFrame DEF BeginPull, Goto
  <2>2. CASE d = c
    <3>1. job'[c].pulled = {} /\ job'[c].cursor = 0 /\ log' = log
      BY <1>1, <1>3 DEF BeginPull, NoJob
    <3>2. DOMAIN log = 1 .. Len(log) /\ Len(log) \in Nat
      BY DEF TypeOK
    <3>3. \A i \in Matching(c)' : i >= 1 /\ i \in Nat
      BY <3>1, <3>2 DEF Matching
    <3>4. {i \in Matching(c)' : i <= 0} = {}
      BY <3>3
    <3> QED
      BY <2>2, <3>1, <3>2, <3>4 DEF Gapless
  <2> QED
    BY <2>1, <2>2
<1>4. ASSUME NEW c \in Clients, FetchPage(c) PROVE Gapless(d)'
  <2>1. CASE d # c
    BY <1>1, <1>4, <2>1, GaplessFrame DEF FetchPage, Goto
  <2>2. CASE d = c /\ Page(c) = Rest(c)
    BY <1>1, <1>4, <2>2 DEF FetchPage, Goto, Gapless
  <2>3. CASE d = c /\ Page(c) # Rest(c)
    <3> DEFINE items == {[pos |-> i, id |-> log[i].id, parts |-> log[i].parts] : i \in Page(c)}
    <3>1. /\ pc[c] = "page" /\ log' = log /\ backend' = backend
          /\ job'[c].pulled = job[c].pulled \cup items
          /\ job'[c].cursor = NextCursor(c)
      BY <1>1, <1>4, <2>3 DEF FetchPage, Job
    <3>2. {x.pos : x \in items} = Page(c)
      <4>1. ASSUME NEW x \in items PROVE x.pos \in Page(c)
        OBVIOUS
      <4>2. ASSUME NEW i \in Page(c) PROVE \E x \in items : x.pos = i
        <5>1. [pos |-> i, id |-> log[i].id, parts |-> log[i].parts] \in items
          OBVIOUS
        <5> QED
          BY <5>1
      <4> QED
        BY <4>1, <4>2
    <3> HIDE DEF items
    <3>3. {x.pos : x \in job'[c].pulled} = {x.pos : x \in job[c].pulled} \cup Page(c)
      BY <3>1, <3>2
    <3>4. /\ NextCursor(c) \in Page(c)
          /\ Page(c) = {i \in Rest(c) : i <= NextCursor(c)}
      BY <2>3, PageIsPrefix
    <3>5. /\ DOMAIN log = 1 .. Len(log) /\ Len(log) \in Nat /\ job[c].cursor \in Nat
          /\ Matching(c) \subseteq DOMAIN log
      BY JobType DEF Job, TypeOK, Matching
    <3>6. /\ NextCursor(c) > job[c].cursor /\ NextCursor(c) \in DOMAIN log
          /\ NextCursor(c) <= Len(log)
      BY <3>4, <3>5 DEF Rest
    <3>7. {i \in Matching(c) : i <= NextCursor(c)}
            = {i \in Matching(c) : i <= job[c].cursor} \cup Page(c)
      BY <3>4, <3>5, <3>6 DEF Rest
    <3>8. Matching(c)' = Matching(c)
      BY <3>1 DEF Matching
    <3> QED
      BY <2>3, <3>1, <3>3, <3>6, <3>7, <3>8 DEF Gapless
  <2> QED
    BY <2>1, <2>2, <2>3
<1>5. ASSUME NEW c \in Clients, \E r \in Targets(c) : BeginPush(c, r) PROVE Gapless(d)'
  <2>1. CASE d # c
    BY <1>1, <1>5, <2>1, GaplessFrame DEF BeginPush, Goto
  <2>2. CASE d = c
    BY <1>1, <1>5, <2>2 DEF BeginPush, Goto, Gapless
  <2> QED
    BY <2>1, <2>2
<1>6. ASSUME NEW c \in Clients,
             \/ Receive(c) \/ Append1(c) \/ InsertEvent(c) \/ InsertChunks(c) \/ EndChunks(c)
             \/ EndPush(c) \/ FetchEvents(c) \/ FetchChunks(c) \/ Dedupe(c) \/ IngestRow(c)
             \/ IngestChunks(c) \/ EndIngest(c) \/ Store(c) \/ EndPull(c) \/ Fail(c)
      PROVE  Gapless(d)'
  <2>1. CASE d # c
    BY <1>1, <1>6, <2>1, GaplessFrame
       DEF Receive, Append1, InsertEvent, InsertChunks, EndChunks, EndPush, FetchEvents,
           FetchChunks, Dedupe, IngestRow, IngestChunks, EndIngest, Store, EndPull, Fail,
           Finish, Goto
  <2>2. CASE d = c
    BY <1>1, <1>6, <2>2
       DEF Receive, Append1, InsertEvent, InsertChunks, EndChunks, EndPush, FetchEvents,
           FetchChunks, Dedupe, IngestRow, IngestChunks, EndIngest, Store, EndPull, Fail,
           Finish, Goto, Gapless
  <2> QED
    BY <2>1, <2>2
<1> QED
  BY <1>2, <1>3, <1>4, <1>5, <1>6 DEF Next, Step

(***************************************************************************)
(* Paging by line number skips nothing: between two pages a pull has every *)
(* matching line up to its cursor, for every page size and whatever is     *)
(* appended meanwhile (list_events_page, get_all_events_from_remote).      *)
(***************************************************************************)
THEOREM GaplessPaging == Spec => []PagesAreGapless
<1> DEFINE GInv == \A c \in Clients : Gapless(c)
<1>1. Init => GInv
  BY DEF Init, Gapless
<1>2. ASSUME SyncInv, GInv, [Next]_vars PROVE GInv'
  <2>1. CASE Next
    BY <1>2, <2>1, GaplessStep
  <2>2. CASE UNCHANGED vars
    BY <1>2, <2>2 DEF Gapless, Matching, vars, machineVars
  <2> QED
    BY <1>2, <2>1, <2>2
<1>3. GInv => PagesAreGapless
  BY DEF Gapless, PagesAreGapless
<1> HIDE DEF GInv
<1> QED
  BY <1>1, <1>2, <1>3, SyncInvariance, PTL DEF Spec

-----------------------------------------------------------------------------
(* Metadata is never behind the events, and a pull handles only new ones.  *)

(***************************************************************************)
(* A machine never has two clients in one repo, and every pull names its   *)
(* repo: known_event_ids looks only under the repo of the client, and two  *)
(* pulls of one repo into the same databases do not see each other.        *)
(***************************************************************************)
OnePerRepo ==
    /\ ~GlobalPull
    /\ \A c, d \in Clients : MachineOf[c] = MachineOf[d] /\ Repo[c] = Repo[d] => c = d

Recorded(id) == local[OwnerOf[id.session]][id] # Absent

\* Event id is of the same session as event x, and was recorded before it.
Earlier(id, x) == id.session = x.session /\ id.at < x.at /\ Recorded(id)

\* Whatever is anywhere was recorded, and the clock is past it.
Origins ==
    /\ \A id \in LoggedIds : Recorded(id)
    /\ \A m \in Machines, id \in Id : local[m][id] # Absent => Recorded(id)
    /\ \A id \in Id : Recorded(id) => id.at <= clock

\* A line of the log comes after the lines of all earlier events.
LogInOrder ==
    \A j \in DOMAIN log, id \in Id :
        Earlier(id, log[j].id) => \E i \in DOMAIN log : i < j /\ log[i].id = id

\* A machine that holds an event holds all earlier ones.
HeldInOrder ==
    \A m \in Machines, x \in Id, id \in Id :
        local[m][x] # Absent /\ Earlier(id, x) => local[m][id] # Absent

\* A push still has every earlier event to send, or the remote has it.
PushInOrder(c) ==
    pc[c] \in Pushing =>
        /\ \A x \in job[c].todo : x.pos = x.id.at
        /\ \A x \in job[c].todo, id \in Id :
            Earlier(id, x.id) => id \in LoggedIds \/ \E y \in job[c].todo : y.id = id
        /\ pc[c] = "append" => job[c].existing \subseteq LoggedIds
        /\ pc[c] = "chunks" => First(job[c].todo).id \in LoggedIds

\* A pull has only events of its repo, each after all earlier ones.
FetchInOrder(c) ==
    /\ pc[c] \notin Pushing => \A x \in job[c].pulled : RepoOf[x.id.session] = Repo[c]
    /\ pc[c] = "page" =>
        \A x \in job[c].pulled : x.pos \in DOMAIN log /\ log[x.pos].id = x.id
    /\ pc[c] \in {"page", "attach", "dedupe"} =>
        \A x \in job[c].pulled, id \in Id :
            Earlier(id, x.id) => \E y \in job[c].pulled : y.id = id /\ y.pos < x.pos

\* The new ones come in the order of their sessions, and none is left out.
NewInOrder(c) ==
    pc[c] \in {"ingest", "ingestChunks", "store"} =>
        /\ \A x, y \in job[c].pulled :
            x.id.session = y.id.session /\ x.id.at < y.id.at => x.pos < y.pos
        /\ \A x \in job[c].pulled, id \in Id :
            Earlier(id, x.id) =>
                \/ local[MachineOf[c]][id] # Absent
                \/ \E y \in job[c].pulled : y.id = id

\* Machine m's metadata is not behind item x.
Projected(m, x) ==
    /\ row[m][x.id.session] >= x.id.at
    /\ x.parts > 0 => transcript[m][x.id.session] >= x.id.at

\* The items are handled in order, and the metadata has the handled ones.
IngestInOrder(c) ==
    /\ pc[c] \in {"ingest", "ingestChunks"} =>
        /\ job[c].todo \subseteq job[c].pulled
        /\ \A x \in job[c].pulled : local[MachineOf[c]][x.id] = Absent
        /\ \A x \in job[c].pulled \ job[c].todo :
            /\ Projected(MachineOf[c], x)
            /\ \A y \in job[c].todo : x.pos <= y.pos
    /\ pc[c] = "ingestChunks" =>
        LET e == First(job[c].todo) IN row[MachineOf[c]][e.id.session] >= e.id.at
    /\ pc[c] = "store" => \A x \in job[c].pulled : Projected(MachineOf[c], x)

OrderInv ==
    /\ Origins /\ LogInOrder /\ HeldInOrder
    /\ MetadataNotBehind
    /\ \A c \in Clients :
        PushInOrder(c) /\ FetchInOrder(c) /\ NewInOrder(c) /\ IngestInOrder(c)

-----------------------------------------------------------------------------
(* What a step does to what is held, recorded and logged. *)

\* A refresh adds the new event to its machine, and nothing else.
LEMMA RecordHolds ==
    ASSUME SyncInv, NEW s \in Sessions, Record(s)
    PROVE  /\ clock \in Nat /\ clock' = clock + 1
           /\ log' = log /\ pc' = pc /\ job' = job
           /\ \A m \in Machines, id \in Id :
                local'[m][id] # local[m][id] =>
                    m = OwnerOf[s] /\ id.session = s /\ id.at = clock + 1
<1> DEFINE new == [session |-> s, at |-> clock + 1]
<1>1. new \in Id /\ OwnerOf[s] \in Machines /\ clock \in Nat
  BY SizesAssumption, ClientsAssumption DEF Record, SyncInv, TypeOK, Id
<1>2. local' = [local EXCEPT ![OwnerOf[s]][new] = Parts]
  BY DEF Record
<1>3. local \in [Machines -> [Id -> (0 .. Parts) \cup {Absent}]]
  BY DEF SyncInv, TypeOK
<1>4. new.session = s /\ new.at = clock + 1
  OBVIOUS
<1> HIDE DEF new
<1>5. \A m \in Machines, id \in Id :
        local'[m][id] # local[m][id] => m = OwnerOf[s] /\ id = new
  BY <1>1, <1>2, <1>3
<1> QED
  BY <1>1, <1>4, <1>5 DEF Record

\* Storing adds the first pulled item to the machine, and nothing else.
LEMMA StoreHolds ==
    ASSUME SyncInv, NEW c \in Clients, Store(c),
           NEW e, e = First(job[c].pulled)
    PROVE  /\ e \in job[c].pulled /\ e \in Item /\ e.id \in Id /\ e.id \in LoggedIds
           /\ clock' = clock /\ log' = log /\ row' = row /\ transcript' = transcript
           /\ local'[MachineOf[c]][e.id] = e.parts /\ e.parts # Absent
           /\ \A m \in Machines, id \in Id :
                local'[m][id] # local[m][id] => m = MachineOf[c] /\ id = e.id
<1>1. e \in job[c].pulled /\ e \in Item
  BY JobType, FirstItem DEF Store, SyncInv
<1>2. e.id \in Id /\ e.id \in LoggedIds /\ e.parts \in 0 .. Parts
  BY <1>1 DEF Store, SyncInv, Provenance, Pushing, Item
<1>3. e.parts # Absent
  BY <1>2, AbsentAssumption
<1>4. local' = [local EXCEPT ![MachineOf[c]][e.id] = e.parts]
  BY DEF Store
<1>5. local \in [Machines -> [Id -> (0 .. Parts) \cup {Absent}]] /\ MachineOf[c] \in Machines
  BY JobType DEF SyncInv, TypeOK
<1>6. local'[MachineOf[c]][e.id] = e.parts
  BY <1>2, <1>4, <1>5
<1>7. \A m \in Machines, id \in Id :
        local'[m][id] # local[m][id] => m = MachineOf[c] /\ id = e.id
  BY <1>2, <1>4, <1>5
<1> QED
  BY <1>1, <1>2, <1>3, <1>6, <1>7 DEF Store

\* What a machine holds changes only by recording and by storing.
LEMMA HoldingSteps ==
    ASSUME Next
    PROVE  \/ local' = local /\ clock' = clock
           \/ \E s \in Sessions : Record(s)
           \/ \E c \in Clients : Store(c)
<1>1. ASSUME NEW c \in Clients,
             \/ \E r \in Targets(c) : BeginPush(c, r)
             \/ Receive(c) \/ Append1(c) \/ InsertEvent(c) \/ InsertChunks(c)
             \/ EndChunks(c) \/ EndPush(c) \/ BeginPull(c) \/ FetchPage(c)
             \/ FetchEvents(c) \/ FetchChunks(c) \/ Dedupe(c) \/ IngestRow(c)
             \/ IngestChunks(c) \/ EndIngest(c) \/ EndPull(c) \/ Fail(c)
      PROVE  local' = local /\ clock' = clock
  BY <1>1 DEF BeginPush, Receive, Append1, InsertEvent, InsertChunks, EndChunks,
              EndPush, BeginPull, FetchPage, FetchEvents, FetchChunks, Dedupe, IngestRow,
              IngestChunks, EndIngest, EndPull, Fail, machineVars
<1> QED
  BY <1>1 DEF Next, Step

\* What is newly recorded is of the next instant.
LEMMA NewlyRecorded ==
    ASSUME SyncInv, Origins, Next, NEW id \in Id, Recorded(id)'
    PROVE  Recorded(id) \/ (id.at = clock + 1 /\ clock' = clock + 1)
<1>1. OwnerOf[id.session] \in Machines
  BY ClientsAssumption DEF Id
<1>2. CASE local' = local
  BY <1>2 DEF Recorded
<1>3. ASSUME NEW s \in Sessions, Record(s)
      PROVE  Recorded(id) \/ (id.at = clock + 1 /\ clock' = clock + 1)
  BY <1>1, <1>3, RecordHolds DEF Recorded
<1>4. ASSUME NEW c \in Clients, Store(c) PROVE Recorded(id)
  BY <1>1, <1>4, StoreHolds DEF Recorded, Origins
<1> QED
  BY <1>2, <1>3, <1>4, HoldingSteps

\* So an event that is anywhere gets no new predecessors.
LEMMA NoNewEarlier ==
    ASSUME SyncInv, Origins, Next, NEW x \in Id, Recorded(x), NEW id \in Id, Earlier(id, x)'
    PROVE  Earlier(id, x)
<1>1. x.at <= clock /\ clock \in Nat /\ x.at \in Nat /\ id.at \in Nat
  BY SizesAssumption DEF Origins, SyncInv, TypeOK, Id
<1> QED
  BY <1>1, NewlyRecorded DEF Earlier

\* The log keeps its ids, or gets the first item of a push.
LEMMA LogMoves ==
    ASSUME SyncInv, Next
    PROVE  \/ /\ DOMAIN log' = DOMAIN log
              /\ \A i \in DOMAIN log : log'[i].id = log[i].id
           \/ \E c \in Clients, r \in Entry :
                /\ pc[c] \in {"append", "insert"} /\ job[c].todo # {}
                /\ r.id = First(job[c].todo).id
                /\ log' = Append(log, r)
<1>1. \/ log' = log
      \/ \E c \in Clients : Append1(c) \/ InsertEvent(c) \/ InsertChunks(c)
  <2>1. ASSUME NEW c \in Clients,
               \/ \E r \in Targets(c) : BeginPush(c, r)
               \/ Receive(c) \/ EndChunks(c) \/ EndPush(c) \/ BeginPull(c)
               \/ FetchPage(c) \/ FetchEvents(c) \/ FetchChunks(c) \/ Dedupe(c)
               \/ IngestRow(c) \/ IngestChunks(c) \/ EndIngest(c) \/ Store(c)
               \/ EndPull(c) \/ Fail(c)
        PROVE  log' = log
    BY <2>1 DEF BeginPush, Receive, EndChunks, EndPush, BeginPull, FetchPage, FetchEvents,
                FetchChunks, Dedupe, IngestRow, IngestChunks, EndIngest, Store, EndPull, Fail
  <2> QED
    BY <2>1 DEF Next, Step, Record
<1>2. ASSUME NEW c \in Clients, InsertChunks(c)
      PROVE  /\ DOMAIN log' = DOMAIN log
             /\ \A i \in DOMAIN log : log'[i].id = log[i].id
  <2>1. DOMAIN log' = DOMAIN log
    BY <1>2 DEF InsertChunks
  <2>2. \A i \in DOMAIN log : log'[i].id = log[i].id
    BY <1>2, LogItems DEF InsertChunks, Entry, SyncInv
  <2> QED
    BY <2>1, <2>2
<1>3. ASSUME NEW c \in Clients, Append1(c) \/ InsertEvent(c), log' # log
      PROVE  \E r \in Entry :
                /\ pc[c] \in {"append", "insert"} /\ job[c].todo # {}
                /\ r.id = First(job[c].todo).id
                /\ log' = Append(log, r)
  <2> DEFINE e == First(job[c].todo)
  <2>1. pc[c] \in {"append", "insert"} /\ job[c].todo # {}
    BY <1>3 DEF Append1, InsertEvent
  <2>2. e \in Item
    BY <2>1, JobType, FirstItem DEF SyncInv
  <2>3. /\ [id |-> e.id, parts |-> e.parts] \in Entry
        /\ [id |-> e.id, parts |-> 0] \in Entry
    BY <2>2, SizesAssumption DEF Item, Entry
  <2>4. \/ log' = Append(log, [id |-> e.id, parts |-> e.parts])
        \/ log' = Append(log, [id |-> e.id, parts |-> 0])
    BY <1>3 DEF Append1, InsertEvent
  <2> QED
    BY <2>1, <2>3, <2>4
<1> QED
  BY <1>1, <1>2, <1>3

-----------------------------------------------------------------------------
(* Every step keeps the order of what was recorded. *)

\* The first item of a push has no earlier event left to send.
LEMMA EarlierFirst ==
    ASSUME SyncInv, NEW c \in Clients, PushInOrder(c), pc[c] \in Pushing, job[c].todo # {},
           NEW e, e = First(job[c].todo), NEW id \in Id, Earlier(id, e.id)
    PROVE  id \in LoggedIds
<1>1. e \in job[c].todo /\ \A y \in job[c].todo : e.pos <= y.pos
  BY JobType, FirstItem DEF SyncInv
<1>2. e.pos = e.id.at /\ e.id \in Id /\ e.id.at \in Nat /\ id.at \in Nat
  BY <1>1, JobType, SizesAssumption DEF PushInOrder, SyncInv, Item, Id
<1>3. ASSUME NEW y \in job[c].todo, y.id = id PROVE FALSE
  <2>1. y.pos = id.at
    BY <1>3 DEF PushInOrder
  <2> QED
    BY <1>1, <1>2, <2>1 DEF Earlier
<1> QED
  BY <1>1, <1>3 DEF PushInOrder

\* The first item stored, in turn, has all earlier events on the machine.
LEMMA StoredFirst ==
    ASSUME SyncInv, NEW c \in Clients, NewInOrder(c), Store(c),
           NEW e, e = First(job[c].pulled), NEW id \in Id, Earlier(id, e.id)
    PROVE  local[MachineOf[c]][id] # Absent
<1>1. e \in job[c].pulled /\ \A y \in job[c].pulled : e.pos <= y.pos
  BY JobType, FirstItem DEF Store, SyncInv
<1>2. ASSUME NEW y \in job[c].pulled, y.id = id PROVE FALSE
  <2>1. y.pos < e.pos
    BY <1>1, <1>2 DEF Store, NewInOrder, Earlier
  <2>2. y.pos \in Nat /\ e.pos \in Nat
    BY <1>1, JobType DEF SyncInv, Item
  <2> QED
    BY <1>1, <2>1, <2>2
<1> QED
  BY <1>1, <1>2 DEF Store, NewInOrder

\* The item projected is the newest of its session so far.
LEMMA ProjectedNewest ==
    ASSUME SyncInv, Origins, HeldInOrder, NEW c \in Clients, IngestInOrder(c),
           IngestRow(c) \/ IngestChunks(c),
           NEW e, e = First(job[c].todo), NEW id \in Id, local[MachineOf[c]][id] # Absent,
           id.session = e.id.session
    PROVE  id.at <= e.id.at
<1>1. e \in job[c].todo /\ e \in Item
  BY JobType, FirstItem DEF IngestRow, IngestChunks, SyncInv, Provenance
<1>2. e \in job[c].pulled /\ local[MachineOf[c]][e.id] = Absent
  BY <1>1 DEF IngestInOrder, IngestRow, IngestChunks
<1>3. e.id \in Id /\ e.id \in LoggedIds /\ MachineOf[c] \in Machines
  BY <1>1, <1>2, JobType DEF Item, SyncInv, Provenance, Pushing, IngestRow, IngestChunks
<1>4. Recorded(e.id)
  BY <1>3 DEF Origins
<1>5. id.at \in Nat /\ e.id.at \in Nat
  BY <1>3, SizesAssumption DEF Id
<1> QED
  BY <1>2, <1>3, <1>4, <1>5 DEF HeldInOrder, Earlier

\* Time goes on.
LEMMA ClockStep ==
    ASSUME SyncInv, Next
    PROVE  clock \in Nat /\ clock' \in Nat /\ clock <= clock'
<1>1. clock \in Nat
  BY SizesAssumption DEF SyncInv, TypeOK
<1>2. clock' = clock \/ clock' = clock + 1
  BY HoldingSteps, RecordHolds, StoreHolds
<1> QED
  BY <1>1, <1>2

LEMMA OriginsStep ==
    ASSUME SyncInv, Origins, Next
    PROVE  Origins'
<1>1. ASSUME NEW id \in Id, Recorded(id) PROVE Recorded(id)'
  BY <1>1, NothingLost, ClientsAssumption DEF Recorded, Id
<1>2. ASSUME NEW id \in LoggedIds' PROVE Recorded(id)'
  <2>1. ASSUME NEW i \in LoggedIds PROVE i \in Id
    BY LogItems DEF SyncInv, LoggedIds, Entry
  <2>2. CASE id \in LoggedIds
    BY <1>1, <2>1, <2>2 DEF Origins
  <2>3. CASE id \notin LoggedIds
    <3>1. PICK m \in Machines : id \in Id /\ local[m][id] # Absent
      BY <1>2, <2>3, CopySteps DEF RemoteStep
    <3> QED
      BY <1>1, <3>1 DEF Origins
  <2> QED
    BY <2>2, <2>3
<1>3. ASSUME NEW m \in Machines, NEW id \in Id, local'[m][id] # Absent
      PROVE  Recorded(id)'
  <2>1. CASE local'[m][id] = local[m][id]
    BY <1>1, <1>3, <2>1 DEF Origins
  <2>2. CASE local'[m][id] # local[m][id]
    <3>1. ASSUME NEW s \in Sessions, Record(s) PROVE Recorded(id)'
      BY <1>3, <2>2, <3>1, RecordHolds DEF Recorded
    <3>2. ASSUME NEW c \in Clients, Store(c) PROVE Recorded(id)'
      BY <1>1, <2>2, <3>2, StoreHolds DEF Origins
    <3> QED
      BY <2>2, <3>1, <3>2, HoldingSteps
  <2> QED
    BY <2>1, <2>2
<1>4. ASSUME NEW id \in Id, Recorded(id)' PROVE id.at <= clock'
  <2>1. id.at \in Nat
    BY SizesAssumption DEF Id
  <2> QED
    BY <1>4, <2>1, NewlyRecorded, ClockStep DEF Origins
<1> QED
  BY <1>2, <1>3, <1>4 DEF Origins

LEMMA LogInOrderStep ==
    ASSUME SyncInv, Origins, LogInOrder, \A c \in Clients : PushInOrder(c), Next
    PROVE  LogInOrder'
<1>t. log' \in Seq(Entry)
  BY TypeStep DEF TypeOK
<1>i. \A j \in DOMAIN log' : log'[j].id \in Id
  <2>1. \A j \in DOMAIN log' : log'[j] \in Entry
    BY <1>t
  <2> QED
    BY <2>1 DEF Entry
<1> SUFFICES ASSUME NEW j \in DOMAIN log', NEW id \in Id, Earlier(id, log[j].id)'
             PROVE  \E i \in DOMAIN log' : i < j /\ log'[i].id = id
  BY DEF LogInOrder, Earlier, Recorded
<1>o. PICK x \in Id : x = log'[j].id /\ Earlier(id, x)'
  BY <1>i DEF Earlier, Recorded
<1>1. log \in Seq(Entry) /\ Len(log) \in Nat /\ DOMAIN log = 1 .. Len(log)
  BY DEF SyncInv, TypeOK
<1>2. \A i \in DOMAIN log : log[i].id \in Id /\ Recorded(log[i].id)
  BY LogItems DEF SyncInv, Entry, Origins
<1>3. CASE j \in DOMAIN log /\ log'[j].id = log[j].id
           /\ \A i \in DOMAIN log : i \in DOMAIN log' /\ log'[i].id = log[i].id
  <2>1. Earlier(id, log[j].id)
    BY <1>o, <1>2, <1>3, NoNewEarlier
  <2> QED
    BY <1>3, <2>1 DEF LogInOrder
<1>4. ASSUME NEW c \in Clients, NEW r \in Entry,
             pc[c] \in {"append", "insert"}, job[c].todo # {},
             r.id = First(job[c].todo).id, log' = Append(log, r)
      PROVE  \E i \in DOMAIN log' : i < j /\ log'[i].id = id
  <2> DEFINE e == First(job[c].todo)
  <2>1. DOMAIN log' = 1 .. Len(log) + 1 /\ log'[Len(log) + 1] = r
    BY <1>1, <1>4
  <2>2. \A i \in DOMAIN log : i \in DOMAIN log' /\ log'[i] = log[i]
    BY <1>1, <1>4
  <2>3. CASE j \in DOMAIN log
    BY <1>3, <2>2, <2>3
  <2>4. CASE j \notin DOMAIN log
    <3>1. j = Len(log) + 1 /\ log'[j].id = e.id
      BY <1>1, <1>4, <2>1, <2>4
    <3>2. e \in job[c].todo /\ pc[c] \in Pushing
      BY <1>4, JobType, FirstItem DEF SyncInv, Pushing
    <3>3. e.id \in Id /\ local[MachineOf[c]][e.id] # Absent /\ MachineOf[c] \in Machines
      BY <3>2, JobType DEF SyncInv, Item, Provenance
    <3>4. Recorded(e.id)
      BY <3>3 DEF Origins
    <3>5. Earlier(id, e.id)
      BY <1>o, <3>1, <3>4, NoNewEarlier
    <3>6. id \in LoggedIds
      BY <1>4, <3>2, <3>5, EarlierFirst
    <3>7. PICK i \in DOMAIN log : log[i].id = id
      BY <3>6 DEF LoggedIds
    <3> QED
      BY <1>1, <2>2, <3>1, <3>7
  <2> QED
    BY <2>3, <2>4
<1> QED
  BY <1>3, <1>4, LogMoves

LEMMA HeldInOrderStep ==
    ASSUME SyncInv, Origins, HeldInOrder, \A c \in Clients : NewInOrder(c), Next
    PROVE  HeldInOrder'
<1> SUFFICES ASSUME NEW m \in Machines, NEW x \in Id, NEW id \in Id,
                    local'[m][x] # Absent, Earlier(id, x)'
             PROVE  local'[m][id] # Absent
  BY DEF HeldInOrder
<1>1. CASE local'[m][x] = local[m][x]
  <2>1. Recorded(x)
    BY <1>1 DEF Origins
  <2> QED
    BY <1>1, <2>1, NoNewEarlier, NothingLost DEF HeldInOrder
<1>2. CASE local'[m][x] # local[m][x]
  <2>1. ASSUME NEW s \in Sessions, Record(s) PROVE local'[m][id] # Absent
    BY <1>2, <2>1, RecordHolds DEF Earlier, Recorded
  <2>2. ASSUME NEW c \in Clients, Store(c) PROVE local'[m][id] # Absent
    <3> DEFINE e == First(job[c].pulled)
    <3>1. m = MachineOf[c] /\ x = e.id /\ e.id \in LoggedIds
      BY <1>2, <2>2, StoreHolds
    <3>2. Earlier(id, e.id)
      BY <3>1, NoNewEarlier DEF Origins
    <3> HIDE DEF e
    <3>3. local[m][id] # Absent
      BY <2>2, <3>1, <3>2, StoredFirst DEF e
    <3> QED
      BY <3>3, NothingLost
  <2> QED
    BY <1>2, <2>1, <2>2, HoldingSteps
<1> QED
  BY <1>1, <1>2

-----------------------------------------------------------------------------
(* The metadata of a machine. *)

\* A refresh brings the metadata of its session up to the new instant.
LEMMA RecordProjects ==
    ASSUME SyncInv, NEW s \in Sessions, Record(s), NEW m \in Machines, NEW t \in Sessions
    PROVE  IF m = OwnerOf[s] /\ t = s
           THEN row'[m][t] = clock + 1 /\ transcript'[m][t] = clock + 1
           ELSE row'[m][t] = row[m][t] /\ transcript'[m][t] = transcript[m][t]
BY DEF Record, SyncInv, TypeOK

\* Ingesting an item sets the row of its session, then the chunks.
LEMMA IngestProjects ==
    ASSUME SyncInv, NEW c \in Clients, IngestRow(c) \/ IngestChunks(c),
           NEW e, e = First(job[c].todo)
    PROVE  /\ e \in job[c].todo /\ e \in Item /\ e.id \in Id /\ e.id.session \in Sessions
           /\ MachineOf[c] \in Machines /\ e.id.at \in Nat /\ local' = local /\ clock' = clock
           /\ IngestRow(c) => transcript' = transcript /\ row'[MachineOf[c]][e.id.session] = e.id.at
           /\ IngestChunks(c) => row' = row /\ transcript'[MachineOf[c]][e.id.session] = e.id.at
           /\ \A m \in Machines, s \in Sessions :
                ~ (m = MachineOf[c] /\ s = e.id.session) =>
                    row'[m][s] = row[m][s] /\ transcript'[m][s] = transcript[m][s]
<1>1. e \in job[c].todo /\ e \in Item
  BY JobType, FirstItem DEF IngestRow, IngestChunks, SyncInv, Provenance
<1>2. e.id \in Id /\ e.id.session \in Sessions /\ e.id.at \in Nat /\ MachineOf[c] \in Machines
  BY <1>1, JobType, SizesAssumption DEF Item, Id, SyncInv
<1>3. /\ row \in [Machines -> [Sessions -> 0 .. MaxTime]]
      /\ transcript \in [Machines -> [Sessions -> 0 .. MaxTime]]
  BY DEF SyncInv, TypeOK
<1>4. /\ IngestRow(c) => /\ row' = [row EXCEPT ![MachineOf[c]][e.id.session] = e.id.at]
                         /\ transcript' = transcript
      /\ IngestChunks(c) => /\ transcript' = [transcript EXCEPT ![MachineOf[c]][e.id.session] = e.id.at]
                            /\ row' = row
      /\ local' = local /\ clock' = clock
  BY DEF IngestRow, IngestChunks
<1>5. CASE IngestRow(c)
  <2>1. row'[MachineOf[c]][e.id.session] = e.id.at
    BY <1>2, <1>3, <1>4, <1>5
  <2>2. \A m \in Machines, s \in Sessions :
            ~ (m = MachineOf[c] /\ s = e.id.session) => row'[m][s] = row[m][s]
    BY <1>2, <1>3, <1>4, <1>5
  <2>3. ~ IngestChunks(c)
    BY <1>5 DEF IngestRow, IngestChunks
  <2> QED
    BY <1>1, <1>2, <1>4, <1>5, <2>1, <2>2, <2>3
<1>6. CASE IngestChunks(c)
  <2>1. transcript'[MachineOf[c]][e.id.session] = e.id.at
    BY <1>2, <1>3, <1>4, <1>6
  <2>2. \A m \in Machines, s \in Sessions :
            ~ (m = MachineOf[c] /\ s = e.id.session) => transcript'[m][s] = transcript[m][s]
    BY <1>2, <1>3, <1>4, <1>6
  <2>3. ~ IngestRow(c)
    BY <1>6 DEF IngestRow, IngestChunks
  <2> QED
    BY <1>1, <1>2, <1>4, <1>6, <2>1, <2>2, <2>3
<1> QED
  BY <1>5, <1>6

\* Nothing else touches the metadata.
LEMMA ProjectingSteps ==
    ASSUME Next
    PROVE  \/ UNCHANGED <<row, transcript>>
           \/ \E s \in Sessions : Record(s)
           \/ \E c \in Clients : IngestRow(c) \/ IngestChunks(c)
<1>1. ASSUME NEW c \in Clients,
             \/ \E r \in Targets(c) : BeginPush(c, r)
             \/ Receive(c) \/ Append1(c) \/ InsertEvent(c) \/ InsertChunks(c)
             \/ EndChunks(c) \/ EndPush(c) \/ BeginPull(c) \/ FetchPage(c)
             \/ FetchEvents(c) \/ FetchChunks(c) \/ Dedupe(c) \/ EndIngest(c)
             \/ Store(c) \/ EndPull(c) \/ Fail(c)
      PROVE  UNCHANGED <<row, transcript>>
  BY <1>1 DEF BeginPush, Receive, Append1, InsertEvent, InsertChunks, EndChunks,
              EndPush, BeginPull, FetchPage, FetchEvents, FetchChunks, Dedupe, EndIngest,
              Store, EndPull, Fail, machineVars
<1> QED
  BY <1>1 DEF Next, Step

\* No step leaves a machine's metadata behind its events.
LEMMA NotBehindStep ==
    ASSUME SyncInv, Origins, HeldInOrder, \A c \in Clients : IngestInOrder(c),
           MetadataNotBehind, Next
    PROVE  MetadataNotBehind'
<1> DEFINE Good(m, id) ==
            /\ row[m][id.session] >= id.at
            /\ local[m][id] > 0 => transcript[m][id.session] >= id.at
<1> SUFFICES ASSUME NEW m \in Machines, NEW id \in Id, local'[m][id] # Absent
             PROVE  Good(m, id)'
  BY DEF MetadataNotBehind
<1>1. id.session \in Sessions /\ id.at \in Nat /\ clock \in Nat
  BY SizesAssumption, ClockStep DEF Id
<1>2. local[m][id] # Absent => Good(m, id)
  BY DEF MetadataNotBehind
<1>3. CASE local' = local /\ UNCHANGED <<row, transcript>>
  BY <1>2, <1>3
<1>4. ASSUME NEW s \in Sessions, Record(s) PROVE Good(m, id)'
  <2>1. CASE m = OwnerOf[s] /\ id.session = s
    <3>1. row'[m][id.session] = clock + 1 /\ transcript'[m][id.session] = clock + 1
      BY <1>1, <1>4, <2>1, RecordProjects
    <3>2. id.at <= clock + 1
      <4>1. CASE local'[m][id] = local[m][id]
        BY <1>1, <4>1 DEF Origins
      <4>2. CASE local'[m][id] # local[m][id]
        BY <1>1, <1>4, <4>2, RecordHolds
      <4> QED
        BY <4>1, <4>2
    <3> QED
      BY <1>1, <3>1, <3>2
  <2>2. CASE ~ (m = OwnerOf[s] /\ id.session = s)
    <3>1. /\ row'[m][id.session] = row[m][id.session]
          /\ transcript'[m][id.session] = transcript[m][id.session]
      BY <1>1, <1>4, <2>2, RecordProjects
    <3>2. local'[m][id] = local[m][id]
      BY <1>4, <2>2, RecordHolds
    <3> QED
      BY <1>2, <3>1, <3>2
  <2> QED
    BY <2>1, <2>2
<1>5. ASSUME NEW c \in Clients, IngestRow(c) \/ IngestChunks(c) PROVE Good(m, id)'
  <2>1. PICK e : e = First(job[c].todo)
    OBVIOUS
  <2>2. local' = local /\ local[m][id] # Absent
    BY <1>5, <2>1, IngestProjects
  <2>3. CASE m = MachineOf[c] /\ id.session = e.id.session
    <3>1. id.at <= e.id.at
      BY <1>5, <2>1, <2>2, <2>3, ProjectedNewest
    <3>2. /\ IngestRow(c) => transcript' = transcript /\ row'[m][id.session] = e.id.at
          /\ IngestChunks(c) => row' = row /\ transcript'[m][id.session] = e.id.at
          /\ e.id.at \in Nat
      BY <1>5, <2>1, <2>3, IngestProjects
    <3> QED
      BY <1>1, <1>2, <1>5, <2>2, <3>1, <3>2
  <2>4. CASE ~ (m = MachineOf[c] /\ id.session = e.id.session)
    <3>1. row'[m][id.session] = row[m][id.session]
          /\ transcript'[m][id.session] = transcript[m][id.session]
      BY <1>1, <1>5, <2>1, <2>4, IngestProjects
    <3> QED
      BY <1>2, <2>2, <3>1
  <2> QED
    BY <2>3, <2>4
<1>6. ASSUME NEW c \in Clients, Store(c) PROVE Good(m, id)'
  <2>1. PICK e : e = First(job[c].pulled)
    OBVIOUS
  <2>2. /\ e \in job[c].pulled /\ row' = row /\ transcript' = transcript
        /\ local'[MachineOf[c]][e.id] = e.parts
        /\ local'[m][id] # local[m][id] => m = MachineOf[c] /\ id = e.id
    BY <1>6, <2>1, StoreHolds
  <2>3. CASE m = MachineOf[c] /\ id = e.id
    <3>1. Projected(m, e)
      BY <1>6, <2>2, <2>3 DEF IngestInOrder, Store
    <3> QED
      BY <2>2, <2>3, <3>1 DEF Projected
  <2>4. CASE local'[m][id] = local[m][id]
    BY <1>2, <2>2, <2>4
  <2> QED
    BY <2>2, <2>3, <2>4
<1>7. \/ local' = local /\ UNCHANGED <<row, transcript>>
      \/ \E s \in Sessions : Record(s)
      \/ \E c \in Clients : IngestRow(c) \/ IngestChunks(c)
      \/ \E c \in Clients : Store(c)
  <2>1. ASSUME NEW c \in Clients, Store(c) PROVE UNCHANGED <<row, transcript>>
    BY <2>1 DEF Store
  <2>2. ASSUME NEW c \in Clients, IngestRow(c) \/ IngestChunks(c) PROVE local' = local
    BY <2>2 DEF IngestRow, IngestChunks
  <2> QED
    BY <2>1, <2>2, HoldingSteps, ProjectingSteps
<1> QED
  BY <1>3, <1>4, <1>5, <1>6, <1>7

-----------------------------------------------------------------------------
(* Pushes go in order. *)

\* A push that sends its items, each once what came before it is logged.
LEMMA PushGoesOn ==
    ASSUME SyncInv, Origins, Next, NEW c \in Clients, PushInOrder(c), pc[c] \in Pushing,
           job'[c].todo \subseteq job[c].todo,
           \A x \in job[c].todo \ job'[c].todo : x.id \in LoggedIds',
           pc'[c] = "append" => job'[c].existing \subseteq LoggedIds',
           pc'[c] = "chunks" => First(job'[c].todo).id \in LoggedIds'
    PROVE  PushInOrder(c)'
<1> SUFFICES ASSUME NEW x \in job'[c].todo, NEW id \in Id, Earlier(id, x.id)'
             PROVE  id \in LoggedIds' \/ \E y \in job'[c].todo : y.id = id
  BY DEF PushInOrder, Earlier, Recorded
<1>1. x \in job[c].todo /\ x.id \in Id /\ MachineOf[c] \in Machines
  BY JobType DEF SyncInv, Item
<1>2. Recorded(x.id)
  BY <1>1 DEF SyncInv, Provenance, Origins
<1>3. Earlier(id, x.id)
  BY <1>1, <1>2, NoNewEarlier
<1>4. id \in LoggedIds \/ \E y \in job[c].todo : y.id = id
  BY <1>1, <1>3 DEF PushInOrder
<1> QED
  BY <1>4, NothingLost

\* What a push has handled is in the log.
LEMMA HandledIsLogged ==
    ASSUME SyncInv, NEW c \in Clients, PushInOrder(c), Append1(c) \/ InsertEvent(c),
           NEW e, e = First(job[c].todo)
    PROVE  e.id \in LoggedIds'
<1>1. e \in Item
  BY JobType, FirstItem DEF Append1, InsertEvent, SyncInv
<1>2. log \in Seq(Entry)
  BY DEF SyncInv, TypeOK
<1>3. CASE log' = log
  <2>1. e.id \in LoggedIds
    BY <1>2, <1>3 DEF Append1, InsertEvent, PushInOrder, Pushing
  <2> QED
    BY <1>3, <2>1 DEF LoggedIds
<1>4. ASSUME NEW r \in Entry, r.id = e.id, log' = Append(log, r)
      PROVE  e.id \in LoggedIds'
  BY <1>2, <1>4, AppendedIds
<1>5. /\ [id |-> e.id, parts |-> e.parts] \in Entry
      /\ [id |-> e.id, parts |-> 0] \in Entry
  BY <1>1, SizesAssumption DEF Item, Entry
<1>6. \/ log' = log
      \/ log' = Append(log, [id |-> e.id, parts |-> e.parts])
      \/ log' = Append(log, [id |-> e.id, parts |-> 0])
  BY DEF Append1, InsertEvent
<1> QED
  BY <1>3, <1>4, <1>5, <1>6

\* A step of any client keeps every push in order.
LEMMA PushInOrderStep ==
    ASSUME SyncInv, Origins, HeldInOrder, Next, NEW d \in Clients, PushInOrder(d)
    PROVE  PushInOrder(d)'
<1>1. pc \in [Clients -> Labels] /\ job \in [Clients -> Job]
  BY DEF SyncInv, TypeOK
<1>2. CASE pc'[d] = pc[d] /\ job'[d] = job[d]
  <2>1. CASE pc[d] \in Pushing
    BY <1>2, <2>1, PushGoesOn, NothingLost DEF PushInOrder
  <2>2. CASE pc[d] \notin Pushing
    BY <1>2, <2>2 DEF PushInOrder
  <2> QED
    BY <2>1, <2>2
<1>3. CASE pc'[d] \notin Pushing
  BY <1>3 DEF PushInOrder
<1>4. ASSUME NEW r \in Targets(d), BeginPush(d, r) PROVE PushInOrder(d)'
  <2>1. /\ job'[d].todo = Collected(d, r) /\ pc'[d] \notin {"append", "chunks"}
        /\ local' = local
    BY <1>1, <1>4 DEF BeginPush, Goto, NoJob, machineVars
  <2> SUFFICES ASSUME NEW x \in Collected(d, r)
               PROVE  /\ x.pos = x.id.at
                      /\ \A id \in Id : Earlier(id, x.id) =>
                            \E y \in Collected(d, r) : y.id = id
    BY <2>1 DEF PushInOrder, Earlier, Recorded
  <2>2. /\ x.id \in Id /\ local[MachineOf[d]][x.id] # Absent /\ RepoOf[x.id.session] = r
        /\ x.pos = x.id.at
    BY DEF Collected, HeldOf
  <2>3. ASSUME NEW id \in Id, Earlier(id, x.id)
        PROVE  \E y \in Collected(d, r) : y.id = id
    <3>1. local[MachineOf[d]][id] # Absent
      BY <2>2, <2>3, JobType DEF HeldInOrder, SyncInv
    <3>2. id \in HeldOf(MachineOf[d], r)
      BY <2>2, <2>3, <3>1 DEF Earlier, HeldOf
    <3>3. [pos |-> id.at, id |-> id, parts |-> local[MachineOf[d]][id]] \in Collected(d, r)
      BY <3>2 DEF Collected
    <3> QED
      BY <3>3
  <2> QED
    BY <2>2, <2>3
<1>5. CASE Receive(d)
  <2>1. /\ job'[d].todo = job[d].todo /\ job'[d].existing = LoggedIds
        /\ pc'[d] = "append" /\ pc[d] \in Pushing
    BY <1>1, <1>5 DEF Receive, Goto, Job, Pushing
  <2> QED
    BY <2>1, PushGoesOn, NothingLost
<1>6. CASE Append1(d)
  <2> DEFINE e == First(job[d].todo)
  <2>1. /\ job'[d].todo = job[d].todo \ {e} /\ job'[d].existing = job[d].existing
        /\ pc'[d] = "append" /\ pc[d] = "append"
    BY <1>1, <1>6 DEF Append1, Job
  <2>2. e.id \in LoggedIds'
    BY <1>6, HandledIsLogged
  <2>3. job[d].existing \subseteq LoggedIds'
    BY <2>1, NothingLost DEF PushInOrder, Pushing
  <2> HIDE DEF e
  <2> QED
    BY <2>1, <2>2, <2>3, PushGoesOn DEF Pushing
<1>7. CASE InsertEvent(d)
  <2>1. /\ job' = job /\ pc'[d] = "chunks" /\ pc[d] \in Pushing
    BY <1>1, <1>7 DEF InsertEvent, Goto, Pushing
  <2>2. First(job[d].todo).id \in LoggedIds'
    BY <1>7, HandledIsLogged
  <2> QED
    BY <2>1, <2>2, PushGoesOn
<1>8. CASE InsertChunks(d)
  <2>1. /\ job'[d].todo = job[d].todo /\ pc'[d] = "chunks" /\ pc[d] = "chunks"
    BY <1>1, <1>8 DEF InsertChunks, Job
  <2>2. First(job[d].todo).id \in LoggedIds'
    BY <2>1, NothingLost DEF PushInOrder, Pushing
  <2> QED
    BY <2>1, <2>2, PushGoesOn DEF Pushing
<1>9. CASE EndChunks(d)
  <2> DEFINE e == First(job[d].todo)
  <2>1. /\ job'[d].todo = job[d].todo \ {e}
        /\ pc'[d] = "insert" /\ pc[d] = "chunks"
    BY <1>1, <1>9 DEF EndChunks, Goto, Job
  <2>2. e.id \in LoggedIds'
    BY <2>1, NothingLost DEF PushInOrder, Pushing
  <2> HIDE DEF e
  <2> QED
    BY <2>1, <2>2, PushGoesOn DEF Pushing
<1>10. ASSUME NEW c \in Clients,
              \/ \E r \in Targets(c) : BeginPush(c, r)
              \/ Receive(c) \/ Append1(c) \/ InsertEvent(c) \/ InsertChunks(c)
              \/ EndChunks(c),
              c # d
       PROVE  pc'[d] = pc[d] /\ job'[d] = job[d]
  BY <1>1, <1>10 DEF BeginPush, Receive, Append1, InsertEvent, InsertChunks, EndChunks, Goto
<1>11. ASSUME NEW c \in Clients,
              \/ EndPush(c) \/ BeginPull(c) \/ FetchPage(c)
              \/ FetchEvents(c) \/ FetchChunks(c) \/ Dedupe(c) \/ IngestRow(c)
              \/ IngestChunks(c) \/ EndIngest(c) \/ Store(c) \/ EndPull(c) \/ Fail(c)
       PROVE  (pc'[d] = pc[d] /\ job'[d] = job[d]) \/ pc'[d] \notin Pushing
  BY <1>1, <1>11
     DEF EndPush, BeginPull, FetchPage, FetchEvents, FetchChunks, Dedupe, IngestRow,
         IngestChunks, EndIngest, Store, EndPull, Fail, Finish, Goto, Pushing
<1>12. ASSUME NEW s \in Sessions, Record(s) PROVE pc'[d] = pc[d] /\ job'[d] = job[d]
  BY <1>12 DEF Record
<1> QED
  BY <1>2, <1>3, <1>4, <1>5, <1>6, <1>7, <1>8, <1>9, <1>10, <1>11, <1>12 DEF Next, Step

-----------------------------------------------------------------------------
(* Pulls fetch in order. *)

\* A pull that fetches nothing in a step keeps what it has in order.
LEMMA FetchGoesOn ==
    ASSUME SyncInv, Origins, Next, NEW c \in Clients, FetchInOrder(c),
           pc[c] \notin Pushing, pc'[c] \notin Pushing,
           \/ pc'[c] = pc[c] /\ job'[c] = job[c]
           \/ /\ pc'[c] \notin {"page", "attach", "dedupe"}
              /\ job'[c].pulled \subseteq job[c].pulled
    PROVE  FetchInOrder(c)'
<1>1. \A x \in job'[c].pulled : RepoOf[x.id.session] = Repo[c]
  BY DEF FetchInOrder
<1>2. CASE pc'[c] = pc[c] /\ job'[c] = job[c]
  <2>1. ASSUME pc'[c] = "page", NEW x \in job'[c].pulled
        PROVE  x.pos \in DOMAIN log' /\ log'[x.pos].id = x.id
    <3>1. x.pos \in DOMAIN log /\ log[x.pos].id = x.id
      BY <1>2, <2>1 DEF FetchInOrder
    <3>2. LogGrows
      BY LogStep
    <3>3. x.pos \in DOMAIN log'
      <4>1. DOMAIN log = 1 .. Len(log) /\ Len(log) \in Nat
        BY DEF SyncInv, TypeOK
      <4> QED
        BY <3>1, <3>2, <4>1 DEF LogGrows
    <3> QED
      BY <3>1, <3>2, <3>3 DEF LogGrows
  <2>2. ASSUME pc'[c] \in {"page", "attach", "dedupe"}, NEW x \in job'[c].pulled,
               NEW id \in Id, Earlier(id, x.id)'
        PROVE  \E y \in job'[c].pulled : y.id = id /\ y.pos < x.pos
    <3>1. x.id \in Id /\ x.id \in LoggedIds
      BY <1>2, <2>2, JobType DEF SyncInv, Provenance, Item
    <3>2. Earlier(id, x.id)
      BY <2>2, <3>1, NoNewEarlier DEF Origins
    <3> QED
      BY <1>2, <2>2, <3>2 DEF FetchInOrder
  <2> QED
    BY <1>1, <2>1, <2>2 DEF FetchInOrder, Earlier, Recorded
<1>3. CASE pc'[c] \notin {"page", "attach", "dedupe"}
  BY <1>1, <1>3 DEF FetchInOrder
<1> QED
  BY <1>2, <1>3

\* The lines of a session stand in the log in the order of its versions, and
\* a pull asks for all of them or none.
LEMMA EarlierLine ==
    ASSUME SyncInv, LogInOrder, ~ GlobalPull, NEW c \in Clients,
           NEW j \in Matching(c), NEW id \in Id, Earlier(id, log[j].id)
    PROVE  /\ RepoOf[log[j].id.session] = Repo[c]
           /\ \E i \in Matching(c) : i < j /\ log[i].id = id
<1>1. j \in DOMAIN log /\ RepoOf[log[j].id.session] = Repo[c]
  BY DEF Matching
<1>2. PICK i \in DOMAIN log : i < j /\ log[i].id = id
  BY <1>1 DEF LogInOrder
<1>3. i \in Matching(c)
  BY <1>1, <1>2 DEF Matching, Earlier
<1> QED
  BY <1>1, <1>2, <1>3

\* A page continues the order.
LEMMA PageInOrder ==
    ASSUME SyncInv, LogInOrder, PagesAreGapless, ~ GlobalPull,
           NEW c \in Clients, FetchInOrder(c), FetchPage(c)
    PROVE  FetchInOrder(c)'
<1> DEFINE items == {[pos |-> i, id |-> log[i].id, parts |-> log[i].parts] : i \in Page(c)}
<1>1. /\ pc[c] = "page" /\ log' = log /\ local' = local
      /\ job'[c].pulled = job[c].pulled \cup items
  BY DEF FetchPage, SyncInv, TypeOK, Job, machineVars
<1>2. ASSUME NEW x \in items
      PROVE  /\ x.pos \in Page(c) /\ x.pos \in Matching(c) /\ x.pos \in DOMAIN log
             /\ log[x.pos].id = x.id
             /\ RepoOf[x.id.session] = Repo[c]
  <2>1. PICK i \in Page(c) : x = [pos |-> i, id |-> log[i].id, parts |-> log[i].parts]
    OBVIOUS
  <2>2. i \in Matching(c) /\ i \in DOMAIN log /\ RepoOf[log[i].id.session] = Repo[c]
    BY DEF Page, Rest, Matching
  <2> QED
    BY <2>1, <2>2
<1>3. ASSUME NEW i \in Page(c) PROVE \E y \in items : y.pos = i /\ y.id = log[i].id
  <2>1. [pos |-> i, id |-> log[i].id, parts |-> log[i].parts] \in items
    OBVIOUS
  <2> QED
    BY <2>1
<1> HIDE DEF items
<1>4. \A x \in job'[c].pulled :
        /\ RepoOf[x.id.session] = Repo[c]
        /\ x.pos \in DOMAIN log' /\ log'[x.pos].id = x.id
  BY <1>1, <1>2 DEF FetchInOrder, Pushing
<1>5. ASSUME NEW x \in job'[c].pulled, NEW id \in Id, Earlier(id, x.id)
      PROVE  \E y \in job'[c].pulled : y.id = id /\ y.pos < x.pos
  <2>1. CASE x \in job[c].pulled
    BY <1>1, <1>5, <2>1 DEF FetchInOrder
  <2>2. CASE x \in items
    <3>1. PICK i \in Matching(c) : i < x.pos /\ log[i].id = id
      BY <1>2, <1>5, <2>2, EarlierLine
    <3>2. i \in Nat /\ x.pos \in Nat /\ job[c].cursor \in Nat
      BY <1>2, <2>2, <3>1, LogItems, JobType DEF Matching, SyncInv, Job
    <3>3. CASE i <= job[c].cursor
      <4>1. i \in {y.pos : y \in job[c].pulled}
        BY <1>1, <3>1, <3>3 DEF PagesAreGapless
      <4>2. PICK y \in job[c].pulled : y.pos = i
        BY <4>1
      <4>3. y.id = id
        BY <1>1, <3>1, <4>2 DEF FetchInOrder
      <4> QED
        BY <1>1, <3>1, <4>2, <4>3
    <3>4. CASE i > job[c].cursor
      <4>1. i \in Rest(c)
        BY <3>1, <3>4 DEF Rest
      <4>2. i \in Page(c)
        <5>1. CASE Page(c) = Rest(c)
          BY <4>1, <5>1
        <5>2. CASE Page(c) # Rest(c)
          <6>1. /\ NextCursor(c) \in Page(c)
                /\ Page(c) = {k \in Rest(c) : k <= NextCursor(c)}
            BY <5>2, PageIsPrefix DEF SyncInv
          <6>2. NextCursor(c) \in Nat
            BY <5>2, PageFacts DEF SyncInv
          <6>3. x.pos <= NextCursor(c)
            BY <1>2, <2>2, <6>1
          <6>4. i <= NextCursor(c)
            BY <3>1, <3>2, <6>2, <6>3
          <6> QED
            BY <4>1, <6>1, <6>4
        <5> QED
          BY <5>1, <5>2
      <4> QED
        BY <1>1, <1>3, <3>1, <4>2
    <3> QED
      BY <3>2, <3>3, <3>4
  <2> QED
    BY <1>1, <1>5, <2>1, <2>2
<1> QED
  BY <1>1, <1>4, <1>5 DEF FetchInOrder, Earlier, Recorded

\* So do the two queries of Supabase.
LEMMA ListInOrder ==
    ASSUME SyncInv, LogInOrder, ~ GlobalPull,
           NEW c \in Clients, FetchInOrder(c), FetchEvents(c) \/ FetchChunks(c)
    PROVE  FetchInOrder(c)'
<1>1. log' = log /\ local' = local /\ pc'[c] # "page"
  BY DEF FetchEvents, FetchChunks, Goto, SyncInv, TypeOK, machineVars
<1>2. CASE FetchEvents(c)
  <2> DEFINE item(i) == [pos |-> log[i].id.at, id |-> log[i].id, parts |-> 0]
  <2>1. job'[c].pulled = {item(i) : i \in Matching(c)}
    BY <1>2 DEF FetchEvents, SyncInv, TypeOK, Job
  <2>2. ASSUME NEW j \in Matching(c), NEW id \in Id, Earlier(id, log[j].id)
        PROVE  \E y \in job'[c].pulled : y.id = id /\ y.pos < item(j).pos
    <3>1. PICK i \in Matching(c) : i < j /\ log[i].id = id
      BY <2>2, EarlierLine
    <3>2. item(i) \in job'[c].pulled /\ item(i).id = id /\ item(i).pos = id.at
      BY <2>1, <3>1
    <3> QED
      BY <2>2, <3>2 DEF Earlier
  <2>3. ASSUME NEW j \in Matching(c) PROVE RepoOf[item(j).id.session] = Repo[c]
    BY <2>3 DEF Matching
  <2> QED
    BY <1>1, <2>1, <2>2, <2>3 DEF FetchInOrder, Earlier, Recorded
<1>3. CASE FetchChunks(c)
  <2> DEFINE item(i) == [pos |-> log[i].id.at, id |-> log[i].id, parts |-> log[i].parts]
             lines == {j \in DOMAIN log : \E x \in job[c].pulled : x.id = log[j].id}
  <2>1. job'[c].pulled = {item(i) : i \in lines} /\ pc[c] = "attach"
    BY <1>3 DEF FetchChunks, SyncInv, TypeOK, Job
  <2>2. ASSUME NEW j \in lines
        PROVE  /\ RepoOf[item(j).id.session] = Repo[c]
               /\ \A id \in Id : Earlier(id, log[j].id) =>
                    \E y \in job'[c].pulled : y.id = id /\ y.pos < item(j).pos
    <3>1. PICK x \in job[c].pulled : x.id = log[j].id
      OBVIOUS
    <3>2. RepoOf[x.id.session] = Repo[c]
      BY <2>1 DEF FetchInOrder, Pushing
    <3>3. ASSUME NEW id \in Id, Earlier(id, log[j].id)
          PROVE  \E y \in job'[c].pulled : y.id = id /\ y.pos < item(j).pos
      <4>1. PICK y \in job[c].pulled : y.id = id
        BY <2>1, <3>1, <3>3 DEF FetchInOrder
      <4>2. PICK i \in DOMAIN log : log[i].id = id
        BY <3>3 DEF LogInOrder
      <4>3. i \in lines
        BY <4>1, <4>2
      <4>4. item(i) \in job'[c].pulled /\ item(i).id = id /\ item(i).pos = id.at
        BY <2>1, <4>2, <4>3
      <4> QED
        BY <3>3, <4>4 DEF Earlier
    <3> QED
      BY <3>1, <3>2, <3>3
  <2> QED
    BY <1>1, <2>1, <2>2 DEF FetchInOrder, Earlier, Recorded
<1> QED
  BY <1>2, <1>3

\* A step of any client keeps every pull in order.
LEMMA FetchInOrderStep ==
    ASSUME SyncInv, Origins, LogInOrder, PagesAreGapless, ~ GlobalPull, Next,
           NEW d \in Clients, FetchInOrder(d)
    PROVE  FetchInOrder(d)'
<1>1. pc \in [Clients -> Labels] /\ job \in [Clients -> Job]
  BY DEF SyncInv, TypeOK
<1>2. CASE pc'[d] \in Pushing
  BY <1>2 DEF FetchInOrder, Pushing
<1>3. CASE pc'[d] = pc[d] /\ job'[d] = job[d]
  BY <1>2, <1>3, FetchGoesOn
<1>4. CASE job'[d].pulled = {}
  BY <1>4 DEF FetchInOrder
<1>5. CASE FetchPage(d)
  BY <1>5, PageInOrder
<1>6. CASE FetchEvents(d) \/ FetchChunks(d)
  BY <1>6, ListInOrder
<1>7. CASE Dedupe(d) \/ IngestRow(d) \/ IngestChunks(d) \/ EndIngest(d) \/ Store(d)
  <2>1. /\ pc[d] \notin Pushing /\ pc'[d] \notin Pushing
        /\ pc'[d] \notin {"page", "attach", "dedupe"}
    BY <1>1, <1>7 DEF Dedupe, IngestRow, IngestChunks, EndIngest, Store, Goto, Pushing
  <2>2. job'[d].pulled \subseteq job[d].pulled
    <3>1. CASE Dedupe(d)
      BY <1>1, <3>1 DEF Dedupe, NoJob
    <3>2. CASE IngestRow(d) \/ IngestChunks(d) \/ EndIngest(d) \/ Store(d)
      BY <1>1, <3>2 DEF IngestRow, IngestChunks, EndIngest, Store, Job
    <3> QED
      BY <1>7, <3>1, <3>2
  <2> QED
    BY <2>1, <2>2, FetchGoesOn
<1>8. ASSUME NEW c \in Clients, c # d,
             \/ FetchPage(c) \/ FetchEvents(c) \/ FetchChunks(c) \/ Dedupe(c)
             \/ IngestRow(c) \/ IngestChunks(c) \/ EndIngest(c) \/ Store(c)
      PROVE  pc'[d] = pc[d] /\ job'[d] = job[d]
  BY <1>1, <1>8 DEF FetchPage, FetchEvents, FetchChunks, Dedupe, IngestRow, IngestChunks,
                    EndIngest, Store, Goto
<1>9. ASSUME NEW c \in Clients, EndPush(c) \/ BeginPull(c) \/ EndPull(c) \/ Fail(c)
      PROVE  (pc'[d] = pc[d] /\ job'[d] = job[d]) \/ job'[d].pulled = {}
  BY <1>1, <1>9 DEF EndPush, BeginPull, EndPull, Fail, Finish, Goto, NoJob
<1>10. ASSUME NEW c \in Clients,
              \/ \E r \in Targets(c) : BeginPush(c, r)
              \/ Receive(c) \/ Append1(c) \/ InsertEvent(c) \/ InsertChunks(c)
              \/ EndChunks(c)
       PROVE  (pc'[d] = pc[d] /\ job'[d] = job[d]) \/ pc'[d] \in Pushing
  BY <1>1, <1>10
     DEF BeginPush, Receive, Append1, InsertEvent, InsertChunks, EndChunks, Goto, Pushing
<1>11. ASSUME NEW s \in Sessions, Record(s) PROVE pc'[d] = pc[d] /\ job'[d] = job[d]
  BY <1>11 DEF Record
<1> QED
  BY <1>2, <1>3, <1>4, <1>5, <1>6, <1>7, <1>8, <1>9, <1>10, <1>11 DEF Next, Step

-----------------------------------------------------------------------------
(* Pulls store in order. *)

\* What a pull keeps when it drops what is known.
LEMMA DedupeFacts ==
    ASSUME SyncInv, Origins, NEW c \in Clients, FetchInOrder(c), Dedupe(c)
    PROVE  /\ \A x \in job'[c].pulled : local[MachineOf[c]][x.id] = Absent
           /\ job'[c].todo = job'[c].pulled
           /\ NewInOrder(c)'
<1> DEFINE new == {x \in job[c].pulled :
                    /\ x.id \notin Known(c)
                    /\ \A y \in job[c].pulled : y.id = x.id => x.pos <= y.pos}
<1>1. /\ job'[c].pulled = new /\ job'[c].todo = new
      /\ pc[c] = "dedupe" /\ local' = local
  BY DEF Dedupe, SyncInv, TypeOK, NoJob, machineVars
<1>2. ASSUME NEW x \in job[c].pulled
      PROVE  /\ x.id \in Id /\ x.id \in LoggedIds /\ Recorded(x.id) /\ x.pos \in Nat
             /\ RepoOf[x.id.session] = Repo[c]
  <2>1. x.id \in Id /\ x.pos \in Nat
    BY JobType DEF SyncInv, Item
  <2>2. x.id \in LoggedIds
    BY <1>1 DEF SyncInv, Provenance, Pushing
  <2> QED
    BY <1>1, <2>1, <2>2 DEF FetchInOrder, Pushing, Origins
<1>3. ASSUME NEW x \in new PROVE local[MachineOf[c]][x.id] = Absent
  BY <1>2 DEF Known, HeldOf
<1>4. ASSUME NEW x \in new, NEW y \in new,
             x.id.session = y.id.session, x.id.at < y.id.at
      PROVE  x.pos < y.pos
  <2>1. x \in job[c].pulled /\ y \in job[c].pulled
    OBVIOUS
  <2>2. Earlier(x.id, y.id) /\ x.id \in Id
    BY <1>2, <1>4, <2>1 DEF Earlier
  <2>3. PICK z \in job[c].pulled : z.id = x.id /\ z.pos < y.pos
    BY <1>1, <2>1, <2>2 DEF FetchInOrder
  <2>4. x.pos <= z.pos
    BY <2>3
  <2>5. x.pos \in Nat /\ y.pos \in Nat /\ z.pos \in Nat
    BY <1>2, <2>1
  <2> QED
    BY <2>3, <2>4, <2>5
<1>5. ASSUME NEW x \in new, NEW id \in Id, Earlier(id, x.id),
             local[MachineOf[c]][id] = Absent
      PROVE  \E y \in new : y.id = id
  <2> DEFINE S == {y \in job[c].pulled : y.id = id}
             P == {y.pos : y \in S}
  <2>1. S # {}
    BY <1>1, <1>5 DEF FetchInOrder
  <2>2. P \in SUBSET Nat /\ P # {}
    BY <1>2, <2>1
  <2>3. PICK p \in P : \A q \in P : p <= q
    BY <2>2, LeastElement
  <2>4. PICK y \in S : y.pos = p
    OBVIOUS
  <2>5. \A z \in job[c].pulled : z.id = y.id => y.pos <= z.pos
    BY <2>3, <2>4
  <2>6. y.id \notin Known(c)
    BY <1>5, <2>4 DEF Known, HeldOf
  <2>7. y \in new
    BY <2>4, <2>5, <2>6
  <2> QED
    BY <2>4, <2>7
<1> HIDE DEF new
<1>6. NewInOrder(c)'
  BY <1>1, <1>4, <1>5 DEF NewInOrder, Earlier, Recorded
<1> QED
  BY <1>1, <1>3, <1>6

\* The places of a client that has new events.
Storing == {"ingest", "ingestChunks", "store"}

\* A pull that only puts events away keeps the others in order.
LEMMA NewGoesOn ==
    ASSUME SyncInv, Origins, Next, NEW c \in Clients, NewInOrder(c),
           pc[c] \in Storing, job'[c].pulled \subseteq job[c].pulled,
           \A x \in job[c].pulled \ job'[c].pulled : local'[MachineOf[c]][x.id] # Absent
    PROVE  NewInOrder(c)'
<1>1. \A x, y \in job'[c].pulled :
        x.id.session = y.id.session /\ x.id.at < y.id.at => x.pos < y.pos
  BY DEF NewInOrder, Storing
<1>2. ASSUME NEW x \in job'[c].pulled, NEW id \in Id, Earlier(id, x.id)'
      PROVE  \/ local'[MachineOf[c]][id] # Absent
             \/ \E y \in job'[c].pulled : y.id = id
  <2>1. x \in job[c].pulled /\ x.id \in Id /\ x.id \in LoggedIds /\ MachineOf[c] \in Machines
    BY JobType DEF SyncInv, Item, Provenance, Storing, Pushing
  <2>2. Earlier(id, x.id)
    BY <1>2, <2>1, NoNewEarlier DEF Origins
  <2>3. \/ local[MachineOf[c]][id] # Absent
        \/ \E y \in job[c].pulled : y.id = id
    BY <2>1, <2>2 DEF NewInOrder, Storing
  <2> QED
    BY <2>1, <2>3, NothingLost
<1> QED
  BY <1>1, <1>2 DEF NewInOrder, Earlier, Recorded

\* How a step moves a client that has new events.
LEMMA StoringSteps ==
    ASSUME SyncInv, Next, NEW d \in Clients
    PROVE  \/ pc'[d] = pc[d] /\ job'[d] = job[d]
           \/ pc'[d] \notin Storing
           \/ Dedupe(d) \/ IngestRow(d) \/ IngestChunks(d) \/ EndIngest(d) \/ Store(d)
<1>1. pc \in [Clients -> Labels] /\ job \in [Clients -> Job]
  BY DEF SyncInv, TypeOK
<1>2. ASSUME NEW c \in Clients, c # d,
             Dedupe(c) \/ IngestRow(c) \/ IngestChunks(c) \/ EndIngest(c) \/ Store(c)
      PROVE  pc'[d] = pc[d] /\ job'[d] = job[d]
  BY <1>1, <1>2 DEF Dedupe, IngestRow, IngestChunks, EndIngest, Store, Goto
<1>3. ASSUME NEW c \in Clients,
             \/ \E r \in Targets(c) : BeginPush(c, r)
             \/ Receive(c) \/ Append1(c) \/ InsertEvent(c) \/ InsertChunks(c)
             \/ EndChunks(c) \/ EndPush(c)
      PROVE  (pc'[d] = pc[d] /\ job'[d] = job[d]) \/ pc'[d] \notin Storing
  BY <1>1, <1>3
     DEF BeginPush, Receive, Append1, InsertEvent, InsertChunks, EndChunks, EndPush,
         Finish, Goto, Storing
<1>4. ASSUME NEW c \in Clients,
             \/ BeginPull(c) \/ FetchPage(c) \/ FetchEvents(c) \/ FetchChunks(c)
             \/ EndPull(c) \/ Fail(c)
      PROVE  (pc'[d] = pc[d] /\ job'[d] = job[d]) \/ pc'[d] \notin Storing
  BY <1>1, <1>4
     DEF BeginPull, FetchPage, FetchEvents, FetchChunks, EndPull, Fail, Finish, Goto, Storing
<1>5. ASSUME NEW s \in Sessions, Record(s) PROVE pc'[d] = pc[d] /\ job'[d] = job[d]
  BY <1>5 DEF Record
<1> QED
  BY <1>2, <1>3, <1>4, <1>5 DEF Next, Step

\* A step of any client keeps the new events of every pull in order.
LEMMA NewInOrderStep ==
    ASSUME SyncInv, Origins, Next, NEW d \in Clients, FetchInOrder(d), NewInOrder(d)
    PROVE  NewInOrder(d)'
<1>1. pc \in [Clients -> Labels] /\ job \in [Clients -> Job]
  BY DEF SyncInv, TypeOK
<1>2. CASE pc'[d] \notin Storing
  BY <1>2 DEF NewInOrder, Storing
<1>3. CASE pc'[d] = pc[d] /\ job'[d] = job[d]
  BY <1>2, <1>3, NewGoesOn
<1>4. CASE Dedupe(d)
  BY <1>4, DedupeFacts
<1>5. CASE IngestRow(d) \/ IngestChunks(d) \/ EndIngest(d)
  <2>1. pc[d] \in Storing /\ job'[d].pulled = job[d].pulled
    BY <1>1, <1>5 DEF IngestRow, IngestChunks, EndIngest, Storing, Job
  <2> QED
    BY <2>1, NewGoesOn
<1>6. CASE Store(d)
  <2>1. PICK e : e = First(job[d].pulled)
    OBVIOUS
  <2>2. pc[d] \in Storing /\ job'[d].pulled = job[d].pulled \ {e}
    BY <1>1, <1>6, <2>1 DEF Store, Storing, Job
  <2>3. local'[MachineOf[d]][e.id] # Absent
    BY <1>6, <2>1, StoreHolds
  <2> QED
    BY <2>2, <2>3, NewGoesOn
<1> QED
  BY <1>2, <1>3, <1>4, <1>5, <1>6, StoringSteps

-----------------------------------------------------------------------------
(* What a pull has projected stays projected. *)

\* A client that is where it was has not ingested or stored anything.
LEMMA Unmoved ==
    ASSUME SyncInv, NEW d \in Clients, pc'[d] = pc[d], job'[d] = job[d]
    PROVE  ~ IngestRow(d) /\ ~ IngestChunks(d) /\ ~ Store(d)
<1>1. pc \in [Clients -> Labels] /\ job \in [Clients -> Job]
  BY DEF SyncInv, TypeOK
<1>2. ASSUME IngestRow(d) \/ IngestChunks(d) PROVE FALSE
  <2>1. First(job[d].todo) \in job[d].todo
    BY <1>2, IngestProjects
  <2>2. \/ pc'[d] # pc[d]
        \/ job'[d].todo = job[d].todo \ {First(job[d].todo)}
    BY <1>1, <1>2 DEF IngestRow, IngestChunks, Goto, Job
  <2> QED
    BY <2>1, <2>2
<1>3. ASSUME Store(d) PROVE FALSE
  <2>1. First(job[d].pulled) \in job[d].pulled
    BY <1>3, StoreHolds
  <2>2. job'[d].pulled = job[d].pulled \ {First(job[d].pulled)}
    BY <1>1, <1>3 DEF Store, Job
  <2> QED
    BY <2>1, <2>2
<1> QED
  BY <1>2, <1>3

\* Two clients of one machine have nothing new in common.
LEMMA NothingInCommon ==
    ASSUME OnePerRepo, NEW c \in Clients, NEW d \in Clients, c # d,
           MachineOf[c] = MachineOf[d],
           FetchInOrder(c), FetchInOrder(d), pc[c] \notin Pushing, pc[d] \notin Pushing,
           NEW x \in job[c].pulled, NEW y \in job[d].pulled
    PROVE  x.id.session # y.id.session
BY DEF OnePerRepo, FetchInOrder

\* What others do to a machine leaves the new events of a client alone.
LEMMA OthersLeaveAlone ==
    ASSUME SyncInv, Origins, OnePerRepo, Next,
           \A c \in Clients : FetchInOrder(c) /\ IngestInOrder(c),
           NEW d \in Clients, pc[d] \in Storing, pc'[d] = pc[d], job'[d] = job[d],
           NEW x \in job[d].pulled
    PROVE  LET m == MachineOf[d]
               s == x.id.session
           IN
           /\ row[m][s] >= x.id.at => row'[m][s] >= x.id.at
           /\ transcript[m][s] >= x.id.at => transcript'[m][s] >= x.id.at
           /\ local[m][x.id] = Absent => local'[m][x.id] = Absent
<1> DEFINE m == MachineOf[d]
           s == x.id.session
<1>1. /\ m \in Machines /\ s \in Sessions /\ x.id \in Id /\ x.id \in LoggedIds
      /\ x.id.at \in Nat /\ pc[d] \notin Pushing
  BY JobType, SizesAssumption DEF SyncInv, Item, Id, Provenance, Storing, Pushing
<1>2. x.id.at <= clock /\ clock \in Nat
  BY <1>1, ClockStep DEF Origins
<1>3. /\ row[m][s] >= x.id.at => row'[m][s] >= x.id.at
      /\ transcript[m][s] >= x.id.at => transcript'[m][s] >= x.id.at
  <2>1. CASE UNCHANGED <<row, transcript>>
    BY <2>1
  <2>2. ASSUME NEW t \in Sessions, Record(t)
        PROVE  /\ row[m][s] >= x.id.at => row'[m][s] >= x.id.at
               /\ transcript[m][s] >= x.id.at => transcript'[m][s] >= x.id.at
    <3>1. \/ row'[m][s] = clock + 1 /\ transcript'[m][s] = clock + 1
          \/ row'[m][s] = row[m][s] /\ transcript'[m][s] = transcript[m][s]
      BY <1>1, <2>2, RecordProjects
    <3>2. clock + 1 >= x.id.at
      BY <1>1, <1>2
    <3> QED
      BY <3>1, <3>2
  <2>3. ASSUME NEW c \in Clients, IngestRow(c) \/ IngestChunks(c)
        PROVE  row'[m][s] = row[m][s] /\ transcript'[m][s] = transcript[m][s]
    <3>1. PICK e : e = First(job[c].todo)
      OBVIOUS
    <3>2. c # d
      BY <2>3, Unmoved
    <3>3. pc[c] \notin Pushing /\ e \in job[c].pulled
      BY <2>3, <3>1, IngestProjects DEF IngestRow, IngestChunks, IngestInOrder, Pushing
    <3>4. ~ (m = MachineOf[c] /\ s = e.id.session)
      BY <1>1, <3>2, <3>3, NothingInCommon
    <3> QED
      BY <1>1, <2>3, <3>1, <3>4, IngestProjects
  <2> QED
    BY <2>1, <2>2, <2>3, ProjectingSteps
<1>4. ASSUME local[m][x.id] = Absent PROVE local'[m][x.id] = Absent
  <2>1. CASE local' = local
    BY <1>4, <2>1
  <2>2. ASSUME NEW t \in Sessions, Record(t) PROVE local'[m][x.id] = local[m][x.id]
    BY <1>1, <1>2, <2>2, RecordHolds
  <2>3. ASSUME NEW c \in Clients, Store(c) PROVE local'[m][x.id] = local[m][x.id]
    <3>1. PICK e : e = First(job[c].pulled)
      OBVIOUS
    <3>2. c # d
      BY <2>3, Unmoved
    <3>3. pc[c] \notin Pushing /\ e \in job[c].pulled
      BY <2>3, <3>1, StoreHolds DEF Store, Pushing
    <3>4. ~ (m = MachineOf[c] /\ x.id = e.id)
      BY <1>1, <3>2, <3>3, NothingInCommon
    <3> QED
      BY <1>1, <2>3, <3>1, <3>4, StoreHolds
  <2> QED
    BY <1>4, <2>1, <2>2, <2>3, HoldingSteps
<1> QED
  BY <1>3, <1>4

\* Projecting the first item leaves no handled one behind.
LEMMA HandledStays ==
    ASSUME SyncInv, NEW c \in Clients, NewInOrder(c), IngestInOrder(c),
           IngestRow(c) \/ IngestChunks(c), NEW x \in job[c].pulled \ job[c].todo
    PROVE  Projected(MachineOf[c], x)'
<1>1. PICK e : e = First(job[c].todo)
  OBVIOUS
<1>2. pc[c] \in {"ingest", "ingestChunks"} /\ e \in job[c].todo
  BY <1>1, IngestProjects DEF IngestRow, IngestChunks
<1>3. Projected(MachineOf[c], x) /\ x.pos <= e.pos /\ e \in job[c].pulled
  BY <1>2 DEF IngestInOrder
<1>4. /\ x.id \in Id /\ x.id.at \in Nat /\ x.id.session \in Sessions
      /\ x.pos \in Nat /\ e.pos \in Nat /\ e.id.at \in Nat /\ MachineOf[c] \in Machines
  BY <1>3, JobType, SizesAssumption DEF SyncInv, Item, Id
<1>5. CASE x.id.session = e.id.session
  <2>1. x.id.at <= e.id.at
    BY <1>2, <1>3, <1>4, <1>5 DEF NewInOrder
  <2>2. /\ IngestRow(c) => /\ transcript' = transcript
                           /\ row'[MachineOf[c]][x.id.session] = e.id.at
        /\ IngestChunks(c) => /\ row' = row
                              /\ transcript'[MachineOf[c]][x.id.session] = e.id.at
    BY <1>1, <1>5, IngestProjects
  <2> QED
    BY <1>3, <1>4, <2>1, <2>2 DEF Projected
<1>6. CASE x.id.session # e.id.session
  <2>1. /\ row'[MachineOf[c]][x.id.session] = row[MachineOf[c]][x.id.session]
        /\ transcript'[MachineOf[c]][x.id.session] = transcript[MachineOf[c]][x.id.session]
    BY <1>1, <1>4, <1>6, IngestProjects
  <2> QED
    BY <1>3, <2>1 DEF Projected
<1> QED
  BY <1>5, <1>6

\* A step of any client keeps every ingest in order.
LEMMA IngestInOrderStep ==
    ASSUME SyncInv, Origins, OnePerRepo, Next,
           \A c \in Clients : FetchInOrder(c) /\ NewInOrder(c) /\ IngestInOrder(c),
           NEW d \in Clients
    PROVE  IngestInOrder(d)'
<1>1. pc \in [Clients -> Labels] /\ job \in [Clients -> Job]
  BY DEF SyncInv, TypeOK
<1>2. CASE pc'[d] \notin Storing
  BY <1>2 DEF IngestInOrder, Storing
<1>3. CASE pc'[d] = pc[d] /\ job'[d] = job[d] /\ pc[d] \in Storing
  <2>1. ASSUME NEW x \in job[d].pulled
        PROVE  /\ Projected(MachineOf[d], x) => Projected(MachineOf[d], x)'
               /\ row[MachineOf[d]][x.id.session] >= x.id.at =>
                    row'[MachineOf[d]][x.id.session] >= x.id.at
               /\ local[MachineOf[d]][x.id] = Absent => local'[MachineOf[d]][x.id] = Absent
    BY <1>3, OthersLeaveAlone DEF Projected
  <2>2. ASSUME pc[d] \in {"ingest", "ingestChunks"}
        PROVE  /\ job'[d].todo \subseteq job'[d].pulled
               /\ \A x \in job'[d].pulled : local'[MachineOf[d]][x.id] = Absent
               /\ \A x \in job'[d].pulled \ job'[d].todo :
                    /\ Projected(MachineOf[d], x)'
                    /\ \A y \in job'[d].todo : x.pos <= y.pos
    BY <1>3, <2>1, <2>2 DEF IngestInOrder
  <2>3. ASSUME pc[d] = "ingestChunks", NEW e, e = First(job[d].todo)
        PROVE  row'[MachineOf[d]][e.id.session] >= e.id.at
    <3>1. e \in job[d].todo
      BY <2>3, JobType, FirstItem DEF SyncInv, Provenance
    <3>2. e \in job[d].pulled /\ row[MachineOf[d]][e.id.session] >= e.id.at
      BY <2>3, <3>1 DEF IngestInOrder
    <3> QED
      BY <2>1, <3>2
  <2>4. ASSUME pc[d] = "store", NEW x \in job'[d].pulled PROVE Projected(MachineOf[d], x)'
    BY <1>3, <2>1, <2>4 DEF IngestInOrder
  <2> QED
    BY <1>3, <2>2, <2>3, <2>4 DEF IngestInOrder, Projected
<1>4. CASE Dedupe(d)
  <2>1. pc'[d] = "ingest" /\ local' = local
    BY <1>1, <1>4 DEF Dedupe, Goto, machineVars
  <2>2. /\ \A x \in job'[d].pulled : local'[MachineOf[d]][x.id] = Absent
        /\ job'[d].todo = job'[d].pulled
    BY <1>4, <2>1, DedupeFacts
  <2> QED
    BY <2>1, <2>2 DEF IngestInOrder
<1>5. CASE IngestRow(d) \/ IngestChunks(d)
  <2>1. PICK e : e = First(job[d].todo)
    OBVIOUS
  <2>2. /\ e \in job[d].todo /\ e.id.at \in Nat /\ local' = local
        /\ IngestRow(d) => row'[MachineOf[d]][e.id.session] = e.id.at
        /\ IngestChunks(d) => /\ row' = row
                              /\ transcript'[MachineOf[d]][e.id.session] = e.id.at
    BY <1>5, <2>1, IngestProjects
  <2>3. \A y \in job[d].todo : e.pos <= y.pos
    BY <2>1, <2>2, JobType, FirstItem DEF SyncInv
  <2>4. /\ pc[d] \in {"ingest", "ingestChunks"} /\ pc'[d] \in {"ingest", "ingestChunks"}
        /\ job'[d].pulled = job[d].pulled
    BY <1>1, <1>5 DEF IngestRow, IngestChunks, Goto, Job
  <2>5. /\ job[d].todo \subseteq job[d].pulled
        /\ \A x \in job[d].pulled : local'[MachineOf[d]][x.id] = Absent
        /\ \A x \in job[d].pulled \ job[d].todo : \A y \in job[d].todo : x.pos <= y.pos
    BY <2>2, <2>4 DEF IngestInOrder
  <2>6. \A x \in job[d].pulled \ job[d].todo : Projected(MachineOf[d], x)'
    BY <1>5, HandledStays
  <2>7. CASE job'[d].todo = job[d].todo /\ IngestRow(d)
    <3>1. pc'[d] = "ingestChunks" => row'[MachineOf[d]][e.id.session] >= e.id.at
      BY <2>2, <2>7
    <3> QED
      BY <2>1, <2>4, <2>5, <2>6, <2>7, <3>1 DEF IngestInOrder, Projected
  <2>8. CASE job'[d].todo = job[d].todo \ {e} /\ Projected(MachineOf[d], e)' /\ pc'[d] = "ingest"
    BY <2>3, <2>4, <2>5, <2>6, <2>8 DEF IngestInOrder, Projected
  <2>9. CASE IngestRow(d)
    <3>1. \/ job' = job
          \/ job'[d].todo = job[d].todo \ {e} /\ e.parts = 0 /\ pc'[d] = "ingest"
      BY <1>1, <2>1, <2>9 DEF IngestRow, Job
    <3>2. e.parts = 0 => Projected(MachineOf[d], e)'
      BY <2>2, <2>9 DEF Projected
    <3> QED
      BY <2>7, <2>8, <2>9, <3>1, <3>2
  <2>10. CASE IngestChunks(d)
    <3>1. job'[d].todo = job[d].todo \ {e} /\ pc[d] = "ingestChunks" /\ pc'[d] = "ingest"
      BY <1>1, <2>1, <2>10 DEF IngestChunks, Goto, Job
    <3>2. row[MachineOf[d]][e.id.session] >= e.id.at
      BY <2>1, <3>1 DEF IngestInOrder
    <3>3. Projected(MachineOf[d], e)'
      BY <2>2, <2>10, <3>2 DEF Projected
    <3> QED
      BY <2>8, <3>1, <3>3
  <2> QED
    BY <1>5, <2>9, <2>10
<1>6. CASE EndIngest(d)
  <2>1. /\ pc[d] = "ingest" /\ job[d].todo = {} /\ pc'[d] = "store" /\ job' = job
        /\ UNCHANGED <<row, transcript>>
    BY <1>1, <1>6 DEF EndIngest, Goto, machineVars
  <2>2. \A x \in job[d].pulled : Projected(MachineOf[d], x)
    BY <2>1 DEF IngestInOrder
  <2> QED
    BY <2>1, <2>2 DEF IngestInOrder, Projected
<1>7. CASE Store(d)
  <2>1. /\ pc[d] = "store" /\ pc'[d] = "store" /\ job'[d].pulled \subseteq job[d].pulled
        /\ UNCHANGED <<row, transcript>>
    BY <1>1, <1>7 DEF Store, Job
  <2> QED
    BY <2>1 DEF IngestInOrder, Projected
<1> QED
  BY <1>2, <1>3, <1>4, <1>5, <1>6, <1>7, StoringSteps

-----------------------------------------------------------------------------
(* The two theorems. *)

\* The order is kept by every step.
LEMMA OrderInvariance ==
    ASSUME OnePerRepo
    PROVE  Spec => []OrderInv
<1>1. Init => OrderInv
  <2> SUFFICES ASSUME Init PROVE OrderInv
    OBVIOUS
  <2>1. LoggedIds = {} /\ DOMAIN log = {}
    BY DEF Init, LoggedIds
  <2>2. \A m \in Machines, id \in Id : local[m][id] = Absent
    BY DEF Init
  <2>3. \A id \in Id : ~ Recorded(id)
    BY <2>2, ClientsAssumption DEF Recorded, Id
  <2>4. Origins /\ LogInOrder /\ HeldInOrder /\ MetadataNotBehind
    BY <2>1, <2>2, <2>3 DEF Origins, LogInOrder, HeldInOrder, MetadataNotBehind
  <2>5. ASSUME NEW c \in Clients
        PROVE  PushInOrder(c) /\ FetchInOrder(c) /\ NewInOrder(c) /\ IngestInOrder(c)
    <3>1. pc[c] = "idle" /\ job[c].pulled = {}
      BY DEF Init, NoJob
    <3> QED
      BY <3>1 DEF PushInOrder, FetchInOrder, NewInOrder, IngestInOrder, Pushing
  <2> QED
    BY <2>4, <2>5 DEF OrderInv
<1>2. ASSUME SyncInv, PagesAreGapless, OrderInv, [Next]_vars PROVE OrderInv'
  <2>1. CASE Next
    <3>1. /\ Origins /\ LogInOrder /\ HeldInOrder /\ MetadataNotBehind
          /\ \A c \in Clients :
                PushInOrder(c) /\ FetchInOrder(c) /\ NewInOrder(c) /\ IngestInOrder(c)
          /\ ~ GlobalPull
      BY <1>2 DEF OrderInv, OnePerRepo
    <3>2. Origins' /\ LogInOrder' /\ HeldInOrder'
      BY <1>2, <2>1, <3>1, OriginsStep, LogInOrderStep, HeldInOrderStep
    <3>3. MetadataNotBehind'
      BY <1>2, <2>1, <3>1, NotBehindStep
    <3>4. ASSUME NEW d \in Clients
          PROVE  PushInOrder(d)' /\ FetchInOrder(d)' /\ NewInOrder(d)' /\ IngestInOrder(d)'
      <4>1. PushInOrder(d)' /\ FetchInOrder(d)'
        BY <1>2, <2>1, <3>1, PushInOrderStep, FetchInOrderStep
      <4>2. NewInOrder(d)' /\ IngestInOrder(d)'
        BY <1>2, <2>1, <3>1, NewInOrderStep, IngestInOrderStep
      <4> QED
        BY <4>1, <4>2
    <3> QED
      BY <3>2, <3>3, <3>4 DEF OrderInv
  <2>2. CASE UNCHANGED vars
    BY <1>2, <2>2
       DEF OrderInv, Origins, LogInOrder, HeldInOrder, MetadataNotBehind, PushInOrder,
           FetchInOrder, NewInOrder, IngestInOrder, Projected, Earlier, Recorded,
           LoggedIds, vars, machineVars
  <2> QED
    BY <1>2, <2>1, <2>2
<1> QED
  BY <1>1, <1>2, SyncInvariance, GaplessPaging, PTL DEF Spec

(***************************************************************************)
(* With one client per machine and repo, and pulls that name their repo, a *)
(* pull handles only events that the machine still does not have when it   *)
(* comes to them, whatever the other clients do meanwhile                  *)
(* (dedupe_remote_events).                                                 *)
(***************************************************************************)
THEOREM HandlesOnlyNew ==
    ASSUME OnePerRepo
    PROVE  Spec => []DedupedAgainstLocal
<1>1. OrderInv => DedupedAgainstLocal
  BY DEF OrderInv, IngestInOrder, DedupedAgainstLocal
<1> QED
  BY <1>1, OrderInvariance, PTL

(***************************************************************************)
(* Then a machine's metadata is never behind its events either: events are *)
(* pushed, logged, pulled and stored in the order of their sessions, so a  *)
(* row is only ever overwritten by a newer version, and is written before  *)
(* the event that would keep it from being pulled again (pull_events).     *)
(***************************************************************************)
THEOREM ProjectedFirst ==
    ASSUME OnePerRepo
    PROVE  Spec => []MetadataNotBehind
<1>1. OrderInv => MetadataNotBehind
  BY DEF OrderInv
<1> QED
  BY <1>1, OrderInvariance, PTL

=============================================================================
