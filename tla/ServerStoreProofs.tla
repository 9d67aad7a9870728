-------------------------- MODULE ServerStoreProofs --------------------------
(***************************************************************************)
(* Proofs about ServerStore for every set of handlers, repos, orgs, users, *)
(* events and requests and every number of faults; those at the end are of *)
(* a server with one handler.                                              *)
(***************************************************************************)
EXTENDS ServerStore, SequenceTheorems, WellFoundedInduction, TLAPS

-----------------------------------------------------------------------------
(* Operators. *)

\* A nonempty set of naturals contains its minimum.
LEMMA MinInSet ==
    ASSUME NEW S \in SUBSET Nat, S # {}
    PROVE  Min(S) \in S /\ \A j \in S : Min(S) <= j
<1> DEFINE Less == {ss \in Nat \X Nat : ss[1] < ss[2]}
<1>1. Less = OpToRel(<, Nat)
  BY Zenon DEF OpToRel
<1>2. IsWellFoundedOn(Less, Nat)
  BY <1>1, NatLessThanWellFounded, Zenon
<1> HIDE DEF Less
<1>3. PICK x \in S : \A y \in S : ~ (<<y, x>> \in Less)
  BY <1>2, WFMin, Zenon
<1>4. \A y \in S : ~ (y < x)
  <2>1. ASSUME NEW y \in S, y < x PROVE <<y, x>> \in Less
    BY <2>1, SMT DEF Less
  <2> QED
    BY <1>3, <2>1
<1>5. \A y \in S : x <= y
  BY <1>4
<1> QED
  BY <1>5 DEF Min

\* A request's events, and the fields of one of them.
LEMMA RequestFields ==
    ASSUME NEW q \in Requests
    PROVE  /\ q.route \in OrNone(Repos)
           /\ q.cred \in Credential
           /\ q.events \in Seq(Event)
           /\ DOMAIN q.events = 1 .. Len(q.events)
           /\ \A i \in DOMAIN q.events : q.events[i] \in Event
<1>1. q \in Request
  BY RequestsAssumption
<1> QED
  BY <1>1 DEF Request

\* Filling in repo ids yields events again.
LEMMA NormalizedType ==
    ASSUME NEW q \in Requests
    PROVE  Normalized(q) \in Seq(Event)
<1> DEFINE n == Len(q.events)
<1>1. n \in Nat /\ DOMAIN q.events = 1 .. n
  BY RequestFields
<1>2. ASSUME NEW i \in DOMAIN q.events, q.route # None
      PROVE  [q.events[i] EXCEPT !.repo = q.route] \in Event
  <2>1. q.events[i] \in Event /\ q.route \in Repos
    BY <1>2, RequestFields DEF OrNone
  <2> QED
    BY <2>1 DEF Event, OrNone
<1>3. Normalized(q) \in [1 .. n -> Event]
  BY <1>1, <1>2, RequestFields DEF Normalized
<1> QED
  BY <1>1, <1>3, SeqDef

\* A claim names an org the requesting user is a member of.
LEMMA ClaimedOrgFacts ==
    ASSUME NEW q \in Requests, ClaimableAt(q) # {}
    PROVE  /\ ClaimedOrg(q) \in Orgs
           /\ \E i \in ClaimableAt(q) : q.events[i].org = ClaimedOrg(q)
<1>1. ClaimableAt(q) \subseteq Nat
  BY RequestFields DEF ClaimableAt
<1>2. Min(ClaimableAt(q)) \in ClaimableAt(q)
  BY <1>1, MinInSet
<1>3. ClaimedOrg(q) \in Orgs
  BY <1>2, MembersAssumption DEF ClaimedOrg, ClaimableAt
<1> QED
  BY <1>2, <1>3 DEF ClaimedOrg

\* The text positions of the log hold events.
LEMMA TextFacts ==
    ASSUME TypeOK
    PROVE  /\ TextAt \subseteq Nat
           /\ \A i \in TextAt : log[i] \in Event
           /\ LoggedIds \subseteq Ids
<1>1. TextAt \subseteq Nat /\ \A i \in TextAt : log[i] \in Event
  BY DEF TypeOK, TextAt, IsText
<1> QED
  BY <1>1 DEF LoggedIds, Event

\* What a rebuild says of a repo is the org of one of its logged events.
LEMMA RebuildFacts ==
    ASSUME TypeOK
    PROVE  /\ RebuildFromLog \in Projection
           /\ \A r \in Repos : RebuildFromLog[r] # None =>
                \E i \in TextAt : log[i].repo = r /\ log[i].org = RebuildFromLog[r]
<1>1. ASSUME NEW r \in Repos, TiesAt(r) # {}
      PROVE  Min(TiesAt(r)) \in TextAt /\ log[Min(TiesAt(r))].repo = r
             /\ log[Min(TiesAt(r))].org \in OrNone(Orgs)
  <2>1. TiesAt(r) \subseteq Nat
    BY TextFacts DEF TiesAt
  <2>2. Min(TiesAt(r)) \in TiesAt(r)
    BY <1>1, <2>1, MinInSet
  <2>3. Min(TiesAt(r)) \in TextAt /\ log[Min(TiesAt(r))].repo = r
    BY <2>2 DEF TiesAt
  <2> QED
    BY <2>3, TextFacts DEF Event
<1> QED
  BY <1>1 DEF RebuildFromLog, Projection, OrNone

\* or_insert keeps what is bound and adds only what the batch binds.
LEMMA OrInsertFacts ==
    ASSUME NEW m \in Projection, NEW b \in Projection
    PROVE  /\ OrInsert(m, b) \in Projection
           /\ \A r \in Repos : m[r] # None => OrInsert(m, b)[r] = m[r]
           /\ \A r \in Repos : m[r] = None => OrInsert(m, b)[r] = b[r]
  BY DEF OrInsert, Projection

\* An event binds at most its own repo.
LEMMA BindingOfFacts ==
    ASSUME NEW e \in Event
    PROVE  /\ BindingOf(e) \in Projection
           /\ \A r \in Repos : BindingOf(e)[r] # None =>
                e.repo = r /\ e.org = BindingOf(e)[r]
  BY DEF BindingOf, Projection, Event, OrNone

\* The empty map binds nothing.
LEMMA NoBindingsFacts ==
    NoBindings \in Projection /\ \A r \in Repos : NoBindings[r] = None
  BY DEF NoBindings, Projection, OrNone

-----------------------------------------------------------------------------
(* Type correctness. *)

\* What control state a handler is in when it uses its request, its next
\* event and the loaded projection; TypeOK alone is not inductive.
ControlOK ==
    /\ \A h \in Handlers : pc[h] # "idle" => req[h] \in Requests
    /\ \A h \in Handlers : pc[h] = "newline" => todo[h] # <<>>
    /\ \A h \in Handlers :
        pc[h] \in {"gate", "merge", "mergeRename"} => cache # Unloaded
    /\ \A h \in Handlers :
        pc[h] \in {"gate", "unresolved"} => req[h].cred.kind # "open"
    /\ \A h \in Handlers :
        pc[h] \in {"load", "rebuild", "putTmp", "putRename", "setCache"}
            /\ after[h] = "gate" => req[h].cred.kind # "open"

TypeInv == TypeOK /\ ControlOK

\* What every handler step leaves of the types when it ends the request.
LEMMA FinishType ==
    ASSUME TypeOK, ControlOK, NEW h \in Handlers, Finish(h)
    PROVE  /\ pc' \in [Handlers -> Labels]
           /\ req' \in [Handlers -> OrNone(Requests)]
           /\ after' \in [Handlers -> {"gate", "claim", "record"}]
           /\ todo' \in [Handlers -> Seq(Event)]
           /\ existing' \in [Handlers -> SUBSET Ids]
           /\ accepted' \in [Handlers -> SUBSET Ids]
           /\ dups' \in [Handlers -> SUBSET Ids]
           /\ binds' \in [Handlers -> Projection]
           /\ loaded' \in [Handlers -> Projection]
           /\ pc'[h] = "idle"
           /\ \A g \in Handlers \ {h} :
                /\ pc'[g] = pc[g] /\ req'[g] = req[g] /\ todo'[g] = todo[g]
                /\ after'[g] = after[g] /\ existing'[g] = existing[g]
                /\ accepted'[g] = accepted[g] /\ dups'[g] = dups[g]
                /\ binds'[g] = binds[g] /\ loaded'[g] = loaded[g]
  BY NoBindingsFacts DEF TypeOK, Finish, Labels, OrNone

\* Ending a request keeps the control facts of the other handlers.
LEMMA FinishControl ==
    ASSUME TypeOK, ControlOK, NEW h \in Handlers, Finish(h),
           cache # Unloaded => cache' # Unloaded
    PROVE  ControlOK'
<1>1. pc'[h] = "idle"
  BY FinishType
<1>2. ASSUME NEW g \in Handlers, g # h
      PROVE  pc'[g] = pc[g] /\ req'[g] = req[g] /\ todo'[g] = todo[g]
             /\ after'[g] = after[g]
  BY <1>2, FinishType
<1>3. ASSUME NEW g \in Handlers
      PROVE  /\ pc'[g] # "idle" => req'[g] \in Requests
             /\ pc'[g] = "newline" => todo'[g] # <<>>
             /\ pc'[g] \in {"gate", "merge", "mergeRename"} => cache' # Unloaded
             /\ pc'[g] \in {"gate", "unresolved"} => req'[g].cred.kind # "open"
             /\ pc'[g] \in {"load", "rebuild", "putTmp", "putRename", "setCache"}
                    /\ after'[g] = "gate" => req'[g].cred.kind # "open"
  <2>1. CASE g = h
    BY <1>1, <2>1
  <2>2. CASE g # h
    BY <1>2, <2>2 DEF ControlOK
  <2> QED
    BY <2>1, <2>2
<1> QED
  BY <1>3 DEF ControlOK

\* The initial state is well typed.
LEMMA TypeInit == Init => TypeInv
<1> SUFFICES ASSUME Init PROVE TypeInv
  OBVIOUS
<1>1. TypeOK
  BY NoBindingsFacts, MaxFaultsAssumption
     DEF Init, TypeOK, Labels, OrNone
<1>2. ControlOK
  BY DEF Init, ControlOK
<1> QED
  BY <1>1, <1>2 DEF TypeInv

\* A failed load either moves the handler to "unresolved" or ends it.
LEMMA LoadFailsType ==
    ASSUME TypeInv, NEW h \in Handlers, LoadFails(h),
           UNCHANGED <<log, file, cache>>,
           pc[h] \in {"rebuild", "putTmp", "putRename"},
           tmp' \in Projection \cup {Absent}, lock' \in OrNone(Handlers),
           faults' \in 0 .. MaxFaults
    PROVE  TypeInv'
<1> USE DEF TypeInv
<1>1. CASE after[h] = "gate" /\ Goto(h, "unresolved")
           /\ UNCHANGED <<acked, req, after, todo, existing, accepted, dups,
                          binds, loaded>>
  <2>1. TypeOK'
    BY <1>1 DEF TypeOK, Goto, Labels
  <2>2. ControlOK'
    BY <1>1 DEF TypeOK, ControlOK, Goto
  <2> QED
    BY <2>1, <2>2
<1>2. CASE Reject(h)
  <2>1. TypeOK'
    BY <1>2, FinishType DEF TypeOK, Reject
  <2>2. ControlOK'
    BY <1>2, FinishControl DEF Reject
  <2> QED
    BY <2>1, <2>2
<1> QED
  BY <1>1, <1>2 DEF LoadFails

\* So does the decision of the gate.
LEMMA DecideType ==
    ASSUME TypeInv, NEW h \in Handlers, NEW org, Decide(h, org),
           pc[h] \in {"gate", "unresolved"},
           UNCHANGED <<log, file, tmp, cache, lock, faults>>
    PROVE  TypeInv'
<1> USE DEF TypeInv
<1> DEFINE q == req[h]
<1>0. q \in Requests /\ q.cred.kind # "open"
  BY DEF ControlOK
<1>1. CASE Goto(h, "begin")
           /\ UNCHANGED <<acked, req, after, todo, existing, accepted, dups,
                          binds, loaded>>
  <2>1. TypeOK'
    BY <1>1 DEF TypeOK, Goto, Labels
  <2>2. ControlOK'
    BY <1>1 DEF TypeOK, ControlOK, Goto
  <2> QED
    BY <2>1, <2>2
<1>2. CASE /\ ClaimableAt(q) # {}
           /\ binds' = [binds EXCEPT ![h][q.route] = ClaimedOrg(q)]
           /\ after' = [after EXCEPT ![h] = "claim"]
           /\ Goto(h, "load")
           /\ UNCHANGED <<acked, req, todo, existing, accepted, dups, loaded>>
  <2>1. ClaimedOrg(q) \in Orgs
    BY <1>0, <1>2, ClaimedOrgFacts
  <2>2. binds' \in [Handlers -> Projection]
    BY <1>2, <2>1 DEF TypeOK, Projection, OrNone
  <2>3. TypeOK'
    BY <1>2, <2>2 DEF TypeOK, Goto, Labels
  <2>4. ControlOK'
    BY <1>2 DEF TypeOK, ControlOK, Goto
  <2> QED
    BY <2>3, <2>4
<1>3. CASE Reject(h)
  <2>1. TypeOK'
    BY <1>3, FinishType DEF TypeOK, Reject
  <2>2. ControlOK'
    BY <1>3, FinishControl DEF Reject
  <2> QED
    BY <2>1, <2>2
<1> QED
  BY <1>1, <1>2, <1>3 DEF Decide

\* So does the end of record_repo_orgs.
LEMMA AfterMergeType ==
    ASSUME TypeInv, NEW h \in Handlers, AfterMerge(h),
           pc[h] \in {"merge", "mergeRename"},
           UNCHANGED <<log, faults>>,
           cache' \in Projection,
           file' \in Projection \cup {Absent}, tmp' \in Projection \cup {Absent},
           lock' \in OrNone(Handlers)
    PROVE  TypeInv'
<1> USE DEF TypeInv
<1>0. cache' # Unloaded
  BY MarkersAssumption
<1>1. CASE Goto(h, "begin")
           /\ UNCHANGED <<acked, req, after, todo, existing, accepted, dups,
                          binds, loaded>>
  <2>1. TypeOK'
    BY <1>1 DEF TypeOK, Goto, Labels
  <2>2. ControlOK'
    BY <1>0, <1>1 DEF TypeOK, ControlOK, Goto
  <2> QED
    BY <2>1, <2>2
<1>2. CASE Respond(h)
  <2>1. acked' \subseteq Ids
    BY <1>2 DEF Respond, TypeOK
  <2>2. TypeOK'
    BY <1>2, <2>1, FinishType DEF TypeOK, Respond
  <2>3. ControlOK'
    BY <1>0, <1>2, FinishControl DEF Respond
  <2> QED
    BY <2>2, <2>3
<1> QED
  BY <1>1, <1>2 DEF AfterMerge

\* Every step keeps the types.
LEMMA TypeStep == TypeInv /\ [Next]_vars => TypeInv'
<1> SUFFICES ASSUME TypeInv, [Next]_vars PROVE TypeInv'
  OBVIOUS
<1> USE DEF TypeInv
<1>1. ASSUME NEW h \in Handlers, Receive(h) PROVE TypeInv'
  <2>1. TypeOK'
    BY <1>1 DEF Receive, TypeOK, Goto, Labels, sharedVars, OrNone
  <2>2. ControlOK'
    BY <1>1, RequestFields DEF Receive, TypeOK, ControlOK, Goto, sharedVars
  <2> QED
    BY <2>1, <2>2
<1>2. ASSUME NEW h \in Handlers, Gate(h) PROVE TypeInv'
  BY <1>2, DecideType DEF Gate
<1>3. ASSUME NEW h \in Handlers, GateUnresolved(h) PROVE TypeInv'
  BY <1>3, DecideType DEF GateUnresolved
<1>4. ASSUME NEW h \in Handlers, Load(h) PROVE TypeInv'
  <2>1. TypeOK'
    BY <1>4 DEF Load, TypeOK, Goto, Labels, AfterLoad, sharedVars
  <2>2. ControlOK'
    BY <1>4 DEF Load, TypeOK, ControlOK, Goto, AfterLoad, sharedVars
  <2> QED
    BY <2>1, <2>2
<1>5. ASSUME NEW h \in Handlers, Rebuild(h) PROVE TypeInv'
  <2>1. CASE LoadFails(h)
    BY <1>5, <2>1, LoadFailsType DEF Rebuild, TypeOK
  <2>2. CASE /\ loaded' = [loaded EXCEPT ![h] = RebuildFromLog]
             /\ Goto(h, "putTmp")
             /\ UNCHANGED <<acked, req, after, todo, existing, accepted, dups,
                            binds>>
    <3>1. TypeOK'
      BY <1>5, <2>2, RebuildFacts DEF Rebuild, TypeOK, Goto, Labels
    <3>2. ControlOK'
      BY <1>5, <2>2 DEF Rebuild, TypeOK, ControlOK, Goto
    <3> QED
      BY <3>1, <3>2
  <2> QED
    BY <1>5, <2>1, <2>2 DEF Rebuild
<1>6. ASSUME NEW h \in Handlers, PutTmp(h) PROVE TypeInv'
  <2>1. TypeOK'
    BY <1>6 DEF PutTmp, TypeOK, Goto, Labels
  <2>2. ControlOK'
    BY <1>6 DEF PutTmp, TypeOK, ControlOK, Goto
  <2> QED
    BY <2>1, <2>2
<1>7. ASSUME NEW h \in Handlers, PutRename(h) PROVE TypeInv'
  <2>1. CASE LoadFails(h) /\ UNCHANGED <<file, tmp>>
    BY <1>7, <2>1, LoadFailsType DEF PutRename, TypeOK
  <2>2. CASE /\ tmp # Absent /\ file' = tmp /\ tmp' = Absent
             /\ Goto(h, "setCache")
             /\ UNCHANGED <<acked, req, after, todo, existing, accepted, dups,
                            binds, loaded>>
    <3>1. TypeOK'
      BY <1>7, <2>2 DEF PutRename, TypeOK, Goto, Labels
    <3>2. ControlOK'
      BY <1>7, <2>2 DEF PutRename, TypeOK, ControlOK, Goto
    <3> QED
      BY <3>1, <3>2
  <2> QED
    BY <1>7, <2>1, <2>2 DEF PutRename
<1>8. ASSUME NEW h \in Handlers, SetCache(h) PROVE TypeInv'
  <2>1. TypeOK'
    BY <1>8, NoBindingsFacts
       DEF SetCache, TypeOK, Goto, Labels, AfterLoad
  <2>2. cache' # Unloaded
    BY <1>8, MarkersAssumption DEF SetCache, TypeOK
  <2>3. ControlOK'
    BY <1>8, <2>2 DEF SetCache, TypeOK, ControlOK, Goto, AfterLoad
  <2> QED
    BY <2>1, <2>3
<1>9. ASSUME NEW h \in Handlers, Merge(h) PROVE TypeInv'
  <2> DEFINE merged == OrInsert(cache, binds[h])
  <2>1. cache # Unloaded /\ merged \in Projection
    BY <1>9, OrInsertFacts DEF Merge, TypeOK, ControlOK
  <2>2. cache' = merged /\ cache' # Unloaded
    BY <1>9, <2>1, MarkersAssumption DEF Merge
  <2>3. CASE AfterMerge(h) /\ UNCHANGED <<tmp, lock>>
    BY <1>9, <2>1, <2>2, <2>3, AfterMergeType DEF Merge, TypeOK
  <2>4. CASE /\ tmp' = merged /\ lock' = h /\ Goto(h, "mergeRename")
             /\ UNCHANGED <<acked, req, after, todo, existing, accepted, dups,
                            binds, loaded>>
    <3>1. TypeOK'
      BY <1>9, <2>1, <2>2, <2>4 DEF Merge, TypeOK, Goto, Labels, OrNone
    <3>2. ControlOK'
      BY <1>9, <2>2, <2>4 DEF Merge, TypeOK, ControlOK, Goto
    <3> QED
      BY <3>1, <3>2
  <2> QED
    BY <1>9, <2>3, <2>4 DEF Merge
<1>10. ASSUME NEW h \in Handlers, MergeRename(h) PROVE TypeInv'
  <2>1. cache \in Projection
    BY <1>10 DEF MergeRename, TypeOK, ControlOK
  <2>2. CASE AfterMerge(h) /\ tmp # Absent /\ file' = tmp
    BY <1>10, <2>1, <2>2, AfterMergeType DEF MergeRename, TypeOK, OrNone
  <2>3. CASE Reject(h) /\ UNCHANGED file
    <3>1. TypeOK'
      BY <1>10, <2>3, FinishType DEF MergeRename, TypeOK, Reject, OrNone
    <3>2. ControlOK'
      BY <1>10, <2>3, FinishControl DEF MergeRename, Reject
    <3> QED
      BY <3>1, <3>2
  <2> QED
    BY <1>10, <2>2, <2>3 DEF MergeRename
<1>11. ASSUME NEW h \in Handlers, BeginAppend(h) PROVE TypeInv'
  <2> DEFINE q == req[h]
  <2>0. q \in Requests
    BY <1>11 DEF BeginAppend, ControlOK
  <2>1. CASE Reject(h)
    <3>1. TypeOK'
      BY <1>11, <2>1, FinishType DEF BeginAppend, TypeOK, Reject
    <3>2. ControlOK'
      BY <1>11, <2>1, FinishControl DEF BeginAppend, Reject
    <3> QED
      BY <3>1, <3>2
  <2>2. CASE /\ todo' = [todo EXCEPT ![h] = Normalized(q)]
             /\ existing' = [existing EXCEPT ![h] = LoggedIds]
             /\ binds' = [binds EXCEPT ![h] = NoBindings]
             /\ Goto(h, "append")
             /\ UNCHANGED <<acked, req, after, accepted, dups, loaded>>
    <3>1. Normalized(q) \in Seq(Event) /\ LoggedIds \in SUBSET Ids
      BY <2>0, NormalizedType, TextFacts
    <3>2. TypeOK'
      BY <1>11, <2>2, <3>1, NoBindingsFacts DEF BeginAppend, TypeOK, Goto, Labels
    <3>3. ControlOK'
      BY <1>11, <2>2 DEF BeginAppend, TypeOK, ControlOK, Goto
    <3> QED
      BY <3>2, <3>3
  <2> QED
    BY <1>11, <2>1, <2>2 DEF BeginAppend
<1>12. ASSUME NEW h \in Handlers, SkipDuplicate(h) PROVE TypeInv'
  <2>1. Head(todo[h]) \in Event /\ Tail(todo[h]) \in Seq(Event)
    BY <1>12 DEF SkipDuplicate, TypeOK
  <2>2. TypeOK'
    BY <1>12, <2>1 DEF SkipDuplicate, TypeOK, Event, sharedVars
  <2>3. ControlOK'
    BY <1>12 DEF SkipDuplicate, TypeOK, ControlOK, sharedVars
  <2> QED
    BY <2>2, <2>3
<1>13. ASSUME NEW h \in Handlers, WriteText(h) PROVE TypeInv'
  <2>1. Head(todo[h]) \in Event
    BY <1>13 DEF WriteText, TypeOK
  <2>2. log' \in Seq(Event \cup {NL})
    BY <1>13, <2>1, AppendProperties DEF WriteText, TypeOK
  <2>3. TypeOK'
    BY <1>13, <2>2 DEF WriteText, TypeOK, Goto, Labels
  <2>4. ControlOK'
    BY <1>13 DEF WriteText, TypeOK, ControlOK, Goto
  <2> QED
    BY <2>3, <2>4
<1>14. ASSUME NEW h \in Handlers, WriteNewline(h) PROVE TypeInv'
  <2>1. Head(todo[h]) \in Event /\ Tail(todo[h]) \in Seq(Event)
    BY <1>14 DEF WriteNewline, TypeOK, ControlOK
  <2>2. log' \in Seq(Event \cup {NL})
    BY <1>14, AppendProperties DEF WriteNewline, TypeOK
  <2>3. OrInsert(binds[h], BindingOf(Head(todo[h]))) \in Projection
    BY <2>1, OrInsertFacts, BindingOfFacts DEF TypeOK
  <2>4. Head(todo[h]).id \in Ids
    BY <2>1 DEF Event
  <2>5. TypeOK'
    BY <1>14, <2>1, <2>2, <2>3, <2>4 DEF WriteNewline, TypeOK, Goto, Labels
  <2>6. ControlOK'
    BY <1>14 DEF WriteNewline, TypeOK, ControlOK, Goto
  <2> QED
    BY <2>5, <2>6
<1>15. ASSUME NEW h \in Handlers, FinishAppend(h) PROVE TypeInv'
  <2>1. CASE Respond(h)
    <3>1. acked' \subseteq Ids
      BY <2>1 DEF Respond, TypeOK
    <3>2. TypeOK'
      BY <1>15, <2>1, <3>1, FinishType DEF FinishAppend, TypeOK, Respond
    <3>3. ControlOK'
      BY <1>15, <2>1, FinishControl DEF FinishAppend, Respond
    <3> QED
      BY <3>2, <3>3
  <2>2. CASE /\ after' = [after EXCEPT ![h] = "record"]
             /\ Goto(h, "load")
             /\ UNCHANGED <<acked, req, todo, existing, accepted, dups, binds,
                            loaded>>
    <3>1. TypeOK'
      BY <1>15, <2>2 DEF FinishAppend, TypeOK, Goto, Labels
    <3>2. ControlOK'
      BY <1>15, <2>2 DEF FinishAppend, TypeOK, ControlOK, Goto
    <3> QED
      BY <3>1, <3>2
  <2> QED
    BY <1>15, <2>1, <2>2 DEF FinishAppend
<1>16. ASSUME NEW h \in Handlers, IOError(h) PROVE TypeInv'
  <2>1. faults' \in 0 .. MaxFaults
    BY <1>16, MaxFaultsAssumption DEF IOError, TypeOK
  <2>2. CASE pc[h] \in {"putTmp", "putRename"} /\ LoadFails(h) /\ UNCHANGED lock
    BY <1>16, <2>1, <2>2, LoadFailsType DEF IOError, TypeOK
  <2>3. CASE Reject(h) /\ lock' = IF lock = h THEN None ELSE lock
    <3>1. TypeOK'
      BY <1>16, <2>1, <2>3, FinishType DEF IOError, TypeOK, Reject, OrNone
    <3>2. ControlOK'
      BY <1>16, <2>3, FinishControl DEF IOError, Reject
    <3> QED
      BY <3>1, <3>2
  <2> QED
    BY <1>16, <2>2, <2>3 DEF IOError
<1>17. CASE Crash
  <2>1. TypeOK'
    BY <1>17, NoBindingsFacts, MaxFaultsAssumption
       DEF Crash, TypeOK, Labels, OrNone
  <2>2. ControlOK'
    BY <1>17 DEF Crash, ControlOK
  <2> QED
    BY <2>1, <2>2
<1>18. CASE UNCHANGED vars
  <2>1. TypeOK'
    BY <1>18 DEF vars, sharedVars, localVars, TypeOK
  <2>2. ControlOK'
    BY <1>18 DEF vars, sharedVars, localVars, ControlOK
  <2> QED
    BY <2>1, <2>2
<1> QED
  BY <1>1, <1>2, <1>3, <1>4, <1>5, <1>6, <1>7, <1>8, <1>9, <1>10, <1>11, <1>12,
     <1>13, <1>14, <1>15, <1>16, <1>17, <1>18 DEF Next, Step

\* The inductive form of type correctness.
THEOREM TypeInvariant == Spec => []TypeInv
  BY TypeInit, TypeStep, PTL DEF Spec

\* Every reachable state of the server store is well typed.
THEOREM TypeCorrect == Spec => []TypeOK
  BY TypeInvariant, PTL DEF TypeInv

-----------------------------------------------------------------------------
(* The log only grows. *)

LogGrows == log' = log \/ \E t \in Event \cup {NL} : log' = Append(log, t)

\* Every step leaves the log alone or appends one text or newline to it.
LEMMA LogStep == TypeInv /\ [Next]_vars => LogGrows
<1> SUFFICES ASSUME TypeInv, [Next]_vars PROVE LogGrows
  OBVIOUS
<1>1. ASSUME NEW h \in Handlers, WriteText(h) PROVE LogGrows
  <2>1. Head(todo[h]) \in Event
    BY <1>1 DEF WriteText, TypeInv, TypeOK
  <2> QED
    BY <1>1, <2>1 DEF WriteText, LogGrows
<1>2. ASSUME NEW h \in Handlers, WriteNewline(h) PROVE LogGrows
  BY <1>2 DEF WriteNewline, LogGrows
<1>3. ASSUME NEW h \in Handlers, Receive(h) \/ Load(h) \/ SkipDuplicate(h)
      PROVE  log' = log
  BY <1>3 DEF Receive, Load, SkipDuplicate, sharedVars
<1>4. ASSUME NEW h \in Handlers,
             \/ Gate(h) \/ GateUnresolved(h) \/ Rebuild(h) \/ PutTmp(h)
             \/ PutRename(h) \/ SetCache(h) \/ Merge(h) \/ MergeRename(h)
             \/ BeginAppend(h) \/ FinishAppend(h) \/ IOError(h)
      PROVE  log' = log
  BY <1>4 DEF Gate, GateUnresolved, Rebuild, PutTmp, PutRename, SetCache, Merge,
              MergeRename, BeginAppend, FinishAppend, IOError
<1>5. CASE Crash
  BY <1>5 DEF Crash, LogGrows
<1>6. CASE UNCHANGED vars
  BY <1>6 DEF vars, sharedVars, LogGrows
<1> QED
  BY <1>1, <1>2, <1>3, <1>4, <1>5, <1>6 DEF Next, Step, LogGrows

\* So a text once written keeps its place, its id and what it justifies.
LEMMA LogGrowsFacts ==
    ASSUME TypeOK, LogGrows
    PROVE  /\ \A i \in TextAt : i \in TextAt' /\ log'[i] = log[i]
           /\ LoggedIds \subseteq LoggedIds'
           /\ Tied \subseteq Tied'
<1>1. ASSUME NEW i \in TextAt PROVE i \in TextAt' /\ log'[i] = log[i]
  <2>1. i \in 1 .. Len(log) /\ log[i] # NL
    BY DEF TextAt, IsText
  <2>2. CASE log' = log
    BY <2>1, <2>2 DEF TextAt, IsText
  <2>3. CASE \E t \in Event \cup {NL} : log' = Append(log, t)
    <3>1. PICK t \in Event \cup {NL} : log' = Append(log, t)
      BY <2>3
    <3>2. Len(log') = Len(log) + 1 /\ log'[i] = log[i] /\ Len(log) \in Nat
      BY <2>1, <3>1, AppendProperties DEF TypeOK
    <3> QED
      BY <2>1, <3>2 DEF TextAt, IsText
  <2> QED
    BY <2>2, <2>3 DEF LogGrows
<1>2. LoggedIds \subseteq LoggedIds'
  BY <1>1 DEF LoggedIds
<1>3. Tied \subseteq Tied'
  BY <1>1 DEF Tied
<1> QED
  BY <1>1, <1>2, <1>3

-----------------------------------------------------------------------------
(* What was acknowledged is in the log. *)

(***************************************************************************)
(* AckedDurable is not inductive: the response acknowledges what the       *)
(* handler remembers, so the ids it read, skipped and wrote must be in the *)
(* log too, and between its two writes the event it is about to accept.    *)
(***************************************************************************)
DurableInv ==
    /\ AckedDurable
    /\ \A h \in Handlers :
        existing[h] \cup accepted[h] \cup dups[h] \subseteq LoggedIds
    /\ \A h \in Handlers :
        pc[h] = "newline" => \E i \in TextAt : log[i] = Head(todo[h])

\* A handler's remembered ids stay in the log when its memory is unchanged,
\* and the rest of the invariant follows handler by handler.
LEMMA DurableFrame ==
    ASSUME TypeOK, LogGrows, DurableInv, NEW g \in Handlers,
           existing'[g] = existing[g], accepted'[g] = accepted[g],
           dups'[g] = dups[g], todo'[g] = todo[g], pc'[g] = pc[g]
    PROVE  /\ existing'[g] \cup accepted'[g] \cup dups'[g] \subseteq LoggedIds'
           /\ pc'[g] = "newline" => \E i \in TextAt' : log'[i] = Head(todo'[g])
  BY LogGrowsFacts DEF DurableInv

\* Ending a request, with or without an acknowledgement, is safe.
LEMMA DurableFinish ==
    ASSUME TypeInv, LogGrows, DurableInv, NEW h \in Handlers, Finish(h),
           acked' \subseteq acked \cup accepted[h] \cup dups[h]
    PROVE  DurableInv'
<1> USE DEF TypeInv
<1>1. AckedDurable'
  BY LogGrowsFacts DEF DurableInv, AckedDurable
<1>2. ASSUME NEW g \in Handlers
      PROVE  /\ existing'[g] \cup accepted'[g] \cup dups'[g] \subseteq LoggedIds'
             /\ pc'[g] = "newline" => \E i \in TextAt' : log'[i] = Head(todo'[g])
  <2>1. CASE g = h
    BY <2>1 DEF Finish, TypeOK
  <2>2. CASE g # h
    BY <2>2, FinishType, DurableFrame
  <2> QED
    BY <2>1, <2>2
<1> QED
  BY <1>1, <1>2 DEF DurableInv

\* So is a step that moves one handler without touching its ids.
LEMMA DurableMove ==
    ASSUME TypeInv, LogGrows, DurableInv, NEW h \in Handlers,
           NEW label \in Labels \ {"newline"}, Goto(h, label),
           UNCHANGED <<acked, todo, existing, accepted, dups>>
    PROVE  DurableInv'
<1>1. AckedDurable'
  BY LogGrowsFacts DEF TypeInv, DurableInv, AckedDurable
<1>2. ASSUME NEW g \in Handlers
      PROVE  /\ existing'[g] \cup accepted'[g] \cup dups'[g] \subseteq LoggedIds'
             /\ pc'[g] = "newline" => \E i \in TextAt' : log'[i] = Head(todo'[g])
  BY LogGrowsFacts DEF Goto, TypeInv, TypeOK, DurableInv
<1> QED
  BY <1>1, <1>2 DEF DurableInv

\* Every step keeps the invariant.
LEMMA DurableStep == TypeInv /\ DurableInv /\ [Next]_vars => DurableInv'
<1> SUFFICES ASSUME TypeInv, DurableInv, [Next]_vars PROVE DurableInv'
  OBVIOUS
<1>0. LogGrows
  BY LogStep
<1>1. ASSUME NEW h \in Handlers, LoadFails(h) PROVE DurableInv'
  BY <1>0, <1>1, DurableFinish, DurableMove DEF LoadFails, Reject, Labels
<1>2. ASSUME NEW h \in Handlers, NEW org, Decide(h, org) PROVE DurableInv'
  BY <1>0, <1>2, DurableFinish, DurableMove DEF Decide, Reject, Labels
<1>3. ASSUME NEW h \in Handlers, AfterMerge(h) PROVE DurableInv'
  BY <1>0, <1>3, DurableFinish, DurableMove DEF AfterMerge, Respond, Labels
<1>4. ASSUME NEW h \in Handlers, Receive(h) PROVE DurableInv'
  <2>1. PICK label \in {"begin", "load"} : Goto(h, label)
    BY <1>4 DEF Receive
  <2> QED
    BY <1>0, <1>4, <2>1, DurableMove DEF Receive, sharedVars, Labels
<1>5. ASSUME NEW h \in Handlers, Load(h) PROVE DurableInv'
  <2>1. PICK label \in {"gate", "merge", "setCache", "rebuild"} : Goto(h, label)
    BY <1>5 DEF Load, AfterLoad
  <2> QED
    BY <1>0, <1>5, <2>1, DurableMove DEF Load, sharedVars, Labels
<1>6. ASSUME NEW h \in Handlers, Rebuild(h) PROVE DurableInv'
  BY <1>0, <1>1, <1>6, DurableMove DEF Rebuild, Labels
<1>7. ASSUME NEW h \in Handlers, PutTmp(h) PROVE DurableInv'
  BY <1>0, <1>7, DurableMove DEF PutTmp, Labels
<1>8. ASSUME NEW h \in Handlers, PutRename(h) PROVE DurableInv'
  BY <1>0, <1>1, <1>8, DurableMove DEF PutRename, Labels
<1>9. ASSUME NEW h \in Handlers, SetCache(h) PROVE DurableInv'
  <2>1. PICK label \in {"gate", "merge"} : Goto(h, label)
    BY <1>9 DEF SetCache, AfterLoad
  <2> QED
    BY <1>0, <1>9, <2>1, DurableMove DEF SetCache, Labels
<1>10. ASSUME NEW h \in Handlers, Merge(h) PROVE DurableInv'
  BY <1>0, <1>3, <1>10, DurableMove DEF Merge, Labels
<1>11. ASSUME NEW h \in Handlers, MergeRename(h) PROVE DurableInv'
  BY <1>0, <1>3, <1>11, DurableFinish DEF MergeRename, Reject
<1>12. ASSUME NEW h \in Handlers, BeginAppend(h) PROVE DurableInv'
  <2>1. CASE Reject(h)
    BY <1>0, <2>1, DurableFinish DEF Reject
  <2>2. CASE /\ existing' = [existing EXCEPT ![h] = LoggedIds]
             /\ todo' = [todo EXCEPT ![h] = Normalized(req[h])]
             /\ Goto(h, "append")
             /\ UNCHANGED <<acked, accepted, dups>>
    <3>1. log' = log
      BY <1>12 DEF BeginAppend
    <3>2. LoggedIds' = LoggedIds /\ TextAt' = TextAt
      BY <3>1 DEF LoggedIds, TextAt
    <3> QED
      BY <2>2, <3>1, <3>2
         DEF DurableInv, AckedDurable, Goto, TypeInv, TypeOK
  <2> QED
    BY <1>12, <2>1, <2>2 DEF BeginAppend
<1>13. ASSUME NEW h \in Handlers, SkipDuplicate(h) PROVE DurableInv'
  <2>1. LoggedIds' = LoggedIds /\ TextAt' = TextAt /\ log' = log
    BY <1>13 DEF SkipDuplicate, sharedVars, LoggedIds, TextAt
  <2>2. Head(todo[h]).id \in LoggedIds
    BY <1>13 DEF SkipDuplicate, HeadIsDuplicate, DurableInv
  <2> QED
    BY <1>13, <2>1, <2>2
       DEF SkipDuplicate, sharedVars, DurableInv, AckedDurable, TypeInv, TypeOK
<1>14. ASSUME NEW h \in Handlers, WriteText(h) PROVE DurableInv'
  <2> DEFINE e == Head(todo[h])
  <2>1. e \in Event /\ e # NL
    BY <1>14, MarkersAssumption DEF WriteText, TypeInv, TypeOK
  <2>2. /\ Len(log') = Len(log) + 1 /\ log'[Len(log) + 1] = e
        /\ Len(log) \in Nat
    BY <1>14, <2>1, AppendProperties DEF WriteText, TypeInv, TypeOK
  <2>3. Len(log) + 1 \in TextAt'
    BY <2>1, <2>2 DEF TextAt, IsText
  <2>4. AckedDurable'
    BY <1>0, <1>14, LogGrowsFacts
       DEF WriteText, TypeInv, DurableInv, AckedDurable
  <2>5. ASSUME NEW g \in Handlers
        PROVE  /\ existing'[g] \cup accepted'[g] \cup dups'[g] \subseteq LoggedIds'
               /\ pc'[g] = "newline" => \E i \in TextAt' : log'[i] = Head(todo'[g])
    <3>1. CASE g = h
      BY <1>0, <1>14, <2>2, <2>3, <3>1, LogGrowsFacts
         DEF WriteText, TypeInv, DurableInv
    <3>2. CASE g # h
      BY <1>0, <1>14, <3>2, DurableFrame DEF WriteText, Goto, TypeInv, TypeOK
    <3> QED
      BY <3>1, <3>2
  <2> QED
    BY <2>4, <2>5 DEF DurableInv
<1>15. ASSUME NEW h \in Handlers, WriteNewline(h) PROVE DurableInv'
  <2> DEFINE e == Head(todo[h])
  <2>1. e.id \in LoggedIds
    BY <1>15 DEF WriteNewline, DurableInv, LoggedIds
  <2>2. AckedDurable'
    BY <1>0, <1>15, LogGrowsFacts
       DEF WriteNewline, TypeInv, DurableInv, AckedDurable
  <2>3. ASSUME NEW g \in Handlers
        PROVE  /\ existing'[g] \cup accepted'[g] \cup dups'[g] \subseteq LoggedIds'
               /\ pc'[g] = "newline" => \E i \in TextAt' : log'[i] = Head(todo'[g])
    <3>1. CASE g = h
      BY <1>0, <1>15, <2>1, <3>1, LogGrowsFacts
         DEF WriteNewline, Goto, TypeInv, TypeOK, DurableInv
    <3>2. CASE g # h
      BY <1>0, <1>15, <3>2, DurableFrame DEF WriteNewline, Goto, TypeInv, TypeOK
    <3> QED
      BY <3>1, <3>2
  <2> QED
    BY <2>2, <2>3 DEF DurableInv
<1>16. ASSUME NEW h \in Handlers, FinishAppend(h) PROVE DurableInv'
  BY <1>0, <1>16, DurableFinish, DurableMove DEF FinishAppend, Respond, Labels
<1>17. ASSUME NEW h \in Handlers, IOError(h) PROVE DurableInv'
  BY <1>0, <1>1, <1>17, DurableFinish DEF IOError, Reject
<1>18. CASE Crash
  BY <1>18 DEF Crash, DurableInv, AckedDurable, LoggedIds, TextAt
<1>19. CASE UNCHANGED vars
  BY <1>19 DEF vars, sharedVars, localVars, DurableInv, AckedDurable, LoggedIds,
               TextAt
<1> QED
  BY <1>2, <1>4, <1>5, <1>6, <1>7, <1>8, <1>9, <1>10, <1>11, <1>12, <1>13, <1>14,
     <1>15, <1>16, <1>17, <1>18, <1>19 DEF Next, Step, Gate, GateUnresolved

\* Acknowledged events are durable, for any number of handlers and faults.
THEOREM Durability == Spec => []AckedDurable
<1>1. Init => DurableInv
  BY DEF Init, DurableInv, AckedDurable
<1>2. Spec => []DurableInv
  BY <1>1, DurableStep, TypeInvariant, PTL DEF Spec
<1>3. DurableInv => AckedDurable
  BY DEF DurableInv
<1> QED
  BY <1>2, <1>3, PTL

-----------------------------------------------------------------------------
(* The first binding wins. *)

\* What one step does to a loaded cache: nothing, or_insert, or a crash.
LEMMA CacheStep ==
    ASSUME TypeInv, [Next]_vars
    PROVE  \/ cache' = cache
           \/ Crash
           \/ cache = Unloaded
           \/ \E h \in Handlers : cache' = OrInsert(cache, binds[h])
<1>1. ASSUME NEW h \in Handlers, Receive(h) \/ Load(h) \/ SkipDuplicate(h)
      PROVE  cache' = cache
  BY <1>1 DEF Receive, Load, SkipDuplicate, sharedVars
<1>2. ASSUME NEW h \in Handlers,
             \/ Gate(h) \/ GateUnresolved(h) \/ Rebuild(h) \/ PutTmp(h)
             \/ PutRename(h) \/ MergeRename(h) \/ BeginAppend(h) \/ WriteText(h)
             \/ WriteNewline(h) \/ FinishAppend(h) \/ IOError(h)
      PROVE  cache' = cache
  BY <1>2 DEF Gate, GateUnresolved, Rebuild, PutTmp, PutRename, MergeRename,
              BeginAppend, WriteText, WriteNewline, FinishAppend, IOError
<1>3. ASSUME NEW h \in Handlers, SetCache(h)
      PROVE  cache' = cache \/ cache = Unloaded
  BY <1>3 DEF SetCache
<1>4. ASSUME NEW h \in Handlers, Merge(h) PROVE cache' = OrInsert(cache, binds[h])
  BY <1>4 DEF Merge
<1>5. CASE Crash
  BY <1>5 DEF Crash
<1>6. CASE UNCHANGED vars
  BY <1>6 DEF vars, sharedVars
<1> QED
  BY <1>1, <1>2, <1>3, <1>4, <1>5, <1>6 DEF Next, Step

\* A running server never rebinds or unbinds a repo in its cache.
THEOREM FirstBinding == Spec => FirstBindingWins
<1> DEFINE Keeps == \A r \in Repos :
               cache # Unloaded /\ cache' # Unloaded /\ cache[r] # None
                   => cache'[r] = cache[r]
<1>1. TypeInv /\ [Next]_vars => [Keeps]_vars
  <2> SUFFICES ASSUME TypeInv, [Next]_vars, NEW r \in Repos,
                      cache # Unloaded, cache' # Unloaded, cache[r] # None
               PROVE  cache'[r] = cache[r]
    OBVIOUS
  <2>1. cache \in Projection /\ \A h \in Handlers : binds[h] \in Projection
    BY DEF TypeInv, TypeOK
  <2>2. ASSUME NEW h \in Handlers, cache' = OrInsert(cache, binds[h])
        PROVE  cache'[r] = cache[r]
    BY <2>1, <2>2, OrInsertFacts
  <2> QED
    BY <2>2, CacheStep DEF Crash
<1> QED
  BY <1>1, TypeInvariant, PTL DEF Spec, FirstBindingWins

-----------------------------------------------------------------------------
(* Bindings are justified. *)

(***************************************************************************)
(* The maps in flight must be justified too: each is merged into the cache *)
(* or written to the file later, when the log has only grown.              *)
(***************************************************************************)
JustifiedInv ==
    /\ BindingsJustified
    /\ \A h \in Handlers : BindsOnly(loaded[h], Tied) /\ BindsOnly(binds[h], Tied)

\* A map bound by ties stays so when there are more of them.
LEMMA BindsOnlyMonotone ==
    ASSUME NEW m, NEW T, NEW U, T \subseteq U, BindsOnly(m, T)
    PROVE  BindsOnly(m, U)
  BY DEF BindsOnly

\* or_insert of two such maps is one.
LEMMA BindsOnlyOrInsert ==
    ASSUME NEW m \in Projection, NEW b \in Projection, NEW T,
           BindsOnly(m, T), BindsOnly(b, T)
    PROVE  BindsOnly(OrInsert(m, b), T)
  BY OrInsertFacts DEF BindsOnly

\* If every map after the step was one of the maps before, or is justified
\* now, all maps are justified after the step.
LEMMA JustifiedFrame ==
    ASSUME TypeOK, LogGrows, JustifiedInv, NEW P \in SUBSET Projection,
           \A m \in P : BindsOnly(m, Tied'),
           cache' = Unloaded \/ cache' = cache \/ cache' \in P,
           file' = Absent \/ file' = file \/ file' = tmp \/ file' \in P,
           tmp' = Absent \/ tmp' = tmp \/ tmp' \in P,
           \A g \in Handlers : loaded'[g] = loaded[g] \/ loaded'[g] \in P,
           \A g \in Handlers : binds'[g] = binds[g] \/ binds'[g] \in P
    PROVE  JustifiedInv'
<1>0. Tied \subseteq Tied'
  BY LogGrowsFacts
<1>1. ASSUME NEW m, BindsOnly(m, Tied) PROVE BindsOnly(m, Tied')
  BY <1>0, <1>1, BindsOnlyMonotone
<1>2. cache' # Unloaded => BindsOnly(cache', Tied')
  BY <1>1 DEF JustifiedInv, BindingsJustified
<1>3. file' # Absent => BindsOnly(file', Tied')
  BY <1>1 DEF JustifiedInv, BindingsJustified
<1>4. tmp' # Absent => BindsOnly(tmp', Tied')
  BY <1>1 DEF JustifiedInv, BindingsJustified
<1>5. ASSUME NEW g \in Handlers
      PROVE  BindsOnly(loaded'[g], Tied') /\ BindsOnly(binds'[g], Tied')
  BY <1>1 DEF JustifiedInv
<1> QED
  BY <1>2, <1>3, <1>4, <1>5 DEF JustifiedInv, BindingsJustified

\* Every step keeps the invariant.
LEMMA JustifiedStep ==
    TypeInv /\ DurableInv /\ JustifiedInv /\ [Next]_vars => JustifiedInv'
<1> SUFFICES ASSUME TypeInv, DurableInv, JustifiedInv, [Next]_vars
             PROVE  JustifiedInv'
  OBVIOUS
<1> DEFINE Empty == {NoBindings}
<1>0. TypeOK /\ LogGrows
  BY LogStep DEF TypeInv
<1>a. Empty \in SUBSET Projection /\ \A m \in Empty : BindsOnly(m, Tied')
  BY NoBindingsFacts DEF BindsOnly
<1>b. NoBindings \in Empty
  OBVIOUS
<1>c. Tied \subseteq Tied'
  BY <1>0, LogGrowsFacts
<1>d. ASSUME NEW m, BindsOnly(m, Tied) PROVE BindsOnly(m, Tied')
  BY <1>c, <1>d, BindsOnlyMonotone
<1> HIDE DEF Empty
<1>1. ASSUME NEW h \in Handlers, Finish(h),
             cache' = Unloaded \/ cache' = cache,
             file' = file \/ file' = tmp, tmp' = Absent \/ tmp' = tmp
      PROVE  JustifiedInv'
  <2>1. ASSUME NEW g \in Handlers
        PROVE  /\ loaded'[g] = loaded[g] \/ loaded'[g] \in Empty
               /\ binds'[g] = binds[g] \/ binds'[g] \in Empty
    BY <1>0, <1>1, <1>b DEF Finish, TypeOK
  <2> QED
    BY <1>0, <1>a, <1>1, <2>1, JustifiedFrame
<1>2. ASSUME cache' = Unloaded \/ cache' = cache,
             file' = file \/ file' = tmp, tmp' = Absent \/ tmp' = tmp,
             UNCHANGED <<loaded, binds>>
      PROVE  JustifiedInv'
  BY <1>0, <1>a, <1>2, JustifiedFrame
<1>3. ASSUME NEW h \in Handlers, LoadFails(h), UNCHANGED <<file, tmp, cache>>
      PROVE  JustifiedInv'
  BY <1>1, <1>2, <1>3 DEF LoadFails, Reject
<1>4. ASSUME NEW h \in Handlers, NEW org, Decide(h, org), pc[h] # "idle",
             UNCHANGED <<file, tmp, cache>>
      PROVE  JustifiedInv'
  <2> DEFINE q == req[h]
             claim == [binds[h] EXCEPT ![q.route] = ClaimedOrg(q)]
  <2>1. CASE Reject(h)
    BY <1>1, <1>4, <2>1 DEF Reject
  <2>2. CASE UNCHANGED <<binds, loaded>>
    BY <1>2, <1>4, <2>2
  <2>3. CASE /\ q.cred.kind = "user" /\ ClaimableAt(q) # {}
             /\ binds' = [binds EXCEPT ![h][q.route] = ClaimedOrg(q)]
             /\ UNCHANGED loaded
    <3>1. q \in Requests
      BY <1>4 DEF TypeInv, ControlOK
    <3>2. PICK i \in ClaimableAt(q) : q.events[i].org = ClaimedOrg(q)
      BY <2>3, <3>1, ClaimedOrgFacts
    <3>3. binds[h] \in Projection /\ ClaimedOrg(q) \in Orgs
      BY <2>3, <3>1, ClaimedOrgFacts DEF TypeInv, TypeOK
    <3>4. q.route \in Repos => <<q.route, ClaimedOrg(q)>> \in Tied
      BY <2>3, <3>1, <3>2, <3>3 DEF Tied
    <3>5. claim \in Projection
      BY <3>3 DEF Projection, OrNone
    <3>6. \A r \in Repos :
            claim[r] = IF r = q.route THEN ClaimedOrg(q) ELSE binds[h][r]
      BY <3>3 DEF Projection
    <3>7. BindsOnly(claim, Tied)
      BY <3>4, <3>6 DEF BindsOnly, JustifiedInv
    <3>8. ASSUME NEW g \in Handlers
          PROVE  binds'[g] = binds[g] \/ binds'[g] \in {claim}
      BY <2>3 DEF TypeInv, TypeOK
    <3> HIDE DEF claim
    <3>9. \A m \in {claim} : BindsOnly(m, Tied')
      BY <1>d, <3>7
    <3>10. {claim} \in SUBSET Projection
      BY <3>5
    <3> QED
      BY <1>0, <1>4, <2>3, <3>8, <3>9, <3>10, JustifiedFrame
  <2> QED
    BY <1>4, <2>1, <2>2, <2>3 DEF Decide
<1>5. ASSUME NEW h \in Handlers, Receive(h) PROVE JustifiedInv'
  BY <1>2, <1>5 DEF Receive, sharedVars
<1>6. ASSUME NEW h \in Handlers, Gate(h) \/ GateUnresolved(h) PROVE JustifiedInv'
  BY <1>4, <1>6 DEF Gate, GateUnresolved
<1>7. ASSUME NEW h \in Handlers, Load(h) PROVE JustifiedInv'
  <2>1. CASE UNCHANGED loaded
    BY <1>2, <1>7, <2>1 DEF Load, sharedVars
  <2>2. CASE file # Absent /\ loaded' = [loaded EXCEPT ![h] = file]
    <3>1. {file} \in SUBSET Projection /\ \A m \in {file} : BindsOnly(m, Tied')
      BY <1>0, <1>d, <2>2 DEF TypeOK, JustifiedInv, BindingsJustified
    <3>2. ASSUME NEW g \in Handlers
          PROVE  loaded'[g] = loaded[g] \/ loaded'[g] \in {file}
      BY <2>2 DEF TypeInv, TypeOK
    <3>3. UNCHANGED <<cache, file, tmp, binds>>
      BY <1>7 DEF Load, sharedVars
    <3> QED
      BY <1>0, <3>1, <3>2, <3>3, JustifiedFrame
  <2> QED
    BY <1>7, <2>1, <2>2 DEF Load
<1>8. ASSUME NEW h \in Handlers, Rebuild(h) PROVE JustifiedInv'
  <2>1. CASE LoadFails(h)
    BY <1>3, <1>8, <2>1 DEF Rebuild
  <2>2. CASE loaded' = [loaded EXCEPT ![h] = RebuildFromLog] /\ UNCHANGED binds
    <3> DEFINE m0 == RebuildFromLog
    <3>1. m0 \in Projection /\ BindsOnly(m0, Tied)
      BY <1>0, RebuildFacts DEF BindsOnly, Tied, Projection, OrNone
    <3>2. ASSUME NEW g \in Handlers
          PROVE  loaded'[g] = loaded[g] \/ loaded'[g] \in {m0}
      BY <2>2 DEF TypeInv, TypeOK
    <3> HIDE DEF m0
    <3>3. {m0} \in SUBSET Projection /\ \A m \in {m0} : BindsOnly(m, Tied')
      BY <1>d, <3>1
    <3>4. UNCHANGED <<cache, file, tmp, binds>>
      BY <1>8, <2>2 DEF Rebuild
    <3> QED
      BY <1>0, <3>2, <3>3, <3>4, JustifiedFrame
  <2> QED
    BY <1>8, <2>1, <2>2 DEF Rebuild
<1>9. ASSUME NEW h \in Handlers, PutTmp(h) PROVE JustifiedInv'
  <2>1. /\ {loaded[h]} \in SUBSET Projection
        /\ \A m \in {loaded[h]} : BindsOnly(m, Tied')
    BY <1>0, <1>d DEF TypeOK, JustifiedInv
  <2> QED
    BY <1>0, <1>9, <2>1, JustifiedFrame DEF PutTmp
<1>10. ASSUME NEW h \in Handlers, PutRename(h) PROVE JustifiedInv'
  BY <1>2, <1>3, <1>10 DEF PutRename
<1>11. ASSUME NEW h \in Handlers, SetCache(h) PROVE JustifiedInv'
  <2> DEFINE P == Empty \cup {loaded[h]}
  <2>1. P \in SUBSET Projection /\ \A m \in P : BindsOnly(m, Tied')
    BY <1>0, <1>a, <1>d DEF TypeOK, JustifiedInv
  <2>2. ASSUME NEW g \in Handlers
        PROVE  loaded'[g] = loaded[g] \/ loaded'[g] \in P
    BY <1>11, <1>b DEF SetCache, TypeInv, TypeOK
  <2>3. cache' = cache \/ cache' \in P
    BY <1>11 DEF SetCache
  <2> HIDE DEF P
  <2> QED
    BY <1>0, <1>11, <2>1, <2>2, <2>3, JustifiedFrame DEF SetCache
<1>12. ASSUME NEW h \in Handlers, Merge(h) PROVE JustifiedInv'
  <2> DEFINE merged == OrInsert(cache, binds[h])
             P == Empty \cup {merged}
  <2>1. cache \in Projection /\ cache # Unloaded /\ binds[h] \in Projection
    BY <1>12, MarkersAssumption DEF Merge, TypeInv, TypeOK, ControlOK
  <2>2. BindsOnly(cache, Tied) /\ BindsOnly(binds[h], Tied)
    BY <2>1 DEF JustifiedInv, BindingsJustified
  <2>3. merged \in Projection /\ BindsOnly(merged, Tied)
    BY <2>1, <2>2, OrInsertFacts, BindsOnlyOrInsert
  <2>4. cache' = merged /\ (tmp' = merged \/ tmp' = tmp) /\ file' = file
    BY <1>12 DEF Merge
  <2>5. ASSUME NEW g \in Handlers
        PROVE  /\ loaded'[g] = loaded[g] \/ loaded'[g] \in Empty
               /\ binds'[g] = binds[g] \/ binds'[g] \in Empty
    BY <1>12, <1>b DEF Merge, AfterMerge, Respond, Finish, TypeInv, TypeOK
  <2> HIDE DEF merged
  <2>6. P \in SUBSET Projection /\ \A m \in P : BindsOnly(m, Tied')
    BY <1>a, <1>d, <2>3
  <2>7. merged \in P /\ Empty \subseteq P
    OBVIOUS
  <2> HIDE DEF P
  <2> QED
    BY <1>0, <2>4, <2>5, <2>6, <2>7, JustifiedFrame
<1>13. ASSUME NEW h \in Handlers, MergeRename(h) PROVE JustifiedInv'
  BY <1>1, <1>2, <1>13 DEF MergeRename, AfterMerge, Respond, Reject
<1>14. ASSUME NEW h \in Handlers, BeginAppend(h) PROVE JustifiedInv'
  <2>1. CASE Reject(h)
    BY <1>1, <1>14, <2>1 DEF BeginAppend, Reject
  <2>2. CASE binds' = [binds EXCEPT ![h] = NoBindings] /\ UNCHANGED loaded
    <3>1. ASSUME NEW g \in Handlers
          PROVE  binds'[g] = binds[g] \/ binds'[g] \in Empty
      BY <1>b, <2>2 DEF TypeInv, TypeOK
    <3> QED
      BY <1>0, <1>a, <1>14, <2>2, <3>1, JustifiedFrame DEF BeginAppend
  <2> QED
    BY <1>14, <2>1, <2>2 DEF BeginAppend
<1>15. ASSUME NEW h \in Handlers, SkipDuplicate(h) \/ WriteText(h)
       PROVE  JustifiedInv'
  BY <1>2, <1>15 DEF SkipDuplicate, WriteText, sharedVars
<1>16. ASSUME NEW h \in Handlers, WriteNewline(h) PROVE JustifiedInv'
  <2> DEFINE e == Head(todo[h])
             m0 == OrInsert(binds[h], BindingOf(e))
  <2>1. e \in Event
    BY <1>16 DEF WriteNewline, TypeInv, TypeOK, ControlOK
  <2>2. PICK i \in TextAt : log[i] = e
    BY <1>16 DEF WriteNewline, DurableInv
  <2>3. binds[h] \in Projection /\ BindingOf(e) \in Projection
    BY <2>1, BindingOfFacts DEF TypeInv, TypeOK
  <2>4. BindsOnly(BindingOf(e), Tied)
    BY <2>1, <2>2, <2>3, BindingOfFacts
       DEF BindsOnly, Tied, Projection, OrNone
  <2>5. m0 \in Projection /\ BindsOnly(m0, Tied)
    BY <2>3, <2>4, OrInsertFacts, BindsOnlyOrInsert DEF JustifiedInv
  <2>6. ASSUME NEW g \in Handlers
        PROVE  binds'[g] = binds[g] \/ binds'[g] \in {m0}
    BY <1>16 DEF WriteNewline, TypeInv, TypeOK
  <2> HIDE DEF m0
  <2>7. {m0} \in SUBSET Projection /\ \A m \in {m0} : BindsOnly(m, Tied')
    BY <1>d, <2>5
  <2> QED
    BY <1>0, <1>16, <2>6, <2>7, JustifiedFrame DEF WriteNewline
<1>17. ASSUME NEW h \in Handlers, FinishAppend(h) PROVE JustifiedInv'
  BY <1>1, <1>2, <1>17 DEF FinishAppend, Respond
<1>18. ASSUME NEW h \in Handlers, IOError(h) PROVE JustifiedInv'
  BY <1>1, <1>3, <1>18 DEF IOError, Reject
<1>19. CASE Crash
  <2>1. ASSUME NEW g \in Handlers
        PROVE  loaded'[g] \in Empty /\ binds'[g] \in Empty
    BY <1>19, <1>b DEF Crash
  <2> QED
    BY <1>0, <1>a, <1>19, <2>1, JustifiedFrame DEF Crash
<1>20. CASE UNCHANGED vars
  BY <1>2, <1>20 DEF vars, sharedVars, localVars
<1> QED
  BY <1>5, <1>6, <1>7, <1>8, <1>9, <1>10, <1>11, <1>12, <1>13, <1>14, <1>15,
     <1>16, <1>17, <1>18, <1>19, <1>20 DEF Next, Step

\* No binding is invented, for any number of handlers, requests and faults.
THEOREM Justification == Spec => []BindingsJustified
<1>1. Init => DurableInv
  BY DEF Init, DurableInv, AckedDurable
<1>2. Init => JustifiedInv
  BY NoBindingsFacts DEF Init, JustifiedInv, BindingsJustified, BindsOnly
<1>3. Spec => [](DurableInv /\ JustifiedInv)
  BY <1>1, <1>2, DurableStep, JustifiedStep, TypeInvariant, PTL DEF Spec
<1>4. JustifiedInv => BindingsJustified
  BY DEF JustifiedInv
<1> QED
  BY <1>3, <1>4, PTL

-----------------------------------------------------------------------------
(* A user's push targets a bound repo. *)

Loading == {"load", "rebuild", "putTmp", "putRename", "setCache", "merge"}

\* The repo handler h serves is bound in the cache.
RouteBound(h) == cache # Unloaded /\ cache[req[h].route] # None

(***************************************************************************)
(* Before the append comes the claim: from the decision to claim until the *)
(* merge the handler carries the binding, after the merge the cache has it *)
(***************************************************************************)
BoundInv ==
    \A h \in Handlers :
        /\ pc[h] \in {"begin", "append", "newline"} /\ req[h].cred.kind = "user"
               => RouteBound(h)
        /\ pc[h] \in Loading /\ after[h] = "claim"
               => req[h].route \in Repos /\ binds[h][req[h].route] # None
        /\ pc[h] = "mergeRename" /\ after[h] = "claim"
               => req[h].route \in Repos /\ RouteBound(h)
        /\ pc[h] = "idle" => after[h] = "gate"

\* A request of a user has a repo in its path.
LEMMA UserRoute ==
    ASSUME NEW q \in Requests, q.cred.kind # "open"
    PROVE  q.route \in Repos
  BY RequestFields, RequestsAssumption DEF OrNone

\* Without a crash, a bound repo stays bound.
LEMMA StaysBound ==
    ASSUME TypeInv, [Next]_vars, ~Crash, NEW r \in Repos,
           cache # Unloaded, cache[r] # None
    PROVE  cache' # Unloaded /\ cache'[r] # None
<1>1. cache \in Projection /\ \A h \in Handlers : binds[h] \in Projection
  BY DEF TypeInv, TypeOK
<1>2. ASSUME NEW h \in Handlers, cache' = OrInsert(cache, binds[h])
      PROVE  cache' # Unloaded /\ cache'[r] # None
  BY <1>1, <1>2, OrInsertFacts, MarkersAssumption
<1> QED
  BY <1>2, CacheStep

\* What BoundInv says of one handler after the step.
BoundAfter(g) ==
    /\ pc'[g] \in {"begin", "append", "newline"} /\ req'[g].cred.kind = "user"
           => cache' # Unloaded /\ cache'[req'[g].route] # None
    /\ pc'[g] \in Loading /\ after'[g] = "claim"
           => req'[g].route \in Repos /\ binds'[g][req'[g].route] # None
    /\ pc'[g] = "mergeRename" /\ after'[g] = "claim"
           => /\ req'[g].route \in Repos
              /\ cache' # Unloaded /\ cache'[req'[g].route] # None
    /\ pc'[g] = "idle" => after'[g] = "gate"

\* A handler that does not move keeps its part of the invariant.
LEMMA BoundFrame ==
    ASSUME TypeInv, BoundInv, [Next]_vars, ~Crash, NEW g \in Handlers,
           pc'[g] = pc[g], req'[g] = req[g], after'[g] = after[g],
           binds'[g] = binds[g]
    PROVE  BoundAfter(g)
<1>1. pc[g] # "idle" => req[g] \in Requests
  BY DEF TypeInv, ControlOK
<1>2. ASSUME pc[g] \in {"begin", "append", "newline"}, req[g].cred.kind = "user"
      PROVE  cache' # Unloaded /\ cache'[req[g].route] # None
  <2>1. req[g].route \in Repos
    BY <1>1, <1>2, UserRoute
  <2> QED
    BY <1>2, <2>1, StaysBound DEF BoundInv, RouteBound, OrNone
<1>3. ASSUME pc[g] = "mergeRename", after[g] = "claim"
      PROVE  /\ req[g].route \in Repos
             /\ cache' # Unloaded /\ cache'[req[g].route] # None
  BY <1>3, StaysBound DEF BoundInv, RouteBound, OrNone
<1> QED
  BY <1>2, <1>3 DEF BoundAfter, BoundInv

\* A step of handler h leaves what the others serve alone.
LEMMA OneMoves ==
    ASSUME TypeInv, NEW h \in Handlers, Receive(h) \/ Step(h) \/ IOError(h),
           NEW g \in Handlers, g # h
    PROVE  pc'[g] = pc[g] /\ req'[g] = req[g] /\ after'[g] = after[g]
           /\ binds'[g] = binds[g]
<1> DEFINE Same == pc'[g] = pc[g] /\ req'[g] = req[g] /\ after'[g] = after[g]
                   /\ binds'[g] = binds[g]
<1> SUFFICES Same
  OBVIOUS
<1> USE DEF TypeInv, TypeOK, Goto
<1>1. ASSUME Finish(h) PROVE Same
  BY <1>1 DEF Finish
<1>2. ASSUME LoadFails(h) PROVE Same
  BY <1>1, <1>2 DEF LoadFails, Reject
<1>3. ASSUME NEW org, Decide(h, org) PROVE Same
  BY <1>1, <1>3 DEF Decide, Reject
<1>4. ASSUME AfterMerge(h) PROVE Same
  BY <1>1, <1>4 DEF AfterMerge, Respond
<1>5. CASE Receive(h) \/ Gate(h) \/ GateUnresolved(h) \/ Load(h)
  BY <1>3, <1>5 DEF Receive, Gate, GateUnresolved, Load
<1>6. CASE Rebuild(h) \/ PutTmp(h) \/ PutRename(h) \/ SetCache(h) \/ IOError(h)
  BY <1>1, <1>2, <1>6 DEF Rebuild, PutTmp, PutRename, SetCache, IOError, Reject
<1>7. CASE Merge(h) \/ MergeRename(h)
  BY <1>1, <1>4, <1>7 DEF Merge, MergeRename, Reject
<1>8. CASE BeginAppend(h) \/ SkipDuplicate(h) \/ WriteText(h) \/ WriteNewline(h)
           \/ FinishAppend(h)
  BY <1>1, <1>8 DEF BeginAppend, SkipDuplicate, WriteText, WriteNewline,
                    FinishAppend, Reject, Respond
<1> QED
  BY <1>5, <1>6, <1>7, <1>8 DEF Step

\* The handler that moves establishes its own part.
LEMMA BoundMove ==
    ASSUME TypeInv, BoundInv, [Next]_vars, ~Crash,
           NEW h \in Handlers, Receive(h) \/ Step(h) \/ IOError(h)
    PROVE  BoundAfter(h)
<1> USE DEF TypeInv
<1>0. pc[h] # "idle" => req[h] \in Requests
  BY DEF ControlOK
<1>1. ASSUME Finish(h) PROVE BoundAfter(h)
  BY <1>1 DEF Finish, BoundAfter, TypeOK, Loading
<1>2. ASSUME LoadFails(h) PROVE BoundAfter(h)
  BY <1>1, <1>2 DEF LoadFails, Reject, Goto, BoundAfter, TypeOK, Loading
<1>3. ASSUME NEW org, Decide(h, org), pc[h] # "idle", cache' = cache,
             org # None => cache # Unloaded /\ org = cache[req[h].route]
      PROVE  BoundAfter(h)
  <2> DEFINE q == req[h]
  <2>1. CASE /\ q.cred.kind = "user" => <<org, q.cred.id>> \in Members
             /\ Goto(h, "begin") /\ UNCHANGED req
    <3>1. q.cred.kind = "user" => org # None
      BY <2>1, MembersAssumption, MarkersAssumption
    <3> QED
      BY <1>3, <2>1, <3>1 DEF Goto, BoundAfter, TypeOK, Loading
  <2>2. CASE /\ q.cred.kind = "user" /\ ClaimableAt(q) # {}
             /\ binds' = [binds EXCEPT ![h][q.route] = ClaimedOrg(q)]
             /\ after' = [after EXCEPT ![h] = "claim"]
             /\ Goto(h, "load") /\ UNCHANGED req
    <3>1. q.route \in Repos /\ ClaimedOrg(q) \in Orgs
      BY <1>0, <1>3, <2>2, UserRoute, ClaimedOrgFacts
    <3>2. binds'[h][q.route] = ClaimedOrg(q)
      BY <2>2, <3>1 DEF TypeOK, Projection
    <3>3. ClaimedOrg(q) # None
      BY <3>1, MarkersAssumption
    <3> QED
      BY <2>2, <3>1, <3>2, <3>3 DEF Goto, BoundAfter, TypeOK, Loading
  <2>3. CASE Reject(h)
    BY <1>1, <2>3 DEF Reject
  <2> QED
    BY <1>3, <2>1, <2>2, <2>3 DEF Decide
<1>4. ASSUME AfterMerge(h),
             after[h] = "claim" => cache' # Unloaded /\ cache'[req[h].route] # None
      PROVE  BoundAfter(h)
  BY <1>1, <1>4 DEF AfterMerge, Respond, Goto, BoundAfter, TypeOK, Loading
<1>5. CASE Receive(h)
  <2>1. PICK q \in Requests :
           /\ req' = [req EXCEPT ![h] = q]
           /\ Goto(h, IF q.cred.kind = "open" THEN "begin" ELSE "load")
    BY <1>5 DEF Receive
  <2>2. after'[h] = after[h] /\ req'[h] = q
    BY <1>5, <2>1 DEF Receive, TypeOK
  <2>3. after[h] # "claim"
    BY <1>5 DEF Receive, BoundInv
  <2> QED
    BY <2>1, <2>2, <2>3 DEF Goto, BoundAfter, TypeOK, Loading
<1>6. CASE Gate(h)
  BY <1>3, <1>6 DEF Gate, ControlOK
<1>7. CASE GateUnresolved(h)
  BY <1>3, <1>7 DEF GateUnresolved
<1>8. CASE Load(h)
  BY <1>8 DEF Load, AfterLoad, Goto, BoundAfter, BoundInv, TypeOK, Loading
<1>9. CASE Rebuild(h)
  BY <1>2, <1>9 DEF Rebuild, Goto, BoundAfter, BoundInv, TypeOK, Loading
<1>10. CASE PutTmp(h)
  BY <1>10 DEF PutTmp, Goto, BoundAfter, BoundInv, TypeOK, Loading
<1>11. CASE PutRename(h)
  BY <1>2, <1>11 DEF PutRename, Goto, BoundAfter, BoundInv, TypeOK, Loading
<1>12. CASE SetCache(h)
  BY <1>12 DEF SetCache, AfterLoad, Goto, BoundAfter, BoundInv, TypeOK, Loading
<1>13. CASE Merge(h)
  <2>1. cache \in Projection /\ binds[h] \in Projection
    BY <1>13 DEF Merge, ControlOK, TypeOK
  <2>2. cache' = OrInsert(cache, binds[h]) /\ cache' # Unloaded
    BY <1>13, <2>1, OrInsertFacts, MarkersAssumption DEF Merge
  <2>3. after[h] = "claim" =>
            req[h].route \in Repos /\ cache'[req[h].route] # None
    BY <1>13, <2>1, <2>2, OrInsertFacts DEF Merge, BoundInv, Loading
  <2>4. CASE AfterMerge(h)
    BY <1>4, <2>2, <2>3, <2>4
  <2>5. CASE Goto(h, "mergeRename") /\ UNCHANGED <<req, after, binds>>
    BY <2>2, <2>3, <2>5 DEF Goto, BoundAfter, TypeOK, Loading
  <2> QED
    BY <1>13, <2>4, <2>5 DEF Merge
<1>14. CASE MergeRename(h)
  <2>1. after[h] = "claim" => cache' # Unloaded /\ cache'[req[h].route] # None
    BY <1>14 DEF MergeRename, BoundInv, RouteBound
  <2> QED
    BY <1>1, <1>4, <1>14, <2>1 DEF MergeRename, Reject
<1>15. CASE BeginAppend(h)
  BY <1>1, <1>15
     DEF BeginAppend, Reject, Goto, BoundAfter, BoundInv, RouteBound, TypeOK,
         Loading
<1>16. CASE SkipDuplicate(h)
  BY <1>16 DEF SkipDuplicate, sharedVars, BoundAfter, BoundInv, RouteBound, TypeOK,
               Loading
<1>17. CASE WriteText(h) \/ WriteNewline(h)
  BY <1>17 DEF WriteText, WriteNewline, Goto, BoundAfter, BoundInv, RouteBound,
               TypeOK, Loading
<1>18. CASE FinishAppend(h)
  BY <1>1, <1>18 DEF FinishAppend, Respond, Goto, BoundAfter, TypeOK, Loading
<1>19. CASE IOError(h)
  BY <1>1, <1>2, <1>19 DEF IOError, Reject
<1> QED
  BY <1>5, <1>6, <1>7, <1>8, <1>9, <1>10, <1>11, <1>12, <1>13, <1>14, <1>15,
     <1>16, <1>17, <1>18, <1>19 DEF Step

\* Every step keeps the invariant.
LEMMA BoundStep == TypeInv /\ BoundInv /\ [Next]_vars => BoundInv'
<1> SUFFICES ASSUME TypeInv, BoundInv, [Next]_vars PROVE BoundInv'
  OBVIOUS
<1>1. CASE Crash
  BY <1>1 DEF Crash, BoundInv, Loading
<1>2. CASE UNCHANGED vars
  BY <1>2 DEF vars, sharedVars, localVars, BoundInv, RouteBound
<1>3. ASSUME ~Crash, NEW h \in Handlers, Receive(h) \/ Step(h) \/ IOError(h),
             NEW g \in Handlers
      PROVE  BoundAfter(g)
  <2>1. CASE g = h
    BY <1>3, <2>1, BoundMove
  <2>2. CASE g # h
    BY <1>3, <2>2, OneMoves, BoundFrame
  <2> QED
    BY <2>1, <2>2
<1> QED
  BY <1>1, <1>2, <1>3 DEF Next, BoundAfter, BoundInv, RouteBound

\* A user's push writes only to a repo that is bound, and stays so.
THEOREM UserPushesAreBound == Spec => []UserAppendsToBoundRepo
<1>1. Init => BoundInv
  BY DEF Init, BoundInv, Loading
<1>2. Spec => []BoundInv
  BY <1>1, BoundStep, TypeInvariant, PTL DEF Spec
<1>3. BoundInv => UserAppendsToBoundRepo
  BY DEF BoundInv, RouteBound, UserAppendsToBoundRepo
<1> QED
  BY <1>2, <1>3, PTL



OneHandler == \A g, h \in Handlers : g = h

\* Appending to the log adds a text and its id, or no text.
LEMMA AppendFacts ==
    ASSUME TypeOK, NEW t \in Event \cup {NL}, log' = Append(log, t)
    PROVE  /\ TextAt' = IF t = NL THEN TextAt ELSE TextAt \cup {Len(log) + 1}
           /\ Len(log) \in Nat /\ log'[Len(log) + 1] = t
           /\ \A i \in TextAt : log'[i] = log[i] /\ i # Len(log) + 1
           /\ t = NL => LoggedIds' = LoggedIds
           /\ t # NL => LoggedIds' = LoggedIds \cup {t.id}
<1>1. /\ Len(log) \in Nat /\ Len(log') = Len(log) + 1 /\ log'[Len(log) + 1] = t
      /\ \A i \in 1 .. Len(log) : log'[i] = log[i]
  BY AppendProperties DEF TypeOK
<1>2. /\ TextAt' = IF t = NL THEN TextAt ELSE TextAt \cup {Len(log) + 1}
      /\ \A i \in TextAt : log'[i] = log[i] /\ i # Len(log) + 1
  BY <1>1 DEF TextAt, IsText
<1>3. LoggedIds' = {log'[i].id : i \in TextAt'}
  BY DEF LoggedIds
<1>4. t = NL => LoggedIds' = LoggedIds
  BY <1>2, <1>3 DEF LoggedIds
<1>5. t # NL => LoggedIds' = LoggedIds \cup {t.id}
  BY <1>1, <1>2, <1>3 DEF LoggedIds
<1> QED
  BY <1>1, <1>2, <1>4, <1>5

-----------------------------------------------------------------------------
(* An id is logged once. *)

\* Ids the log holds are ids the handler has read or accepted, from its read on.
KnownIds ==
    \A h \in Handlers :
        /\ pc[h] = "append" => LoggedIds \subseteq existing[h] \cup accepted[h]
        /\ pc[h] = "newline" =>
              LoggedIds \subseteq existing[h] \cup accepted[h] \cup {Head(todo[h]).id}

OnceInv == NoDuplicateIds /\ KnownIds

\* A step that leaves the log alone and no handler newly appending keeps it.
LEMMA OnceFrame ==
    ASSUME TypeInv, OnceInv, log' = log,
           \A h \in Handlers : pc'[h] \in {"append", "newline"} =>
               /\ pc'[h] = pc[h] /\ existing'[h] = existing[h]
               /\ accepted'[h] = accepted[h] /\ todo'[h] = todo[h]
    PROVE  OnceInv'
<1>1. TextAt' = TextAt /\ LoggedIds' = LoggedIds
  BY DEF TextAt, LoggedIds
<1>2. NoDuplicateIds'
  BY <1>1 DEF OnceInv, NoDuplicateIds
<1>3. KnownIds'
  BY <1>1 DEF OnceInv, KnownIds
<1> QED
  BY <1>2, <1>3 DEF OnceInv

\* Only these steps write to the log or change what an appending handler knows.
Appending(h) == BeginAppend(h) \/ SkipDuplicate(h) \/ WriteText(h) \/ WriteNewline(h)

LEMMA OthersKeep ==
    ASSUME TypeInv, [Next]_vars, \A h \in Handlers : ~Appending(h)
    PROVE  /\ log' = log
           /\ \A g \in Handlers : pc'[g] \in {"append", "newline"} =>
                /\ pc'[g] = pc[g] /\ existing'[g] = existing[g]
                /\ accepted'[g] = accepted[g] /\ todo'[g] = todo[g]
<1> DEFINE Keeps == \A g \in Handlers : pc'[g] \in {"append", "newline"} =>
                      /\ pc'[g] = pc[g] /\ existing'[g] = existing[g]
                      /\ accepted'[g] = accepted[g] /\ todo'[g] = todo[g]
<1> USE DEF TypeInv
<1>1. ASSUME NEW h \in Handlers, Finish(h) PROVE Keeps
  BY <1>1, FinishType
<1>2. ASSUME NEW h \in Handlers, NEW label \in Labels \ {"append", "newline"}, Goto(h, label),
             UNCHANGED <<existing, accepted, todo>>
      PROVE  Keeps
  BY <1>2 DEF Goto, TypeOK
<1> HIDE DEF Keeps
<1>3. ASSUME NEW h \in Handlers, LoadFails(h) PROVE Keeps
  BY <1>1, <1>2, <1>3 DEF LoadFails, Reject, Labels
<1>4. ASSUME NEW h \in Handlers, NEW org, Decide(h, org) PROVE Keeps
  BY <1>1, <1>2, <1>4 DEF Decide, Reject, Labels
<1>5. ASSUME NEW h \in Handlers, AfterMerge(h) PROVE Keeps
  BY <1>1, <1>2, <1>5 DEF AfterMerge, Respond, Labels
<1>6. ASSUME NEW h \in Handlers, Receive(h) PROVE log' = log /\ Keeps
  <2>1. PICK label \in {"begin", "load"} : Goto(h, label)
    BY <1>6 DEF Receive
  <2> QED
    BY <1>2, <1>6, <2>1 DEF Receive, sharedVars, Labels
<1>7. ASSUME NEW h \in Handlers, Load(h) PROVE log' = log /\ Keeps
  <2>1. PICK label \in {"gate", "merge", "setCache", "rebuild"} : Goto(h, label)
    BY <1>7 DEF Load, AfterLoad
  <2> QED
    BY <1>2, <1>7, <2>1 DEF Load, sharedVars, Labels
<1>8. ASSUME NEW h \in Handlers, Gate(h) \/ GateUnresolved(h) \/ Rebuild(h) PROVE log' = log /\ Keeps
  BY <1>2, <1>3, <1>4, <1>8 DEF Gate, GateUnresolved, Rebuild, Labels
<1>9. ASSUME NEW h \in Handlers, PutTmp(h) \/ PutRename(h) PROVE log' = log /\ Keeps
  BY <1>2, <1>3, <1>9 DEF PutTmp, PutRename, Labels
<1>10. ASSUME NEW h \in Handlers, SetCache(h) PROVE log' = log /\ Keeps
  <2>1. PICK label \in {"gate", "merge"} : Goto(h, label)
    BY <1>10 DEF SetCache, AfterLoad
  <2> QED
    BY <1>2, <1>10, <2>1 DEF SetCache, Labels
<1>11. ASSUME NEW h \in Handlers, Merge(h) \/ MergeRename(h) PROVE log' = log /\ Keeps
  BY <1>1, <1>2, <1>5, <1>11 DEF Merge, MergeRename, Reject, Labels
<1>12. ASSUME NEW h \in Handlers, FinishAppend(h) PROVE log' = log /\ Keeps
  BY <1>1, <1>2, <1>12 DEF FinishAppend, Respond, Labels
<1>13. ASSUME NEW h \in Handlers, IOError(h) PROVE log' = log /\ Keeps
  BY <1>1, <1>3, <1>13 DEF IOError, Reject
<1>14. CASE Crash
  BY <1>14 DEF Crash, Keeps
<1>15. CASE UNCHANGED vars
  BY <1>15 DEF vars, sharedVars, localVars, Keeps
<1> QED
  BY <1>6, <1>7, <1>8, <1>9, <1>10, <1>11, <1>12, <1>13, <1>14, <1>15
     DEF Next, Step, Appending, Keeps

LEMMA OnceStep == OneHandler /\ TypeInv /\ OnceInv /\ [Next]_vars => OnceInv'
<1> SUFFICES ASSUME OneHandler, TypeInv, OnceInv, [Next]_vars PROVE OnceInv'
  OBVIOUS
<1> USE DEF TypeInv
<1>1. CASE \A h \in Handlers : ~Appending(h)
  BY <1>1, OthersKeep, OnceFrame
<1>2. ASSUME NEW h \in Handlers, BeginAppend(h) PROVE OnceInv'
  <2>1. CASE Reject(h)
    BY <1>2, <2>1, FinishType, OnceFrame DEF Reject, BeginAppend
  <2>2. CASE /\ existing' = [existing EXCEPT ![h] = LoggedIds]
             /\ Goto(h, "append") /\ log' = log
    <3>1. TextAt' = TextAt /\ LoggedIds' = LoggedIds
      BY <2>2 DEF TextAt, LoggedIds
    <3>2. NoDuplicateIds'
      BY <2>2, <3>1 DEF OnceInv, NoDuplicateIds
    <3>3. \A g \in Handlers : pc'[g] = "append" /\ existing'[g] = LoggedIds
      BY <2>2 DEF OneHandler, TypeOK, Goto
    <3> QED
      BY <3>1, <3>2, <3>3 DEF OnceInv, KnownIds
  <2> QED
    BY <1>2, <2>1, <2>2 DEF BeginAppend
<1>3. ASSUME NEW h \in Handlers, SkipDuplicate(h) PROVE OnceInv'
  <2>1. /\ log' = log /\ pc' = pc /\ existing' = existing /\ accepted' = accepted
        /\ pc[h] = "append"
    BY <1>3 DEF SkipDuplicate, sharedVars
  <2>2. TextAt' = TextAt /\ LoggedIds' = LoggedIds
    BY <2>1 DEF TextAt, LoggedIds
  <2>3. \A g \in Handlers : pc[g] = "append"
    BY <2>1 DEF OneHandler
  <2> QED
    BY <2>1, <2>2, <2>3 DEF OnceInv, NoDuplicateIds, KnownIds
<1>4. ASSUME NEW h \in Handlers, WriteText(h) PROVE OnceInv'
  <2> DEFINE e == Head(todo[h])
  <2>1. e \in Event /\ e # NL
    BY <1>4, MarkersAssumption DEF WriteText, TypeOK
  <2>2. /\ TextAt' = TextAt \cup {Len(log) + 1} /\ Len(log) \in Nat
        /\ log'[Len(log) + 1] = e /\ LoggedIds' = LoggedIds \cup {e.id}
        /\ \A i \in TextAt : log'[i] = log[i]
    BY <1>4, <2>1, AppendFacts DEF WriteText
  <2>3. e.id \notin LoggedIds
    BY <1>4 DEF WriteText, HeadIsDuplicate, OnceInv, KnownIds
  <2>4. NoDuplicateIds'
    <3>1. ASSUME NEW i \in TextAt', NEW j \in TextAt', log'[i].id = log'[j].id PROVE i = j
      <4>1. \A k \in TextAt : log'[k].id \in LoggedIds
        BY <2>2 DEF LoggedIds
      <4>2. CASE i \in TextAt /\ j \in TextAt
        BY <2>2, <3>1, <4>2 DEF OnceInv, NoDuplicateIds
      <4>3. CASE i \notin TextAt \/ j \notin TextAt
        BY <2>2, <2>3, <3>1, <4>1, <4>3
      <4> QED
        BY <4>2, <4>3
    <3> QED
      BY <3>1 DEF NoDuplicateIds
  <2>5. /\ \A g \in Handlers : g = h
        /\ pc[h] = "append" /\ pc'[h] = "newline" /\ UNCHANGED <<existing, accepted, todo>>
    BY <1>4 DEF OneHandler, WriteText, Goto, TypeOK
  <2>6. KnownIds'
    BY <2>2, <2>5 DEF OnceInv, KnownIds
  <2> QED
    BY <2>4, <2>6 DEF OnceInv
<1>5. ASSUME NEW h \in Handlers, WriteNewline(h) PROVE OnceInv'
  <2>1. /\ TextAt' = TextAt /\ LoggedIds' = LoggedIds
        /\ \A i \in TextAt : log'[i] = log[i]
    BY <1>5, AppendFacts DEF WriteNewline
  <2>2. /\ \A g \in Handlers : g = h
        /\ pc[h] = "newline" /\ pc'[h] = "append" /\ existing' = existing
        /\ accepted'[h] = accepted[h] \cup {Head(todo[h]).id}
    BY <1>5 DEF OneHandler, WriteNewline, Goto, TypeOK
  <2>3. NoDuplicateIds'
    BY <2>1 DEF OnceInv, NoDuplicateIds
  <2>4. KnownIds'
    BY <2>1, <2>2 DEF OnceInv, KnownIds
  <2> QED
    BY <2>3, <2>4 DEF OnceInv
<1> QED
  BY <1>1, <1>2, <1>3, <1>4, <1>5 DEF Appending

\* With one handler at a time an id is logged once, whatever crashes and I/O errors
\* leave behind (append_events_for_repo reads the ids, then appends).
THEOREM LoggedOnce ==
    ASSUME OneHandler
    PROVE  Spec => []NoDuplicateIds
<1>1. Init => OnceInv
  BY DEF Init, OnceInv, NoDuplicateIds, KnownIds, TextAt
<1>2. TypeInv /\ OnceInv /\ [Next]_vars => OnceInv'
  BY OnceStep
<1>3. OnceInv => NoDuplicateIds
  BY DEF OnceInv
<1> QED
  BY <1>1, <1>2, <1>3, TypeInvariant, PTL DEF Spec

-----------------------------------------------------------------------------
(* The projection is in step. *)

\* What handler h has accepted and has yet to record, the event it is between the
\* two writes of included.
Unrecorded(h, r) ==
    \/ binds[h][r] # None
    \/ pc[h] = "newline" /\ BindingOf(Head(todo[h]))[r] # None

\* Whether a handler may have something to record.
Owes(h) ==
    \/ pc[h] \in {"append", "newline"}
    \/ pc[h] \in Loading /\ after[h] # "gate"

\* A map binds every repo an event of the log ties to an org, but for what a
\* handler still has to record.
InStep(m) ==
    \A r \in Repos : TiesAt(r) # {} =>
        m[r] # None \/ \E h \in Handlers : Owes(h) /\ Unrecorded(h, r)

\* The map that is in use, or will be, is in step; and one handler rebuilds the
\* file only when there is none.
StepInv ==
    /\ cache # Unloaded => InStep(cache)
    /\ cache = Unloaded /\ file # Absent => InStep(file)
    /\ \A h \in Handlers :
        /\ pc[h] \in {"rebuild", "putTmp", "putRename"} => cache = Unloaded /\ file = Absent
        /\ pc[h] \in {"putTmp", "putRename", "setCache"} => InStep(loaded[h])
        /\ pc[h] = "putRename" /\ tmp # Absent => InStep(tmp)

\* Whether a map is in step does not change for the worse while the log keeps its
\* ties and the handler does not forget what it has to record.
LEMMA InStepKept ==
    ASSUME NEW m, NEW n, NEW h \in Handlers, OneHandler, InStep(m),
           \A r \in Repos : TiesAt(r)' = TiesAt(r),
           \A r \in Repos : m[r] # None => n[r] # None,
           \A r \in Repos : TiesAt(r) # {} /\ Owes(h) /\ Unrecorded(h, r) =>
               n[r] # None \/ (Owes(h)' /\ Unrecorded(h, r)')
    PROVE  InStep(n)'
BY DEF InStep, OneHandler

\* A rebuild is in step by itself.
LEMMA RebuildInStep ==
    ASSUME TypeOK
    PROVE  InStep(RebuildFromLog)
<1>1. ASSUME NEW r \in Repos, TiesAt(r) # {} PROVE RebuildFromLog[r] # None
  <2>1. TiesAt(r) \subseteq Nat
    BY TextFacts DEF TiesAt
  <2>2. Min(TiesAt(r)) \in TiesAt(r)
    BY <1>1, <2>1, MinInSet
  <2> QED
    BY <1>1, <2>2 DEF RebuildFromLog, TiesAt
<1> QED
  BY <1>1 DEF InStep

LEMMA StepInit == Init => StepInv
BY DEF Init, StepInv, InStep, TiesAt, TextAt, Loading

LEMMA QuietTies ==
    ASSUME log' = log
    PROVE  \A r \in Repos : TiesAt(r)' = TiesAt(r)
BY DEF TiesAt, TextAt

LEMMA StepStep == OneHandler /\ MaxFaults = 0 /\ TypeInv /\ StepInv /\ [Next]_vars => StepInv'
<1> SUFFICES ASSUME OneHandler, MaxFaults = 0, TypeInv, StepInv, [Next]_vars PROVE StepInv'
  OBVIOUS
<1> USE DEF TypeInv
<1>a. faults = 0
  BY DEF TypeOK
<1>b. ~Crash /\ \A h \in Handlers : ~IOError(h)
  BY <1>a DEF Crash, IOError
<1>c. ASSUME NEW h \in Handlers, pc'[h] \notin {"rebuild", "putTmp", "putRename", "setCache"},
             cache' # Unloaded => InStep(cache)',
             cache' = Unloaded /\ file' # Absent => InStep(file)'
      PROVE  StepInv'
  BY <1>c DEF StepInv, OneHandler
\* The handler owed nothing before, or what it owes stays.
<1>d. ASSUME NEW h \in Handlers, log' = log,
             \/ ~Owes(h)
             \/ binds' = binds /\ pc[h] # "newline" /\ Owes(h)'
      PROVE  \A m : InStep(m) => InStep(m)'
  <2> SUFFICES ASSUME NEW m, InStep(m) PROVE InStep(m)'
    OBVIOUS
  <2>1. \A r \in Repos : Owes(h) /\ Unrecorded(h, r) => Owes(h)' /\ Unrecorded(h, r)'
    BY <1>d DEF Unrecorded
  <2> QED
    BY <1>d, <2>1, QuietTies, InStepKept
\* A step that leaves the maps alone as well, and loads nothing.
<1>e. ASSUME NEW h \in Handlers, log' = log, UNCHANGED <<cache, file>>,
             \A m : InStep(m) => InStep(m)',
             pc'[h] \notin {"rebuild", "putTmp", "putRename", "setCache"}
      PROVE  StepInv'
  BY <1>c, <1>e DEF StepInv
<1>f. ASSUME NEW h \in Handlers, Finish(h) PROVE pc'[h] = "idle"
  BY <1>f DEF Finish, TypeOK
<1>1. ASSUME NEW h \in Handlers, Receive(h) PROVE StepInv'
  <2>1. ~Owes(h) /\ log' = log /\ UNCHANGED <<cache, file>> /\ pc'[h] \in {"begin", "load"}
    BY <1>1 DEF Receive, Owes, Loading, Goto, TypeOK, sharedVars
  <2> QED
    BY <1>d, <1>e, <2>1
<1>2. ASSUME NEW h \in Handlers, Gate(h) \/ GateUnresolved(h) PROVE StepInv'
  <2>1. PICK org : Decide(h, org)
    BY <1>2 DEF Gate, GateUnresolved
  <2>2. pc'[h] \in {"begin", "load", "idle"}
    BY <1>f, <2>1 DEF Decide, Goto, Reject, TypeOK
  <2>3. ~Owes(h) /\ log' = log /\ UNCHANGED <<cache, file>>
    BY <1>2 DEF Gate, GateUnresolved, Owes, Loading
  <2> QED
    BY <1>d, <1>e, <2>2, <2>3
<1>3. ASSUME NEW h \in Handlers, Load(h) PROVE StepInv'
  <2>1. /\ pc[h] = "load" /\ log' = log /\ UNCHANGED <<cache, file, tmp, binds, after>>
    BY <1>3 DEF Load, sharedVars
  <2>2. pc'[h] \in Loading \/ after[h] = "gate"
    BY <1>3 DEF Load, AfterLoad, Goto, TypeOK, Loading
  <2>3. \A m : InStep(m) => InStep(m)'
    BY <1>d, <2>1, <2>2 DEF Owes, Loading
  <2>4. CASE cache # Unloaded
    BY <1>3, <1>e, <2>1, <2>3, <2>4 DEF Load, AfterLoad, Goto, TypeOK
  <2>5. CASE cache = Unloaded /\ file # Absent
    <3>1. pc'[h] = "setCache" /\ loaded'[h] = file
      BY <1>3, <2>5 DEF Load, Goto, TypeOK
    <3>2. InStep(file)'
      BY <2>1, <2>3, <2>5 DEF StepInv
    <3>3. InStep(loaded[h])'
      BY <2>1, <3>1, <3>2
    <3> QED
      BY <2>1, <2>5, <3>1, <3>2, <3>3 DEF StepInv, OneHandler
  <2>6. CASE cache = Unloaded /\ file = Absent
    <3>1. pc'[h] = "rebuild"
      BY <1>3, <2>6 DEF Load, Goto, TypeOK
    <3> QED
      BY <2>1, <2>6, <3>1 DEF StepInv, OneHandler
  <2> QED
    BY <2>4, <2>5, <2>6
<1>4. ASSUME NEW h \in Handlers, Rebuild(h) PROVE StepInv'
  <2>1. pc[h] = "rebuild" /\ cache = Unloaded /\ file = Absent /\ UNCHANGED <<log, cache, file, tmp>>
    BY <1>4 DEF Rebuild, StepInv
  <2>2. CASE LoadFails(h)
    BY <1>c, <1>f, <2>1, <2>2 DEF LoadFails, Goto, Reject, TypeOK
  <2>3. CASE ~LoadFails(h)
    <3>1. /\ loaded'[h] = RebuildFromLog /\ pc'[h] = "putTmp" /\ UNCHANGED <<after, binds>>
      BY <1>4, <2>3 DEF Rebuild, Goto, TypeOK
    <3>2. \A m : InStep(m) => InStep(m)'
      BY <1>d, <2>1, <3>1 DEF Owes, Loading
    <3>3. InStep(loaded[h])'
      BY <3>1, <3>2, RebuildInStep
    <3> QED
      BY <2>1, <3>1, <3>3 DEF StepInv, OneHandler
  <2> QED
    BY <2>2, <2>3
<1>5. ASSUME NEW h \in Handlers, PutTmp(h) PROVE StepInv'
  <2>1. /\ pc[h] = "putTmp" /\ pc'[h] = "putRename" /\ tmp' = loaded[h]
        /\ UNCHANGED <<log, file, cache, after, binds, loaded>>
    BY <1>5 DEF PutTmp, Goto, TypeOK
  <2>2. \A m : InStep(m) => InStep(m)'
    BY <1>d, <2>1 DEF Owes, Loading
  <2>3. InStep(loaded[h])'
    BY <2>1, <2>2 DEF StepInv
  <2>4. InStep(tmp)'
    BY <2>1, <2>3
  <2> QED
    BY <2>1, <2>3, <2>4 DEF StepInv, OneHandler
<1>6. ASSUME NEW h \in Handlers, PutRename(h) PROVE StepInv'
  <2>1. pc[h] = "putRename" /\ cache = Unloaded /\ file = Absent /\ UNCHANGED <<log, cache>>
    BY <1>6 DEF PutRename, StepInv
  <2>2. CASE tmp = Absent
    BY <1>6, <1>c, <1>f, <2>1, <2>2 DEF PutRename, LoadFails, Goto, Reject, TypeOK
  <2>3. CASE tmp # Absent
    <3>1. /\ file' = tmp /\ pc'[h] = "setCache" /\ UNCHANGED <<after, binds, loaded>>
      BY <1>6, <2>3 DEF PutRename, Goto, TypeOK
    <3>2. \A m : InStep(m) => InStep(m)'
      BY <1>d, <2>1, <3>1 DEF Owes, Loading
    <3>3. InStep(loaded[h])' /\ InStep(file)'
      BY <2>1, <2>3, <3>1, <3>2 DEF StepInv
    <3> QED
      BY <2>1, <3>1, <3>3 DEF StepInv, OneHandler
  <2> QED
    BY <2>2, <2>3
<1>7. ASSUME NEW h \in Handlers, SetCache(h) PROVE StepInv'
  <2>1. /\ pc[h] = "setCache" /\ pc'[h] = AfterLoad(h) /\ cache' \in {cache, loaded[h]}
        /\ cache' = cache => cache # Unloaded \/ cache = loaded[h]
        /\ UNCHANGED <<log, file, after, binds>>
    BY <1>7 DEF SetCache, Goto, TypeOK
  <2>2. \A m : InStep(m) => InStep(m)'
    BY <1>d, <2>1 DEF Owes, Loading, AfterLoad
  <2>3. loaded[h] \in Projection /\ loaded[h] # Unloaded
    BY MarkersAssumption DEF TypeOK
  <2>4. InStep(cache)' /\ cache' # Unloaded
    <3>1. InStep(loaded[h]) /\ (cache # Unloaded => InStep(cache))
      BY <2>1 DEF StepInv
    <3>2. \E m : m = cache' /\ InStep(m)
      BY <2>1, <2>3, <3>1
    <3> QED
      BY <2>1, <2>2, <2>3, <3>2
  <2> QED
    BY <1>c, <2>1, <2>4 DEF AfterLoad
<1>8. ASSUME NEW h \in Handlers, Merge(h) PROVE StepInv'
  <2>1. /\ pc[h] = "merge" /\ cache \in Projection /\ binds[h] \in Projection
        /\ cache' = OrInsert(cache, binds[h]) /\ log' = log /\ file' = file
    BY <1>8 DEF Merge, ControlOK, TypeOK
  <2>2. /\ cache' \in Projection
        /\ \A r \in Repos : cache[r] # None \/ binds[h][r] # None => cache'[r] # None
    BY <2>1, OrInsertFacts
  <2>3. InStep(cache) /\ cache # Unloaded
    BY <2>1, MarkersAssumption DEF StepInv
  <2>4. InStep(cache)'
    BY <2>1, <2>2, <2>3 DEF InStep, Unrecorded, OneHandler, TiesAt, TextAt
  <2>5. pc'[h] \in {"mergeRename", "begin", "idle"}
    BY <1>8, <1>f DEF Merge, AfterMerge, Respond, Goto, TypeOK
  <2> QED
    BY <1>c, <2>2, <2>4, <2>5, MarkersAssumption
<1>9. ASSUME NEW h \in Handlers, MergeRename(h) PROVE StepInv'
  <2>1. cache # Unloaded /\ ~Owes(h) /\ log' = log /\ cache' = cache
    BY <1>9 DEF MergeRename, ControlOK, Owes, Loading
  <2>2. pc'[h] \in {"begin", "idle"}
    BY <1>9, <1>f DEF MergeRename, AfterMerge, Respond, Reject, Goto, TypeOK
  <2>3. InStep(cache)'
    BY <1>d, <2>1 DEF StepInv
  <2> QED
    BY <1>c, <2>1, <2>2, <2>3
<1>10. ASSUME NEW h \in Handlers, BeginAppend(h) PROVE StepInv'
  <2>1. ~Owes(h) /\ log' = log /\ UNCHANGED <<cache, file>>
    BY <1>10 DEF BeginAppend, Owes, Loading
  <2>2. pc'[h] \in {"append", "idle"}
    BY <1>10, <1>f DEF BeginAppend, Reject, Goto, TypeOK
  <2> QED
    BY <1>d, <1>e, <2>1, <2>2
<1>11. ASSUME NEW h \in Handlers, SkipDuplicate(h) PROVE StepInv'
  <2>1. /\ pc[h] = "append" /\ pc' = pc /\ binds' = binds
        /\ log' = log /\ UNCHANGED <<cache, file>>
    BY <1>11 DEF SkipDuplicate, sharedVars
  <2>2. Owes(h)'
    BY <2>1 DEF Owes
  <2> QED
    BY <1>d, <1>e, <2>1, <2>2
<1>12. ASSUME NEW h \in Handlers, WriteText(h) PROVE StepInv'
  <2> DEFINE e == Head(todo[h])
  <2>1. e \in Event /\ e # NL
    BY <1>12, MarkersAssumption DEF WriteText, TypeOK
  <2>2. /\ TextAt' = TextAt \cup {Len(log) + 1} /\ log'[Len(log) + 1] = e
        /\ \A i \in TextAt : log'[i] = log[i]
    BY <1>12, <2>1, AppendFacts DEF WriteText
  <2>3. /\ pc[h] = "append" /\ pc'[h] = "newline"
        /\ UNCHANGED <<cache, file, binds, todo>>
    BY <1>12 DEF WriteText, Goto, TypeOK
  <2>4. ASSUME NEW m, InStep(m) PROVE InStep(m)'
    <3>1. ASSUME NEW r \in Repos, TiesAt(r)' # {}, m[r] = None
          PROVE  (Owes(h) /\ Unrecorded(h, r))'
      <4>1. TiesAt(r) # {} \/ (e.repo = r /\ e.org # None)
        BY <2>2, <3>1 DEF TiesAt
      <4>2. CASE TiesAt(r) # {}
        <5>1. Unrecorded(h, r)
          BY <2>4, <3>1, <4>2 DEF InStep, OneHandler
        <5>2. binds[h][r] # None
          BY <2>3, <5>1 DEF Unrecorded
        <5> QED
          BY <2>3, <5>2 DEF Owes, Unrecorded
      <4>3. CASE e.repo = r /\ e.org # None
        <5>1. BindingOf(e)[r] # None
          BY <4>3 DEF BindingOf
        <5>2. BindingOf(Head(todo'[h]))[r] # None
          BY <2>3, <5>1
        <5>3. BindingOf(Head(todo[h]))'[r] # None
          BY <5>2 DEF BindingOf
        <5> QED
          BY <2>3, <5>3 DEF Owes, Unrecorded
      <4> QED
        BY <4>1, <4>2, <4>3
    <3> QED
      BY <3>1 DEF InStep
  <2> QED
    BY <1>c, <2>3, <2>4 DEF StepInv
<1>13. ASSUME NEW h \in Handlers, WriteNewline(h) PROVE StepInv'
  <2> DEFINE e == Head(todo[h])
  <2>1. /\ TextAt' = TextAt /\ \A i \in TextAt : log'[i] = log[i]
    BY <1>13, AppendFacts DEF WriteNewline
  <2>2. \A r \in Repos : TiesAt(r)' = TiesAt(r)
    BY <2>1 DEF TiesAt
  <2>3. /\ pc'[h] = "append" /\ UNCHANGED <<cache, file>>
        /\ binds'[h] = OrInsert(binds[h], BindingOf(e))
    BY <1>13 DEF WriteNewline, Goto, TypeOK
  <2>4. e \in Event /\ binds[h] \in Projection
    BY <1>13 DEF WriteNewline, ControlOK, TypeOK
  <2>5. \A r \in Repos : Unrecorded(h, r) => binds'[h][r] # None
    BY <2>3, <2>4, BindingOfFacts, OrInsertFacts DEF Unrecorded
  <2>6. \A r \in Repos : Owes(h) /\ Unrecorded(h, r) => Owes(h)' /\ Unrecorded(h, r)'
    BY <2>3, <2>5 DEF Owes, Unrecorded
  <2>7. \A m : InStep(m) => InStep(m)'
    BY <2>2, <2>6, InStepKept
  <2> QED
    BY <1>c, <2>3, <2>7 DEF StepInv
<1>14. ASSUME NEW h \in Handlers, FinishAppend(h) PROVE StepInv'
  <2>1. /\ pc[h] = "append" /\ log' = log /\ UNCHANGED <<cache, file>>
    BY <1>14 DEF FinishAppend
  <2>2. CASE binds[h] = NoBindings
    <3>1. \A r \in Repos : ~Unrecorded(h, r)
      BY <2>1, <2>2, NoBindingsFacts DEF Unrecorded
    <3>2. \A m : InStep(m) => InStep(m)'
      BY <2>1, <3>1, QuietTies, InStepKept
    <3>3. pc'[h] = "idle"
      BY <1>14, <1>f, <2>2 DEF FinishAppend, Respond
    <3> QED
      BY <1>e, <2>1, <3>2, <3>3
  <2>3. CASE binds[h] # NoBindings
    <3>1. pc'[h] = "load" /\ after'[h] = "record" /\ binds' = binds
      BY <1>14, <2>3 DEF FinishAppend, Goto, TypeOK
    <3>2. Owes(h)'
      BY <3>1 DEF Owes, Loading
    <3> QED
      BY <1>d, <1>e, <2>1, <3>1, <3>2
  <2> QED
    BY <2>2, <2>3
<1>15. CASE UNCHANGED vars
  BY <1>15 DEF vars, sharedVars, localVars, StepInv, InStep, Owes, Unrecorded, BindingOf,
               TiesAt, TextAt
<1> QED
  BY <1>b, <1>1, <1>2, <1>3, <1>4, <1>5, <1>6, <1>7, <1>8, <1>9, <1>10, <1>11, <1>12,
     <1>13, <1>14, <1>15 DEF Next, Step

\* With one handler at a time and nothing failing, every repo an event ties to an org
\* is bound between requests, once the projection is loaded: from the file, from a
\* rebuild, or by recording what was accepted.
THEOREM Projected ==
    ASSUME OneHandler, MaxFaults = 0
    PROVE  Spec => []ProjectionInStep
<1>1. Init => StepInv
  BY StepInit
<1>2. TypeInv /\ StepInv /\ [Next]_vars => StepInv'
  BY StepStep
<1>3. StepInv => ProjectionInStep
  BY DEF StepInv, InStep, Owes, Loading, ProjectionInStep, Quiet
<1> QED
  BY <1>1, <1>2, <1>3, TypeInvariant, PTL DEF Spec

=============================================================================
