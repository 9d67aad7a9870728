-------------------------- MODULE McpServerProofs --------------------------
(***************************************************************************)
(* Proofs about McpServer for every set of sessions, records and requests: *)
(* first that every request is answered once, then what parsing makes of   *)
(* the transcripts and what is stored of it, and last what an explain      *)
(* answers when refreshes come between its queries.                        *)
(***************************************************************************)
EXTENDS McpServer, SequenceTheorems, FiniteSetTheorems, WellFoundedInduction, TLAPS

-----------------------------------------------------------------------------
(* Sequences of anything, and places in them. *)

IsSeq(s) == \E S : s \in Seq(S)

\* t is s and one more element, e.
IsAppended(t, s, e) ==
    /\ Len(t) = Len(s) + 1 /\ t[Len(t)] = e
    /\ \A i \in 1 .. Len(s) : t[i] = s[i]

LEMMA SeqLength == ASSUME NEW s, IsSeq(s) PROVE Len(s) \in Nat
BY DEF IsSeq

LEMMA AppendSeq ==
    ASSUME NEW s, IsSeq(s), NEW e
    PROVE  /\ IsSeq(Append(s, e)) /\ IsAppended(Append(s, e), s, e)
           /\ IsSeq(s \o <<e>>) /\ IsAppended(s \o <<e>>, s, e)
           /\ s \o <<>> = s
<1>1. PICK S : s \in Seq(S)
  BY DEF IsSeq
<1> DEFINE T == S \cup {e}
<1>2. s \in Seq(T) /\ e \in T /\ <<e>> \in Seq(T) /\ Len(<<e>>) = 1 /\ <<e>>[1] = e
  BY <1>1
<1> HIDE DEF T
<1>3. /\ Append(s, e) \in Seq(T) /\ Len(Append(s, e)) = Len(s) + 1
      /\ Append(s, e)[Len(s) + 1] = e /\ \A i \in 1 .. Len(s) : Append(s, e)[i] = s[i]
  BY <1>2, AppendProperties
<1>4. /\ s \o <<e>> \in Seq(T) /\ Len(s \o <<e>>) = Len(s) + 1
      /\ \A i \in 1 .. Len(s) + 1 : (s \o <<e>>)[i] = IF i <= Len(s) THEN s[i] ELSE <<e>>[i - Len(s)]
  <2>1. /\ s \o <<e>> \in Seq(T) /\ Len(s \o <<e>>) = Len(s) + Len(<<e>>)
        /\ \A i \in 1 .. Len(s) + Len(<<e>>) : (s \o <<e>>)[i] =
              IF i <= Len(s) THEN s[i] ELSE <<e>>[i - Len(s)]
    BY <1>2, ConcatProperties, Zenon
  <2> QED
    BY <1>2, <2>1
<1>5. Len(s) \in Nat
  BY <1>1
<1>6. (s \o <<e>>)[Len(s) + 1] = e /\ \A i \in 1 .. Len(s) : (s \o <<e>>)[i] = s[i]
  BY <1>2, <1>4, <1>5
<1>7. s \o <<>> = s
  BY <1>1, ConcatEmptySeq
<1> QED
  BY <1>3, <1>4, <1>6, <1>7 DEF IsSeq, IsAppended

\* A new greatest place comes last, and those before keep theirs.
LEMMA RankOfNew ==
    ASSUME NEW n \in Nat, NEW S \in SUBSET (1 .. n)
    PROVE  /\ IsFiniteSet(S) /\ Cardinality(S) \in Nat
           /\ Cardinality(S \cup {n + 1}) = Cardinality(S) + 1
           /\ Rank(S \cup {n + 1}, n + 1) = Cardinality(S) + 1
           /\ \A i \in S : /\ Rank(S \cup {n + 1}, i) = Rank(S, i)
                           /\ Rank(S, i) \in 1 .. Cardinality(S)
<1>1. IsFiniteSet(S) /\ Cardinality(S) \in Nat
  <2>1. IsFiniteSet(1 .. n)
    BY FS_Interval
  <2> QED
    BY <2>1, FS_Subset, FS_CardinalityType
<1>2. Cardinality(S \cup {n + 1}) = Cardinality(S) + 1
  BY <1>1, FS_AddElement
<1>3. {j \in S \cup {n + 1} : j <= n + 1} = S \cup {n + 1}
  <2>1. \A j \in S : j <= n + 1
    OBVIOUS
  <2> QED
    BY <2>1, n + 1 <= n + 1, Zenon
<1>4. ASSUME NEW i \in S
      PROVE  /\ Rank(S \cup {n + 1}, i) = Rank(S, i)
             /\ Rank(S, i) \in 1 .. Cardinality(S)
  <2> DEFINE B == {j \in S : j <= i}
  <2>1. {j \in S \cup {n + 1} : j <= i} = B
    OBVIOUS
  <2>2. IsFiniteSet(B) /\ Cardinality(B) <= Cardinality(S) /\ Cardinality(B) \in Nat
    BY <1>1, FS_Subset, FS_CardinalityType
  <2>3. Cardinality(B) # 0
    BY <2>2, FS_EmptySet, i \in B
  <2> QED
    BY <2>1, <2>2, <2>3, <1>1 DEF Rank
<1> QED
  BY <1>1, <1>2, <1>3, <1>4 DEF Rank

-----------------------------------------------------------------------------
(* Requests and answers. *)

\* A call under way is of the last request taken, which is to be answered.
CallInv ==
    /\ call # Idle =>
        /\ {"stage", "q"} \subseteq DOMAIN call
        /\ served["coding"] \in Asked("coding")
        /\ call.q = sent["coding"][served["coding"]]

AnswerInv ==
    /\ sent \in [Surfaces -> Seq(Requests)]
    /\ \A x \in Surfaces : \A i \in 1 .. Len(sent[x]) : sent[x][i].surface = x
    /\ served \in [Surfaces -> Nat] /\ \A x \in Surfaces : served[x] <= Len(sent[x])
    /\ answers = [x \in Surfaces |-> answers[x]] /\ \A x \in Surfaces : IsSeq(answers[x])
    /\ IsSeq(ledger)
    /\ CallInv
    /\ OneAnswer

LEMMA AnswerInit == Init => AnswerInv
<1> SUFFICES ASSUME Init PROVE AnswerInv
  OBVIOUS
<1>1. \A x \in Surfaces : sent[x] = <<>> /\ served[x] = 0 /\ answers[x] = <<>> /\ Asked(x) = {}
  BY DEF Init, Asked
<1>2. Wrote = {} /\ \A x \in Surfaces : Answered(x) = {}
  BY <1>1 DEF Wrote, Answered, Surfaces
<1>3. Cardinality({}) = 0 /\ Len(<<>>) = 0 /\ <<>> \in Seq({}) /\ <<>> \in Seq(Requests)
  BY FS_EmptySet
<1>4. OneAnswer
  BY <1>1, <1>2, <1>3 DEF OneAnswer, Init
<1> QED
  BY <1>1, <1>3, <1>4 DEF Init, AnswerInv, CallInv, IsSeq

\* Who is to be answered gets one line, with the id asked for.
LEMMA RespondOnce ==
    ASSUME NEW q \in Requests
    PROVE  /\ ~Asks(q) => Respond(q) = <<>>
           /\ Asks(q) => \E a : Respond(q) = <<a>> /\ a.id = q.id
<1>1. CASE q.method = "garbage"
  BY <1>1, RequestsAssumption DEF Respond, Answer, Asks
<1>2. CASE q.method # "garbage" /\ q.id = None
  BY <1>2 DEF Respond, Asks
<1>3. CASE q.id # None /\ q.method \in {"initialize", "tools/list", "ping"}
  BY <1>3 DEF Respond, Answer, Asks
<1>4. CASE q.id # None /\ q.method = "other"
  BY <1>4 DEF Respond, Answer, Asks
<1>5. CASE q.id # None /\ q.method = "tools/call"
  BY <1>5 DEF Respond, Answer, Asks
<1> QED
  BY <1>1, <1>2, <1>3, <1>4, <1>5, RequestsAssumption

\* A request that waits does not change who is to be answered.
LEMMA SendKeeps ==
    ASSUME AnswerInv, NEW q \in Requests, Send(q)
    PROVE  AnswerInv'
<1> DEFINE y == q.surface
<1>1. /\ y \in Surfaces /\ sent' = [sent EXCEPT ![y] = Append(@, q)]
      /\ UNCHANGED <<served, call, answers, ledger>>
  BY RequestsAssumption DEF Send
<1>2. ASSUME NEW x \in Surfaces
      PROVE  /\ sent'[x] \in Seq(Requests) /\ Len(sent[x]) \in Nat /\ Len(sent[x]) <= Len(sent'[x])
             /\ \A i \in 1 .. Len(sent[x]) : sent'[x][i] = sent[x][i]
             /\ \A i \in 1 .. Len(sent'[x]) : sent'[x][i].surface = x
  <2>1. sent[x] \in Seq(Requests) /\ \A i \in 1 .. Len(sent[x]) : sent[x][i].surface = x
    BY DEF AnswerInv
  <2>2. CASE x = y
    <3>1. sent'[x] = Append(sent[x], q)
      BY <1>1, <2>2 DEF AnswerInv
    <3>2. /\ sent'[x] \in Seq(Requests) /\ Len(sent'[x]) = Len(sent[x]) + 1
          /\ sent'[x][Len(sent[x]) + 1] = q
          /\ \A i \in 1 .. Len(sent[x]) : sent'[x][i] = sent[x][i]
      BY <2>1, <3>1, AppendProperties
    <3>3. Len(sent[x]) \in Nat
      BY <2>1
    <3>4. ASSUME NEW i \in 1 .. Len(sent'[x]) PROVE sent'[x][i].surface = x
      <4>1. CASE i \in 1 .. Len(sent[x])
        BY <2>1, <3>2, <4>1
      <4>2. CASE i = Len(sent[x]) + 1
        BY <2>2, <3>2, <4>2
      <4> QED
        BY <3>2, <3>3, <4>1, <4>2
    <3> QED
      BY <3>2, <3>3, <3>4
  <2>3. CASE x # y
    BY <1>1, <2>1, <2>3 DEF AnswerInv
  <2> QED
    BY <2>2, <2>3
<1>3. ASSUME NEW x \in Surfaces
      PROVE  /\ served[x] \in Nat /\ served[x] <= Len(sent'[x])
             /\ \A i \in 1 .. served[x] : sent'[x][i] = sent[x][i]
  BY <1>2 DEF AnswerInv
<1>4. \A x \in Surfaces : Asked(x)' = Asked(x)
  BY <1>1, <1>3 DEF Asked
<1>5. \A x \in Surfaces : Answered(x)' = Answered(x) /\ Answered(x) \subseteq 1 .. served[x]
  BY <1>1, <1>4 DEF Answered, Asked
<1>6. Wrote' = Wrote /\ Wrote \subseteq 1 .. served["planning"]
  BY <1>1, <1>3, <1>4 DEF Wrote, Asked, Surfaces
<1>7. OneAnswer'
  BY <1>1, <1>3, <1>5, <1>6 DEF AnswerInv, OneAnswer, Surfaces
<1>8. CallInv'
  BY <1>1, <1>3, <1>4 DEF AnswerInv, CallInv, Asked, Surfaces
<1>9. sent' \in [Surfaces -> Seq(Requests)]
  BY <1>1, <1>2 DEF AnswerInv
<1> QED
  BY <1>1, <1>2, <1>3, <1>7, <1>8, <1>9 DEF AnswerInv

\* What taking the next line makes of who is to be answered.
LEMMA TakenNext ==
    ASSUME AnswerInv, NEW x \in Surfaces, Receive(x)
    PROVE  LET n == served[x] + 1
               q == sent[x][n]
           IN /\ served[x] \in Nat /\ n \in 1 .. Len(sent[x]) /\ q \in Requests /\ q.surface = x
              /\ served' = [served EXCEPT ![x] = n] /\ sent' = sent
              /\ x = "coding" => call = Idle
              /\ Asked(x)' = IF Asks(q) THEN Asked(x) \cup {n} ELSE Asked(x)
              /\ \A y \in Surfaces : /\ Asked(y) \subseteq 1 .. served[y]
                                     /\ y # x => Asked(y)' = Asked(y)
<1> DEFINE n == served[x] + 1
           q == sent[x][n]
<1>1. /\ served' = [served EXCEPT ![x] = n] /\ sent' = sent
      /\ x = "coding" => call = Idle
      /\ Len(sent[x]) > served[x]
  BY DEF Receive
<1>2. served[x] \in Nat /\ sent[x] \in Seq(Requests) /\ Len(sent[x]) \in Nat
  BY DEF AnswerInv
<1>3. n \in 1 .. Len(sent[x])
  BY <1>1, <1>2
<1>4. q \in Requests /\ q.surface = x
  BY <1>2, <1>3 DEF AnswerInv
<1>5. served'[x] = n /\ \A y \in Surfaces : y # x => served'[y] = served[y]
  BY <1>1 DEF AnswerInv
<1>6. \A y \in Surfaces : /\ Asked(y) \subseteq 1 .. served[y]
                          /\ y # x => Asked(y)' = Asked(y)
  BY <1>1, <1>5 DEF Asked
<1>7. 1 .. n = (1 .. served[x]) \cup {n}
  BY <1>2
<1>8. Asked(x)' = {i \in 1 .. n : Asks(sent[x][i])}
  BY <1>1, <1>5 DEF Asked, Asks
<1>9. Asked(x)' = IF Asks(q) THEN Asked(x) \cup {n} ELSE Asked(x)
  BY <1>7, <1>8, Zenon DEF Asked
<1> QED
  BY <1>1, <1>2, <1>3, <1>4, <1>6, <1>9

\* What an explain that is asked for comes to.
BegunWith(q) ==
    /\ UNCHANGED <<answers, ledger>>
    /\ call'.q = q /\ call'.stage \in {"line", "file"} /\ {"stage", "q"} \subseteq DOMAIN call'
FailedWith(x, q) ==
    /\ UNCHANGED <<call, ledger>>
    /\ answers' = [answers EXCEPT ![x] = Append(@, Answer(q, "tool_error"))]

LEMMA ExplainAsked ==
    ASSUME NEW x \in Surfaces, Receive(x), NEW q, q = sent[x][served[x] + 1], BeginsExplain(q)
    PROVE  BegunWith(q) \/ FailedWith(x, q)
<1>1. CASE /\ answers' = [answers EXCEPT ![x] = Append(@, Answer(q, "tool_error"))]
           /\ UNCHANGED <<call, ledger>>
  BY <1>1 DEF FailedWith
<1>2. CASE ~ (/\ answers' = [answers EXCEPT ![x] = Append(@, Answer(q, "tool_error"))]
              /\ UNCHANGED <<call, ledger>>)
  <2>1. PICK repo, rel, stage, steps, had :
          /\ call' = [q |-> q, repo |-> repo, rel |-> rel,
                      stage |-> IF q.anchor.kind = "line" THEN "line" ELSE "file",
                      steps |-> steps, hint |-> None, strength |-> None,
                      events |-> <<>>, told |-> <<>>, had |-> had]
          /\ UNCHANGED <<answers, ledger>>
    BY <1>2, Zenon DEF Receive
  <2> QED
    BY <2>1 DEF BegunWith
<1> QED
  BY <1>1, <1>2

\* An explain that begins leaves one request of its surface to be answered.
LEMMA BeginsKeeps ==
    ASSUME AnswerInv, NEW x \in Surfaces, Receive(x), BeginsExplain(sent[x][served[x] + 1]),
           BegunWith(sent[x][served[x] + 1])
    PROVE  AnswerInv'
<1> DEFINE n == served[x] + 1
           q == sent[x][n]
<1>1. /\ served[x] \in Nat /\ n \in 1 .. Len(sent[x]) /\ q \in Requests /\ q.surface = x
      /\ served' = [served EXCEPT ![x] = n] /\ sent' = sent
      /\ x = "coding" => call = Idle
      /\ Asked(x)' = IF Asks(q) THEN Asked(x) \cup {n} ELSE Asked(x)
      /\ \A y \in Surfaces : /\ Asked(y) \subseteq 1 .. served[y]
                             /\ y # x => Asked(y)' = Asked(y)
  BY TakenNext
<1>2. x = "coding" /\ Asks(q)
  BY <1>1 DEF BeginsExplain, Asks
<1>3. /\ UNCHANGED <<answers, ledger>>
      /\ call'.q = q /\ call'.stage \in {"line", "file"}
      /\ "stage" \in DOMAIN call' /\ "q" \in DOMAIN call'
  BY DEF BegunWith
<1>4. call' # Idle
  BY <1>3 DEF Idle
<1>5. served'[x] = n /\ \A y \in Surfaces : y # x => served'[y] = served[y]
  BY <1>1 DEF AnswerInv
<1>6. Answered("coding") = Asked("coding") /\ Answered("coding")' = Asked("coding")' \ {n}
  BY <1>1, <1>2, <1>4, <1>5 DEF Answered
<1>7. n \notin Asked("coding")
  BY <1>1, <1>2
<1>8. \A y \in Surfaces : Answered(y)' = Answered(y)
  BY <1>1, <1>2, <1>6, <1>7 DEF Answered, Surfaces
<1>9. Wrote' = Wrote
  BY <1>1, <1>2, <1>3 DEF Wrote, Surfaces
<1>10. OneAnswer'
  BY <1>1, <1>3, <1>8, <1>9 DEF AnswerInv, OneAnswer
<1>11. CallInv'
  BY <1>1, <1>2, <1>3, <1>4, <1>5 DEF CallInv
<1>12. served' \in [Surfaces -> Nat] /\ \A y \in Surfaces : served'[y] <= Len(sent'[y])
  BY <1>1, <1>5 DEF AnswerInv
<1> QED
  BY <1>1, <1>3, <1>10, <1>11, <1>12 DEF AnswerInv

\* The lines of s answer the requests of r at the places S, one each, in order.
Matched(s, S, r) ==
    /\ Len(s) = Cardinality(S)
    /\ \A i \in S : s[Rank(S, i)].id = r[i].id

\* One more answer, to the last of those answered.
LEMMA AnsweredNext ==
    ASSUME NEW n \in Nat, NEW S \in SUBSET (1 .. n), NEW s, NEW r, Matched(s, S, r),
           NEW t, NEW a, IsAppended(t, s, a), a.id = r[n + 1].id
    PROVE  Matched(t, S \cup {n + 1}, r)
<1>1. /\ Cardinality(S) \in Nat
      /\ Cardinality(S \cup {n + 1}) = Cardinality(S) + 1
      /\ Rank(S \cup {n + 1}, n + 1) = Cardinality(S) + 1
      /\ \A i \in S : /\ Rank(S \cup {n + 1}, i) = Rank(S, i)
                      /\ Rank(S, i) \in 1 .. Cardinality(S)
  BY RankOfNew
<1> QED
  BY <1>1 DEF IsAppended, Matched

\* One that fails is answered with the error.
LEMMA FailKeeps ==
    ASSUME AnswerInv, NEW x \in Surfaces, Receive(x), BeginsExplain(sent[x][served[x] + 1]),
           FailedWith(x, sent[x][served[x] + 1])
    PROVE  AnswerInv'
<1> DEFINE m == served[x]
           n == m + 1
           q == sent[x][n]
<1>1. /\ m \in Nat /\ n \in 1 .. Len(sent[x]) /\ q \in Requests /\ q.surface = x
      /\ served' = [served EXCEPT ![x] = n] /\ sent' = sent
      /\ x = "coding" => call = Idle
      /\ Asked(x)' = IF Asks(q) THEN Asked(x) \cup {n} ELSE Asked(x)
      /\ \A y \in Surfaces : /\ Asked(y) \subseteq 1 .. served[y]
                             /\ y # x => Asked(y)' = Asked(y)
  BY TakenNext
<1>2. x = "coding" /\ Asks(q) /\ call = Idle /\ call' = Idle /\ ledger' = ledger
  BY <1>1 DEF BeginsExplain, Asks, FailedWith
<1>a. PICK a : a = Answer(q, "tool_error")
  OBVIOUS
<1>3. /\ answers'["coding"] = Append(answers["coding"], a)
      /\ answers'["planning"] = answers["planning"]
      /\ answers' = [y \in Surfaces |-> answers'[y]]
  BY <1>2, <1>a DEF AnswerInv, Surfaces, FailedWith
<1>4. a.id = sent["coding"][m + 1].id
  BY <1>2, <1>a DEF Answer
<1>5. IsSeq(answers'["coding"]) /\ IsAppended(answers'["coding"], answers["coding"], a)
  <2>1. IsSeq(answers["coding"])
    BY DEF AnswerInv, Surfaces
  <2> QED
    BY <1>3, <2>1, AppendSeq
<1>6. served'["coding"] = n /\ served'["planning"] = served["planning"]
  BY <1>1, <1>2 DEF AnswerInv, Surfaces
<1>7. /\ Answered("coding") = Asked("coding") /\ Answered("coding")' = Asked("coding") \cup {m + 1}
      /\ Answered("planning")' = Answered("planning") /\ Asked("planning")' = Asked("planning")
      /\ Asked("coding") \in SUBSET (1 .. m)
  BY <1>1, <1>2 DEF Answered, Surfaces
<1>8. \A y \in Surfaces : Matched(answers[y], Answered(y), sent[y])
  BY DEF AnswerInv, OneAnswer, Matched
<1>9. Matched(answers'["coding"], Answered("coding")', sent'["coding"])
  <2>1. Matched(answers["coding"], Answered("coding"), sent["coding"])
    BY <1>8 DEF Surfaces
  <2>2. Matched(answers'["coding"], Asked("coding") \cup {m + 1}, sent["coding"])
    BY <1>1, <1>4, <1>5, <1>7, <2>1, AnsweredNext
  <2> QED
    BY <1>1, <1>7, <2>2
<1>10. Matched(answers'["planning"], Answered("planning")', sent'["planning"])
  BY <1>1, <1>3, <1>7, <1>8 DEF Surfaces
<1>11. Wrote' = Wrote
  BY <1>1, <1>3, <1>7 DEF Wrote, Rank
<1>12. OneAnswer'
  <2>1. \A i : Rank(Wrote, i)' = Rank(Wrote, i)
    BY <1>11 DEF Rank
  <2> QED
    BY <1>1, <1>2, <1>9, <1>10, <1>11, <2>1, SMTT(60) DEF AnswerInv, OneAnswer, Surfaces, Matched, Rank
<1>13. CallInv'
  BY <1>2 DEF CallInv
<1>14. served' \in [Surfaces -> Nat] /\ \A y \in Surfaces : served'[y] <= Len(sent'[y])
  BY <1>1, <1>2, <1>6 DEF AnswerInv, Surfaces
<1>15. \A y \in Surfaces : IsSeq(answers'[y])
  BY <1>3, <1>5 DEF AnswerInv, Surfaces
<1> QED
  BY <1>1, <1>2, <1>3, <1>12, <1>13, <1>14, <1>15 DEF AnswerInv

WritingTools == {"mission", "artifact_add", "artifact_attach"}

\* The ledger entry of a planning request.
EntryOf(q, e) == e.entity = q.entity /\ e.tool = CanonicalPlanningName(q.tool)

\* What a line that is answered at once adds to the ledger.
Writes(x, q) ==
    IF /\ x = "planning" /\ q.method = "tools/call" /\ q.id # None /\ q.tool # None
       /\ PlanningAccepts(q, CanonicalPlanningName(q.tool))
    THEN PlanningWrites(q, CanonicalPlanningName(q.tool)) ELSE <<>>

\* A planning request writes if it says so, and one entry.
LEMMA WritesAsSaid ==
    ASSUME NEW x \in Surfaces, NEW q \in Requests, q.surface = x,
           NEW a, Respond(q) = <<a>>
    PROVE  LET said == /\ q.method = "tools/call"
                       /\ CanonicalPlanningName(q.tool) \in WritingTools
                       /\ a.is = "result"
           IN /\ x = "planning" /\ said => \E e : Writes(x, q) = <<e>> /\ EntryOf(q, e)
              /\ ~(x = "planning" /\ said) => Writes(x, q) = <<>>
<1> DEFINE tool == CanonicalPlanningName(q.tool)
<1>1. CASE x # "planning" \/ q.method # "tools/call"
  BY <1>1 DEF Writes
<1>2. q.id = None => q.method # "tools/call"
  <2>1. q.id = None /\ q.method = "tools/call" => <<a>> = <<>>
    BY RespondOnce DEF Asks
  <2> QED
    BY <2>1
<1>3. CASE x = "planning" /\ q.method = "tools/call" /\ q.id # None
  <2>1. /\ a.is = IF q.tool = None THEN "tool_error"
                  ELSE IF PlanningAccepts(q, tool) THEN "result" ELSE "tool_error"
    BY <1>3 DEF Respond, Answer
  <2>2. a.is = "result" <=> q.tool # None /\ PlanningAccepts(q, tool)
    BY <2>1
  <2>3. Writes(x, q) = IF q.tool # None /\ PlanningAccepts(q, tool)
                       THEN PlanningWrites(q, tool) ELSE <<>>
    BY <1>3 DEF Writes
  <2>4. tool \notin WritingTools => PlanningWrites(q, tool) = <<>>
    BY DEF PlanningWrites, WritingTools
  <2>5. tool \in WritingTools => \E e : PlanningWrites(q, tool) = <<e>> /\ EntryOf(q, e)
    BY DEF PlanningWrites, WritingTools, EntryOf
  <2> QED
    BY <1>3, <2>2, <2>3, <2>4, <2>5
<1> QED
  BY <1>1, <1>2, <1>3

\* A line that is answered at once, or needs no answer.
LEMMA RespondKeeps ==
    ASSUME AnswerInv, NEW x \in Surfaces, Receive(x), ~BeginsExplain(sent[x][served[x] + 1])
    PROVE  AnswerInv'
<1> DEFINE m == served[x]
           n == m + 1
           q == sent[x][n]
<1>1. /\ m \in Nat /\ n \in 1 .. Len(sent[x]) /\ q \in Requests /\ q.surface = x
      /\ served' = [served EXCEPT ![x] = n] /\ sent' = sent
      /\ x = "coding" => call = Idle
      /\ Asked(x)' = IF Asks(q) THEN Asked(x) \cup {n} ELSE Asked(x)
      /\ \A y \in Surfaces : /\ Asked(y) \subseteq 1 .. served[y]
                             /\ y # x => Asked(y)' = Asked(y)
  BY TakenNext
<1>2. /\ answers' = [answers EXCEPT ![x] = answers[x] \o Respond(q)]
      /\ ledger' = ledger \o Writes(x, q)
      /\ call' = call
  BY DEF Receive, Writes
<1>3. /\ answers'[x] = answers[x] \o Respond(q)
      /\ \A y \in Surfaces : y # x => answers'[y] = answers[y]
      /\ answers' = [y \in Surfaces |-> answers'[y]]
      /\ served'[x] = n /\ \A y \in Surfaces : y # x => served'[y] = served[y]
      /\ IsSeq(answers[x]) /\ IsSeq(ledger)
  BY <1>1, <1>2 DEF AnswerInv
<1>4. served' \in [Surfaces -> Nat] /\ \A y \in Surfaces : served'[y] <= Len(sent'[y])
  BY <1>1, <1>3 DEF AnswerInv
<1>5. Answered(x) = Asked(x) /\ Answered(x)' = Asked(x)'
  BY <1>1, <1>2 DEF Answered
<1>6. \A y \in Surfaces : y # x => Answered(y)' = Answered(y)
  BY <1>1, <1>2, <1>3 DEF Answered
<1>7. CallInv'
  BY <1>1, <1>2, <1>3 DEF AnswerInv, CallInv, Surfaces
<1>8. CASE ~Asks(q)
  <2>1. Respond(q) = <<>> /\ Writes(x, q) = <<>>
    BY <1>1, <1>8, RespondOnce DEF Writes, Asks
  <2>2. answers'[x] = answers[x] /\ ledger' = ledger
    BY <1>2, <1>3, <2>1, AppendSeq
  <2>3. answers' = answers
    BY <1>3, <2>2 DEF AnswerInv
  <2>4. \A y \in Surfaces : Answered(y)' = Answered(y) /\ Asked(y)' = Asked(y)
    BY <1>1, <1>5, <1>6, <1>8
  <2>5. Wrote' = Wrote
    BY <1>1, <2>3, <2>4 DEF Wrote, Surfaces
  <2>6. OneAnswer'
    BY <1>1, <2>2, <2>3, <2>4, <2>5 DEF AnswerInv, OneAnswer
  <2> QED
    BY <1>1, <1>4, <1>7, <2>2, <2>3, <2>6 DEF AnswerInv
<1>9. CASE Asks(q)
  <2>1. PICK a : Respond(q) = <<a>> /\ a.id = q.id
    BY <1>1, <1>9, RespondOnce
  <2>2. IsSeq(answers'[x]) /\ IsAppended(answers'[x], answers[x], a)
    BY <1>3, <2>1, AppendSeq
  <2>3. Answered(x) \in SUBSET (1 .. m) /\ Answered(x)' = Answered(x) \cup {n}
    BY <1>1, <1>5, <1>9
  <2>4. Matched(answers[x], Answered(x), sent[x])
    BY DEF AnswerInv, OneAnswer, Matched
  <2>5. Matched(answers'[x], Answered(x)', sent'[x])
    <3>1. a.id = sent[x][m + 1].id
      BY <2>1
    <3>2. Matched(answers'[x], Answered(x) \cup {m + 1}, sent[x])
      BY <1>1, <2>2, <2>3, <2>4, <3>1, AnsweredNext
    <3> QED
      BY <1>1, <2>3, <3>2
  <2>6. \A y \in Surfaces : Matched(answers'[y], Answered(y)', sent'[y])
    <3> SUFFICES ASSUME NEW y \in Surfaces, y # x
                 PROVE  Matched(answers'[y], Answered(y)', sent'[y])
      BY <2>5
    <3>1. Answered(y)' = Answered(y) /\ answers'[y] = answers[y] /\ sent'[y] = sent[y]
      BY <1>1, <1>3, <1>6
    <3>2. Matched(answers[y], Answered(y), sent[y])
      BY DEF AnswerInv, OneAnswer, Matched
    <3> QED
      BY <3>1, <3>2
  <2>7. ASSUME x = "planning" PROVE
          Wrote' = IF /\ q.method = "tools/call"
                      /\ CanonicalPlanningName(q.tool) \in WritingTools
                      /\ a.is = "result"
                   THEN Wrote \cup {n} ELSE Wrote
    <3> DEFINE S == Asked(x)
               Says(i) == /\ sent[x][i].method = "tools/call"
                          /\ CanonicalPlanningName(sent[x][i].tool) \in WritingTools
    <3>1. /\ Len(answers[x]) = Cardinality(S)
          /\ Cardinality(S) \in Nat
          /\ Rank(S \cup {n}, n) = Cardinality(S) + 1
          /\ \A i \in S : Rank(S \cup {n}, i) = Rank(S, i) /\ Rank(S, i) \in 1 .. Cardinality(S)
      BY <1>1, <1>5, <2>3, <2>4, RankOfNew DEF Matched
    <3>2. \A i \in S : answers'[x][Rank(S \cup {n}, i)] = answers[x][Rank(S, i)]
      BY <2>2, <3>1 DEF IsAppended
    <3>3. answers'[x][Rank(S \cup {n}, n)] = a
      BY <2>2, <3>1 DEF IsAppended
    <3>4. Wrote = {i \in S : Says(i) /\ answers[x][Rank(S, i)].is = "result"}
      BY <2>7 DEF Wrote, WritingTools
    <3>5. Wrote' = {i \in S \cup {n} : Says(i) /\ answers'[x][Rank(S \cup {n}, i)].is = "result"}
      BY <1>1, <1>9, <2>7 DEF Wrote, WritingTools, Rank
    <3>7. Wrote' = {i \in S : Says(i) /\ answers'[x][Rank(S \cup {n}, i)].is = "result"}
                     \cup {i \in {n} : Says(i) /\ answers'[x][Rank(S \cup {n}, i)].is = "result"}
      BY <3>5, Zenon
    <3>8. {i \in S : Says(i) /\ answers'[x][Rank(S \cup {n}, i)].is = "result"} = Wrote
      BY <3>2, <3>4, Zenon
    <3>9. {i \in {n} : Says(i) /\ answers'[x][Rank(S \cup {n}, i)].is = "result"} =
             IF Says(n) /\ a.is = "result" THEN {n} ELSE {}
      BY <3>3, Zenon
    <3> QED
      BY <3>7, <3>8, <3>9
  <2>8. ASSUME x # "planning" PROVE Wrote' = Wrote
    BY <1>1, <1>3, <2>8 DEF Wrote, Surfaces, Rank
  <2>9. /\ IsSeq(ledger') /\ Len(ledger') = Cardinality(Wrote')
        /\ \A i \in Wrote' : EntryOf(sent'["planning"][i], ledger'[Rank(Wrote, i)'])
    <3>1. /\ Len(ledger) = Cardinality(Wrote)
          /\ \A i \in Wrote : EntryOf(sent["planning"][i], ledger[Rank(Wrote, i)])
      BY DEF AnswerInv, OneAnswer, EntryOf
    <3>2. CASE Wrote' = Wrote /\ Writes(x, q) = <<>>
      <4>1. ledger' = ledger
        BY <1>2, <1>3, <3>2, AppendSeq
      <4> QED
        BY <1>1, <1>3, <3>1, <3>2, <4>1 DEF Rank
    <3>3. CASE /\ x = "planning" /\ Wrote' = Wrote \cup {n}
               /\ \E e : Writes(x, q) = <<e>> /\ EntryOf(q, e)
      <4>1. PICK e : Writes(x, q) = <<e>> /\ EntryOf(q, e)
        BY <3>3
      <4>2. IsSeq(ledger') /\ IsAppended(ledger', ledger, e)
        BY <1>2, <1>3, <4>1, AppendSeq
      <4>3. Wrote \in SUBSET (1 .. m)
        BY <1>1, <3>3 DEF Wrote
      <4>4. /\ Cardinality(Wrote) \in Nat
            /\ Cardinality(Wrote \cup {n}) = Cardinality(Wrote) + 1
            /\ Rank(Wrote \cup {n}, n) = Cardinality(Wrote) + 1
            /\ \A i \in Wrote : /\ Rank(Wrote \cup {n}, i) = Rank(Wrote, i)
                                /\ Rank(Wrote, i) \in 1 .. Cardinality(Wrote)
        BY <1>1, <4>3, RankOfNew
      <4>5. ASSUME NEW i \in Wrote \cup {n}
            PROVE  EntryOf(sent["planning"][i], ledger'[Rank(Wrote \cup {n}, i)])
        <5>1. CASE i \in Wrote
          <6>1. ledger'[Rank(Wrote \cup {n}, i)] = ledger[Rank(Wrote, i)]
            BY <3>1, <4>2, <4>4, <5>1 DEF IsAppended
          <6> QED
            BY <3>1, <5>1, <6>1
        <5>2. CASE i = n
          <6>1. ledger'[Rank(Wrote \cup {n}, n)] = e
            BY <3>1, <4>2, <4>4 DEF IsAppended
          <6> QED
            BY <3>3, <4>1, <5>2, <6>1
        <5> QED
          BY <5>1, <5>2
      <4>6. \A i \in Wrote' : Rank(Wrote, i)' = Rank(Wrote \cup {n}, i)
        BY <3>3 DEF Rank
      <4> QED
        BY <1>1, <3>1, <3>3, <4>2, <4>4, <4>5, <4>6 DEF IsAppended
    <3> QED
      BY <1>1, <2>1, <2>7, <2>8, <3>2, <3>3, WritesAsSaid
  <2>10. OneAnswer'
    BY <2>6, <2>9 DEF OneAnswer, EntryOf, Matched, Rank
  <2>11. \A y \in Surfaces : IsSeq(answers'[y])
    BY <1>3, <2>2 DEF AnswerInv
  <2> QED
    BY <1>1, <1>3, <1>4, <1>7, <2>9, <2>10, <2>11 DEF AnswerInv
<1> QED
  BY <1>8, <1>9

\* An explain is answered when it ends.
LEMMA FinishKeeps == ASSUME AnswerInv, ExplainFinish PROVE AnswerInv'
<1> DEFINE n == served["coding"]
<1>1. PICK a : /\ answers' = [answers EXCEPT !["coding"] = Append(answers["coding"], a)]
               /\ a.id = call.q.id
  <2>1. PICK hint, strength, verdict, steps :
          answers' = [answers EXCEPT !["coding"] = Append(@,
             [Answer(call.q, "result") EXCEPT !.hint = hint, !.strength = strength,
                !.verdict = verdict, !.steps = steps])]
    BY Zenon DEF ExplainFinish
  <2>2. [Answer(call.q, "result") EXCEPT !.hint = hint, !.strength = strength,
            !.verdict = verdict, !.steps = steps].id = call.q.id
    BY DEF Answer
  <2> QED
    BY <2>1, <2>2, Zenon
<1>2. /\ call.stage = "enrich" /\ call' = Idle /\ UNCHANGED <<sent, served, ledger>>
  BY DEF ExplainFinish, ExplainIn
<1>3. call # Idle
  BY <1>2 DEF Idle
<1>4. n \in Asked("coding") /\ call.q = sent["coding"][n] /\ n \in Nat /\ n >= 1
  BY <1>3 DEF AnswerInv, CallInv, Asked, Surfaces
<1>5. /\ answers'["coding"] = Append(answers["coding"], a)
      /\ \A y \in Surfaces : y # "coding" => answers'[y] = answers[y]
      /\ answers' = [y \in Surfaces |-> answers'[y]]
  BY <1>1 DEF AnswerInv, Surfaces
<1>6. /\ IsSeq(answers'["coding"]) /\ IsAppended(answers'["coding"], answers["coding"], a)
  <2>1. IsSeq(answers["coding"])
    BY DEF AnswerInv, Surfaces
  <2> QED
    BY <1>5, <2>1, AppendSeq
<1>7. /\ \A y \in Surfaces : Asked(y)' = Asked(y)
      /\ Answered("coding") = Asked("coding") \ {n} /\ Answered("coding")' = Asked("coding")
      /\ Answered("planning")' = Answered("planning")
  BY <1>2, <1>3 DEF Asked, Answered, Surfaces
<1>8. /\ n - 1 \in Nat /\ n = (n - 1) + 1 /\ Answered("coding") \in SUBSET (1 .. (n - 1))
      /\ Answered("coding")' = Answered("coding") \cup {n}
  BY <1>4, <1>7 DEF Asked
<1>9. \A x \in Surfaces : Matched(answers[x], Answered(x), sent[x])
  BY DEF AnswerInv, OneAnswer, Matched
<1>10. Matched(answers'["coding"], Answered("coding")', sent'["coding"])
  <2>1. a.id = sent["coding"][(n - 1) + 1].id
    BY <1>1, <1>4, <1>8
  <2>2. Matched(answers["coding"], Answered("coding"), sent["coding"])
    BY <1>9 DEF Surfaces
  <2>3. Matched(answers'["coding"], Answered("coding") \cup {(n - 1) + 1}, sent["coding"])
    BY <1>6, <1>8, <2>1, <2>2, AnsweredNext
  <2> QED
    BY <1>2, <1>8, <2>3
<1>11. Matched(answers'["planning"], Answered("planning")', sent'["planning"])
  <2>1. answers'["planning"] = answers["planning"]
    BY <1>5 DEF Surfaces
  <2> QED
    BY <1>2, <1>7, <1>9, <2>1 DEF Surfaces
<1>12. Wrote' = Wrote
  BY <1>2, <1>5, <1>7 DEF Wrote, Surfaces, Rank
<1>13. OneAnswer'
  <2>1. \A i : Rank(Wrote, i)' = Rank(Wrote, i)
    BY <1>12 DEF Rank
  <2> QED
    BY <1>2, <1>10, <1>11, <1>12, <2>1 DEF AnswerInv, OneAnswer, Surfaces, Matched, Rank
<1>14. CallInv'
  BY <1>2 DEF CallInv
<1> QED
  BY <1>2, <1>5, <1>6, <1>13, <1>14 DEF AnswerInv, Surfaces

\* A step that serves no request.
LEMMA OthersKeep ==
    ASSUME AnswerInv, UNCHANGED <<sent, served, answers, ledger>>,
           \/ call' = call
           \/ /\ call # Idle /\ call' # Idle /\ call'.q = call.q
              /\ "stage" \in DOMAIN call' /\ "q" \in DOMAIN call'
    PROVE  AnswerInv'
<1>1. \A x \in Surfaces : Asked(x)' = Asked(x) /\ Answered(x)' = Answered(x)
  BY DEF Asked, Answered, Surfaces
<1>2. Wrote' = Wrote
  BY <1>1 DEF Wrote, Surfaces, Rank
<1>3. OneAnswer'
  BY <1>1, <1>2 DEF AnswerInv, OneAnswer, Rank
<1>4. CallInv'
  BY <1>1 DEF AnswerInv, CallInv, Surfaces
<1> QED
  BY <1>3, <1>4 DEF AnswerInv

\* The steps of an explain before its end.
ExplainGoesOn ==
    \/ ExplainLine \/ ExplainText \/ ExplainFile
    \/ ExplainRefine \/ ExplainHeal \/ ExplainEvents \/ ExplainEnrich

LEMMA GoingOnFrame ==
    ASSUME ExplainGoesOn
    PROVE  UNCHANGED <<log, torn, planFile, db, job, sent, served, answers, ledger>>
BY DEF ExplainGoesOn, ExplainLine, ExplainText, ExplainFile, ExplainRefine, ExplainHeal, ExplainEvents,
       ExplainEnrich, ExplainQueryFrame, agentVars

\* A query of an explain moves on to the next, for the same request.
LEMMA QueryKeeps ==
    ASSUME AnswerInv, ExplainGoesOn
    PROVE  AnswerInv'
<1>1. /\ UNCHANGED <<sent, served, answers, ledger>>
      /\ call.stage \in {"line", "text", "file", "refine", "heal", "events", "enrich"}
  BY GoingOnFrame DEF ExplainGoesOn, ExplainLine, ExplainText, ExplainFile, ExplainRefine, ExplainHeal,
                      ExplainEvents, ExplainEnrich, ExplainIn
<1>2. call # Idle /\ "stage" \in DOMAIN call /\ "q" \in DOMAIN call
  BY <1>1 DEF Idle, AnswerInv, CallInv
<1>3. /\ call'.stage \in {"text", "file", "refine", "heal", "events", "enrich"}
      /\ call'.q = call.q /\ DOMAIN call' = DOMAIN call
  <2>1. CASE ExplainLine
    BY <1>2, <2>1 DEF ExplainLine, Found
  <2>2. CASE ExplainText
    BY <1>2, <2>2 DEF ExplainText, Found
  <2>3. CASE ExplainFile
    BY <1>2, <2>3 DEF ExplainFile
  <2>4. CASE ExplainRefine
    <3>1. PICK steps : call' = [call EXCEPT !.stage = "heal", !.steps = steps]
      BY <2>4, Zenon DEF ExplainRefine
    <3> QED
      BY <1>2, <3>1
  <2>5. CASE ExplainHeal
    BY <1>2, <2>5 DEF ExplainHeal
  <2>6. CASE ExplainEvents
    BY <1>2, <2>6 DEF ExplainEvents
  <2>7. CASE ExplainEnrich
    <3>1. PICK e : call' = [call EXCEPT !.told = Append(@, e)]
      BY <2>7, Zenon DEF ExplainEnrich
    <3>2. call.stage = "enrich"
      BY <2>7 DEF ExplainEnrich, ExplainIn
    <3> QED
      BY <1>2, <3>1, <3>2
  <2> QED
    BY <2>1, <2>2, <2>3, <2>4, <2>5, <2>6, <2>7 DEF ExplainGoesOn
<1>4. call' # Idle
  BY <1>3 DEF Idle
<1> QED
  BY <1>1, <1>2, <1>3, <1>4, OthersKeep

LEMMA AnswerNext == ASSUME AnswerInv, [Next]_vars PROVE AnswerInv'
<1>1. ASSUME NEW s \in Sessions, Tear(s) \/ \E r \in Records[s] : Write(s, r)
      PROVE  AnswerInv'
  BY <1>1, OthersKeep DEF Tear, Write, clientVars
<1>2. ASSUME NEW p \in PlanFiles, WritePlan(p) PROVE AnswerInv'
  BY <1>2, OthersKeep DEF WritePlan, clientVars
<1>3. CASE RefreshBegin \/ RefreshList \/ RefreshRow \/ RefreshChunks \/ RefreshEmit
           \/ RefreshPlans \/ RefreshCrash
  BY <1>3, OthersKeep DEF RefreshBegin, RefreshList, RefreshRow, RefreshChunks, RefreshEmit,
                          RefreshPlans, RefreshCrash, clientVars
<1>4. ASSUME NEW q \in Requests, Send(q) PROVE AnswerInv'
  BY <1>4, SendKeeps
<1>5. ASSUME NEW x \in Surfaces, Receive(x) PROVE AnswerInv'
  <2>1. CASE BeginsExplain(sent[x][served[x] + 1])
    BY <1>5, <2>1, ExplainAsked, BeginsKeeps, FailKeeps
  <2>2. CASE ~BeginsExplain(sent[x][served[x] + 1])
    BY <1>5, <2>2, RespondKeeps
  <2> QED
    BY <2>1, <2>2
<1>6. CASE ExplainGoesOn
  BY <1>6, QueryKeeps
<1>7. CASE ExplainFinish
  BY <1>7, FinishKeeps
<1>8. CASE UNCHANGED vars
  BY <1>8, OthersKeep DEF vars, clientVars
<1> QED
  BY <1>1, <1>2, <1>3, <1>4, <1>5, <1>6, <1>7, <1>8 DEF Next, ExplainGoesOn

(***************************************************************************)
(* Every line that a surface has taken and that asks for an answer has one *)
(* and only one, in order and with its id, but for the explain under way;  *)
(* and the ledger is what planning requests were told they wrote (serve,   *)
(* handle_tool_call, dispatch_planning).                                   *)
(***************************************************************************)
THEOREM EveryAnswerOnce == Spec => []OneAnswer
<1>1. Init => AnswerInv
  BY AnswerInit
<1>2. AnswerInv /\ [Next]_vars => AnswerInv'
  BY AnswerNext
<1>3. AnswerInv => OneAnswer
  BY DEF AnswerInv
<1> QED
  BY <1>1, <1>2, <1>3, PTL DEF Spec

-----------------------------------------------------------------------------
(* Reading one item, or one record, after another. *)

\* A nonempty set of naturals has a least element.
LEMMA LeastElement ==
    ASSUME NEW S \in SUBSET Nat, S # {}
    PROVE  \E x \in S : \A y \in S : x <= y
<1> DEFINE Less == {ss \in Nat \X Nat : ss[1] < ss[2]}
<1>1. Less = OpToRel(<, Nat)
  BY Zenon DEF OpToRel
<1>2. IsWellFoundedOn(Less, Nat)
  BY <1>1, NatLessThanWellFounded, Zenon
<1> HIDE DEF Less
<1>3. PICK x \in S : \A y \in S : ~ (<<y, x>> \in Less)
  BY <1>2, WFMin, Zenon
<1>4. ASSUME NEW y \in S PROVE x <= y
  <2>1. y < x => <<y, x>> \in Less
    BY SMT DEF Less
  <2> QED
    BY <1>3, <2>1
<1> QED
  BY <1>4

\* A set that has 0 and with each k below n its successor has all up to n.
LEMMA Climb ==
    ASSUME NEW n \in Nat, NEW T, 0 \in T, \A k \in 0 .. n : k < n /\ k \in T => k + 1 \in T
    PROVE  \A k \in 0 .. n : k \in T
<1> DEFINE B == {k \in 0 .. n : k \notin T}
<1> SUFFICES ASSUME B # {} PROVE FALSE
  OBVIOUS
<1>1. PICK b \in B : \A k \in B : b <= k
  BY LeastElement, B \subseteq Nat
<1>2. b \in 0 .. n /\ b # 0 /\ b \notin T
  OBVIOUS
<1>3. b - 1 \in 0 .. n /\ b - 1 < b /\ b - 1 < n /\ (b - 1) + 1 = b
  BY <1>2
<1>4. b - 1 \in T
  BY <1>1, <1>3
<1> QED
  BY <1>2, <1>3, <1>4

\* f says what the items leave, one after another.
ItemByItem(f, st, items, at) ==
    /\ f[0] = st
    /\ \A n \in 1 .. Len(items) : f[n] = AssistantItem(f[n - 1], items[n], at)

LEMMA ItemsInTurn ==
    ASSUME NEW st, NEW items, Len(items) \in Nat, NEW at
    PROVE  \E f : ItemByItem(f, st, items, at) /\ ReadItems(st, items, at) = f[Len(items)]
<1> DEFINE Upto(f, n) == f = [k \in 0 .. n |-> IF k = 0 THEN st
                                               ELSE AssistantItem(f[k - 1], items[k], at)]
           T == {n \in Nat : \E f : Upto(f, n)}
           N == Len(items)
<1>1. 0 \in T
  <2>1. Upto([k \in 0 .. 0 |-> st], 0)
    OBVIOUS
  <2> QED
    BY <2>1, Zenon
<1>2. ASSUME NEW n \in 0 .. N, n < N, n \in T PROVE n + 1 \in T
  <2>1. PICK f : Upto(f, n)
    BY <1>2
  <2> DEFINE g == [k \in 0 .. (n + 1) |-> IF k <= n THEN f[k]
                                          ELSE AssistantItem(f[n], items[n + 1], at)]
  <2>2. ASSUME NEW k \in 0 .. (n + 1)
        PROVE  g[k] = IF k = 0 THEN st ELSE AssistantItem(g[k - 1], items[k], at)
    <3>1. CASE k <= n
      <4>1. k \in 0 .. n /\ g[k] = f[k] /\ (k # 0 => g[k - 1] = f[k - 1])
        BY <3>1
      <4>2. f[k] = IF k = 0 THEN st ELSE AssistantItem(f[k - 1], items[k], at)
        BY <2>1, <4>1
      <4> QED
        BY <4>1, <4>2
    <3>2. CASE k = n + 1
      <4>1. g[k] = AssistantItem(f[n], items[k], at) /\ k # 0 /\ g[k - 1] = f[n]
        BY <3>2
      <4> QED
        BY <4>1
    <3> QED
      BY <3>1, <3>2
  <2>3. Upto(g, n + 1)
    BY <2>2
  <2>4. n + 1 \in Nat
    OBVIOUS
  <2> QED
    BY <2>3, <2>4, Zenon
<1>3. N \in T
  <2> HIDE DEF T
  <2>1. N \in Nat /\ N \in 0 .. N
    OBVIOUS
  <2>2. \A n \in 0 .. N : n < N /\ n \in T => n + 1 \in T
    BY <1>2
  <2> HIDE DEF N
  <2>3. \A n \in 0 .. N : n \in T
    BY <1>1, <2>1, <2>2, Climb, Zenon
  <2> QED
    BY <2>1, <2>3
<1> DEFINE h == CHOOSE f : Upto(f, N)
<1>4. Upto(h, N)
  BY <1>3, Zenon
<1>5. ReadItems(st, items, at) = h[N]
  BY DEF ReadItems
<1> HIDE DEF h
<1>6. ItemByItem(h, st, items, at)
  BY <1>4 DEF ItemByItem
<1> QED
  BY <1>5, <1>6

\* The same of the records of a transcript.
RecordByRecord(f, source, records) ==
    /\ f[0] = NothingRead
    /\ \A n \in 1 .. Len(records) : f[n] = ReadRecord(source, f[n - 1], records[n])

LEMMA RecordsInTurn ==
    ASSUME NEW source, NEW records, Len(records) \in Nat
    PROVE  \E f : RecordByRecord(f, source, records) /\ ReadTranscript(source, records) = f[Len(records)]
<1> DEFINE Upto(f, n) == f = [k \in 0 .. n |-> IF k = 0 THEN NothingRead
                                               ELSE ReadRecord(source, f[k - 1], records[k])]
           T == {n \in Nat : \E f : Upto(f, n)}
           N == Len(records)
<1>1. 0 \in T
  <2>1. Upto([k \in 0 .. 0 |-> NothingRead], 0)
    OBVIOUS
  <2> QED
    BY <2>1, Zenon
<1>2. ASSUME NEW n \in 0 .. N, n < N, n \in T PROVE n + 1 \in T
  <2>1. PICK f : Upto(f, n)
    BY <1>2
  <2> DEFINE g == [k \in 0 .. (n + 1) |-> IF k <= n THEN f[k]
                                          ELSE ReadRecord(source, f[n], records[n + 1])]
  <2>2. ASSUME NEW k \in 0 .. (n + 1)
        PROVE  g[k] = IF k = 0 THEN NothingRead ELSE ReadRecord(source, g[k - 1], records[k])
    <3>1. CASE k <= n
      <4>1. k \in 0 .. n /\ g[k] = f[k] /\ (k # 0 => g[k - 1] = f[k - 1])
        BY <3>1
      <4>2. f[k] = IF k = 0 THEN NothingRead ELSE ReadRecord(source, f[k - 1], records[k])
        BY <2>1, <4>1
      <4> QED
        BY <4>1, <4>2
    <3>2. CASE k = n + 1
      <4>1. g[k] = ReadRecord(source, f[n], records[k]) /\ k # 0 /\ g[k - 1] = f[n]
        BY <3>2
      <4> QED
        BY <4>1
    <3> QED
      BY <3>1, <3>2
  <2>3. Upto(g, n + 1)
    BY <2>2
  <2>4. n + 1 \in Nat
    OBVIOUS
  <2> QED
    BY <2>3, <2>4, Zenon
<1>3. N \in T
  <2> HIDE DEF T
  <2>1. N \in Nat /\ N \in 0 .. N
    OBVIOUS
  <2>2. \A n \in 0 .. N : n < N /\ n \in T => n + 1 \in T
    BY <1>2
  <2> HIDE DEF N
  <2>3. \A n \in 0 .. N : n \in T
    BY <1>1, <2>1, <2>2, Climb, Zenon
  <2> QED
    BY <2>1, <2>3
<1> DEFINE h == CHOOSE f : Upto(f, N)
<1>4. Upto(h, N)
  BY <1>3, Zenon
<1>5. ReadTranscript(source, records) = h[N]
  BY DEF ReadTranscript
<1> HIDE DEF h
<1>6. RecordByRecord(h, source, records)
  BY <1>4 DEF RecordByRecord
<1> QED
  BY <1>5, <1>6

LEMMA ReadNext ==
    ASSUME NEW source, NEW rs, IsSeq(rs), NEW r
    PROVE  /\ ReadTranscript(source, Append(rs, r)) = ReadRecord(source, ReadTranscript(source, rs), r)
           /\ rs = <<>> => ReadTranscript(source, rs) = NothingRead
<1> DEFINE N == Len(rs)
           t == Append(rs, r)
<1>1. N \in Nat /\ Len(t) = N + 1 /\ t[N + 1] = r /\ \A i \in 1 .. N : t[i] = rs[i]
  BY AppendSeq, SeqLength DEF IsAppended
<1>2. PICK f : RecordByRecord(f, source, rs) /\ ReadTranscript(source, rs) = f[N]
  BY <1>1, RecordsInTurn
<1>3. PICK g : RecordByRecord(g, source, t) /\ ReadTranscript(source, t) = g[N + 1]
  <2>1. Len(t) \in Nat
    BY <1>1
  <2> QED
    BY <1>1, <2>1, RecordsInTurn
<1> DEFINE T == {k \in 0 .. N : g[k] = f[k]}
<1>4. 0 \in T
  BY <1>1, <1>2, <1>3 DEF RecordByRecord
<1>5. ASSUME NEW k \in 0 .. N, k < N, k \in T PROVE k + 1 \in T
  <2>1. k + 1 \in 1 .. N /\ k + 1 \in 1 .. Len(t) /\ (k + 1) - 1 = k
    BY <1>1, <1>5
  <2>2. f[k + 1] = ReadRecord(source, f[k], rs[k + 1]) /\ g[k + 1] = ReadRecord(source, g[k], t[k + 1])
    BY <1>2, <1>3, <2>1 DEF RecordByRecord
  <2> QED
    BY <1>1, <1>5, <2>1, <2>2
<1>6. g[N] = f[N]
  <2>1. N \in 0 .. N
    BY <1>1
  <2>2. \A k \in 0 .. N : k < N /\ k \in T => k + 1 \in T
    BY <1>5
  <2> HIDE DEF T
  <2>3. N \in T
    BY <1>1, <1>4, <2>1, <2>2, Climb, Zenon
  <2> QED
    BY <2>3 DEF T
<1>7. g[N + 1] = ReadRecord(source, g[N], r)
  <2>1. N + 1 \in 1 .. Len(t) /\ (N + 1) - 1 = N
    BY <1>1
  <2> QED
    BY <1>1, <1>3, <2>1 DEF RecordByRecord
<1>8. rs = <<>> => f[N] = NothingRead
  BY <1>1, <1>2 DEF RecordByRecord
<1> QED
  BY <1>2, <1>3, <1>6, <1>7, <1>8

-----------------------------------------------------------------------------
(* What an item leaves, and a record. *)

WellRead(st) ==
    /\ st = [chunks |-> st.chunks, pending |-> st.pending]
    /\ IsSeq(st.chunks) /\ IsFiniteSet(st.pending)
IsText(c) ==
    \E kind \in {"assistant", "thinking", "raw"} : \E function, n, at, text :
        c = TextChunk(kind, function, n, at, text)
\* d is c and perhaps some text.
Grown(d, c) ==
    /\ IsSeq(d) /\ Len(c) <= Len(d)
    /\ \A n \in 1 .. Len(c) : d[n] = c[n]
    /\ \A n \in 1 .. Len(d) : n > Len(c) => IsText(d[n])
WaitingOf(items, n, at) == {Waiting(items[j], at) : j \in {k \in 1 .. n : items[k].kind = "call"}}

LEMMA GrownAgain == ASSUME NEW c, NEW d, NEW e, IsSeq(c), Grown(d, c), Grown(e, d) PROVE Grown(e, c)
<1>1. Len(c) \in Nat /\ Len(d) \in Nat /\ Len(e) \in Nat /\ IsSeq(e)
  BY SeqLength DEF Grown
<1>2. \A n \in 1 .. Len(c) : n \in 1 .. Len(d)
  BY <1>1 DEF Grown
<1>3. \A n \in 1 .. Len(e) : n > Len(d) \/ n \in 1 .. Len(d)
  BY <1>1
<1>4. \A n \in 1 .. Len(c) : e[n] = c[n]
  BY <1>2, Zenon DEF Grown
<1>5. ASSUME NEW n \in 1 .. Len(e), n > Len(c) PROVE IsText(e[n])
  BY <1>3, <1>5, Zenon DEF Grown
<1> QED
  BY <1>1, <1>4, <1>5 DEF Grown

LEMMA GrownNot == ASSUME NEW c, IsSeq(c) PROVE Grown(c, c)
<1>1. Len(c) \in Nat
  BY SeqLength
<1> QED
  BY <1>1 DEF Grown

LEMMA TextPushed ==
    ASSUME NEW st, WellRead(st), NEW x, IsText(x)
    PROVE  /\ WellRead(Push(st, x)) /\ Push(st, x).pending = st.pending
           /\ Grown(Push(st, x).chunks, st.chunks)
<1>1. Push(st, x) = [chunks |-> Append(st.chunks, x), pending |-> st.pending]
  BY DEF Push, WellRead
<1>2. /\ IsSeq(Append(st.chunks, x)) /\ IsAppended(Append(st.chunks, x), st.chunks, x)
      /\ Len(st.chunks) \in Nat
  BY AppendSeq, SeqLength DEF WellRead
<1>3. Grown(Append(st.chunks, x), st.chunks)
  BY <1>2 DEF Grown, IsAppended
<1> QED
  BY <1>1, <1>2, <1>3 DEF WellRead

LEMMA ItemRead ==
    ASSUME NEW st, WellRead(st), NEW i, NEW at
    PROVE  LET t == AssistantItem(st, i, at) IN
           /\ i.kind # "call" => WellRead(t) /\ t.pending = st.pending /\ Grown(t.chunks, st.chunks)
           /\ i.kind = "call" /\ (\A p \in st.pending : p.call # i.call) =>
                /\ WellRead(t) /\ t.chunks = st.chunks
                /\ t.pending = st.pending \cup {Waiting(i, at)}
<1>1. Grown(st.chunks, st.chunks)
  BY GrownNot DEF WellRead
<1>2. CASE i.kind = "text"
  <2>1. IsText(TextChunk("assistant", "assistant", Len(st.chunks), at, i.text))
    BY DEF IsText
  <2> QED
    BY <1>2, <2>1, TextPushed DEF AssistantItem
<1>3. CASE i.kind = "thinking"
  <2>1. IsText(TextChunk("thinking", "thinking", Len(st.chunks), at, i.text))
    BY DEF IsText
  <2> QED
    BY <1>3, <2>1, TextPushed DEF AssistantItem
<1>4. CASE i.kind \notin {"text", "thinking", "call"}
  BY <1>1, <1>4 DEF AssistantItem
<1>5. CASE i.kind = "call" /\ \A p \in st.pending : p.call # i.call
  <2>1. {p \in st.pending : p.call # i.call} = st.pending
    BY <1>5
  <2>2. AssistantItem(st, i, at) =
          [chunks |-> st.chunks, pending |-> st.pending \cup {Waiting(i, at)}]
    BY <1>5, <2>1 DEF AssistantItem, Pending, WellRead
  <2>3. IsFiniteSet(st.pending \cup {Waiting(i, at)})
    BY FS_AddElement DEF WellRead
  <2> QED
    BY <1>5, <2>2, <2>3 DEF WellRead
<1> QED
  BY <1>2, <1>3, <1>4, <1>5

\* The items of a record add text, and its calls to those that wait.
LEMMA ItemsRead ==
    ASSUME NEW st, WellRead(st), NEW items, Len(items) \in Nat, NEW at,
           \A j \in 1 .. Len(items) : items[j].kind = "call" =>
              /\ \A p \in st.pending : p.call # items[j].call
              /\ \A k \in 1 .. Len(items) :
                    items[k].kind = "call" /\ items[k].call = items[j].call => j = k
    PROVE  LET t == ReadItems(st, items, at) IN
           /\ WellRead(t) /\ Grown(t.chunks, st.chunks)
           /\ t.pending = st.pending \cup WaitingOf(items, Len(items), at)
<1> DEFINE N == Len(items)
           W(n) == WaitingOf(items, n, at)
           Good(t, n) == /\ WellRead(t) /\ Grown(t.chunks, st.chunks)
                         /\ t.pending = st.pending \cup W(n)
<1>1. PICK f : ItemByItem(f, st, items, at) /\ ReadItems(st, items, at) = f[N]
  BY ItemsInTurn
<1> DEFINE T == {n \in 0 .. N : Good(f[n], n)}
<1>2. 0 \in T
  <2>1. W(0) = {}
    BY DEF WaitingOf
  <2>2. Grown(st.chunks, st.chunks)
    BY GrownNot DEF WellRead
  <2> QED
    BY <1>1, <2>1, <2>2 DEF ItemByItem
<1>3. ASSUME NEW n \in 0 .. N, n < N, n \in T PROVE n + 1 \in T
  <2> DEFINE i == items[n + 1]
  <2>1. n + 1 \in 1 .. N /\ n + 1 \in 0 .. N /\ (n + 1) - 1 = n
    BY <1>3
  <2>2. f[n + 1] = AssistantItem(f[n], i, at)
    BY <1>1, <2>1 DEF ItemByItem
  <2>3. Good(f[n], n)
    BY <1>3
  <2>4. W(n + 1) = IF i.kind = "call" THEN W(n) \cup {Waiting(i, at)} ELSE W(n)
    <3>1. 1 .. (n + 1) = (1 .. n) \cup {n + 1}
      OBVIOUS
    <3>2. {k \in 1 .. (n + 1) : items[k].kind = "call"} =
            {k \in 1 .. n : items[k].kind = "call"} \cup (IF i.kind = "call" THEN {n + 1} ELSE {})
      BY <3>1, Zenon
    <3> QED
      BY <3>2, Zenon DEF WaitingOf
  <2>5. CASE i.kind # "call"
    <3>1. WellRead(f[n + 1]) /\ f[n + 1].pending = f[n].pending /\ Grown(f[n + 1].chunks, f[n].chunks)
      BY <2>2, <2>3, <2>5, ItemRead
    <3>2. Grown(f[n + 1].chunks, st.chunks)
      BY <2>3, <3>1, GrownAgain DEF WellRead
    <3> QED
      BY <2>1, <2>3, <2>4, <2>5, <3>1, <3>2
  <2>6. CASE i.kind = "call"
    <3>1. ASSUME NEW p \in f[n].pending PROVE p.call # i.call
      <4>1. CASE p \in st.pending
        BY <2>1, <2>6, <4>1
      <4>2. CASE p \in W(n)
        <5>1. PICK k \in 1 .. n : items[k].kind = "call" /\ p = Waiting(items[k], at)
          BY <4>2 DEF WaitingOf
        <5>2. p.call = items[k].call
          BY <5>1 DEF Waiting
        <5>3. k \in 1 .. N /\ k # n + 1
          BY <2>1
        <5> QED
          BY <2>1, <2>6, <5>1, <5>2, <5>3
      <4> QED
        BY <2>3, <4>1, <4>2
    <3>2. /\ WellRead(f[n + 1]) /\ f[n + 1].chunks = f[n].chunks
          /\ f[n + 1].pending = f[n].pending \cup {Waiting(i, at)}
      BY <2>2, <2>3, <2>6, <3>1, ItemRead
    <3> QED
      BY <2>1, <2>3, <2>4, <2>6, <3>2
  <2> QED
    BY <2>5, <2>6
<1>4. N \in T
  <2>1. N \in Nat /\ N \in 0 .. N
    OBVIOUS
  <2>2. \A n \in 0 .. N : n < N /\ n \in T => n + 1 \in T
    BY <1>3
  <2> HIDE DEF T, N
  <2> QED
    BY <1>2, <2>1, <2>2, Climb, Zenon
<1> QED
  BY <1>1, <1>4

\* The first result among items is one.
LEMMA FirstResult ==
    ASSUME NEW items, Len(items) \in Nat
    PROVE  LET f == ClaudeToolResult(items) IN
           /\ f = 0 => \A j \in 1 .. Len(items) : items[j].kind # "result"
           /\ f # 0 => f \in 1 .. Len(items) /\ items[f].kind = "result"
<1> DEFINE I == {j \in 1 .. Len(items) : items[j].kind = "result"}
<1>1. ClaudeToolResult(items) = IF I # {} THEN Min(I) ELSE 0
  BY DEF ClaudeToolResult, SelectInSeq
<1>2. I # {} => Min(I) \in I /\ Min(I) # 0
  <2>1. I \in SUBSET Nat
    OBVIOUS
  <2>2. I # {} => Min(I) \in I
    BY <2>1, LeastElement, Zenon DEF Min
  <2> QED
    BY <2>2
<1> QED
  BY <1>1, <1>2

\* t is st without the call that waits for the result i, if one does.
Completed(source, st, i, t) ==
    \/ t = st /\ \A p \in st.pending : p.call # i.call
    \/ \E p \in st.pending :
          /\ p.call = i.call /\ WellRead(t) /\ t.pending = st.pending \ {p}
          /\ t.chunks = Append(st.chunks, ToolCallChunk(source, Len(st.chunks), p, i.out))

LEMMA CompleteCompletes ==
    ASSUME NEW source, NEW st, WellRead(st), NEW i
    PROVE  Completed(source, st, i, Complete(source, st, i))
<1>1. CASE \A p \in st.pending : p.call # i.call
  BY <1>1 DEF Complete, Completed
<1>2. CASE \E p \in st.pending : p.call = i.call
  <2> DEFINE p == CHOOSE p \in st.pending : p.call = i.call
             x == ToolCallChunk(source, Len(st.chunks), p, i.out)
  <2>1. p \in st.pending /\ p.call = i.call
    BY <1>2, Zenon
  <2>2. Complete(source, st, i) = [Push(st, x) EXCEPT !.pending = @ \ {p}]
    BY <1>2, Zenon DEF Complete
  <2> HIDE DEF p, x
  <2>3. Push(st, x) = [chunks |-> Append(st.chunks, x), pending |-> st.pending]
    BY SMTT(30) DEF Push, WellRead
  <2>4. Complete(source, st, i) = [chunks |-> Append(st.chunks, x), pending |-> st.pending \ {p}]
    <3>1. Push(st, x).pending = st.pending
      BY <2>3
    <3> DEFINE rest == st.pending \ {p}
               t == Push(st, x)
               more == Append(st.chunks, x)
    <3>2. Complete(source, st, i) = [Push(st, x) EXCEPT !.pending = rest]
      BY <2>2, <3>1, Zenon
    <3>3. t = [chunks |-> more, pending |-> st.pending]
      BY <2>3
    <3> HIDE DEF rest, t, more
    <3>4. [t EXCEPT !.pending = rest] = [chunks |-> more, pending |-> rest]
      BY <3>3
    <3> QED
      BY <3>2, <3>4 DEF rest, t, more
  <2>5. IsSeq(Append(st.chunks, x))
    BY AppendSeq DEF WellRead
  <2>6. IsFiniteSet(st.pending \ {p})
    BY FS_Subset, st.pending \ {p} \in SUBSET st.pending DEF WellRead
  <2> QED
    BY <2>1, <2>4, <2>5, <2>6 DEF Completed, WellRead, x
<1> QED
  BY <1>1, <1>2

\* A record of the session's agent.
Recorded(s, r) == \E q \in Records[s] : r.items = q.items /\ r.role = q.role

LEMMA RecordShape ==
    ASSUME NEW s \in Sessions, NEW r, Recorded(s, r)
    PROVE  /\ Len(r.items) \in Nat \ {0} /\ DOMAIN r.items = 1 .. Len(r.items)
           /\ None \notin CallIds(r)
           /\ \A j, k \in 1 .. Len(r.items) :
                 r.items[j].kind = "call" /\ r.items[k].kind = "call" /\ r.items[j].call = r.items[k].call
                   => j = k
           /\ \A j \in 1 .. Len(r.items) : r.items[j].kind = "call" => r.items[j].call \in CallIds(r)
           /\ SourceOf[s] # "claude_code" => Len(r.items) = 1
           /\ SourceOf[s] = "claude_code" => \A j \in 1 .. Len(r.items) :
                 /\ r.items[j].kind = "call" => r.role # "user"
                 /\ r.items[j].kind = "result" => r.role = "user"
           /\ \A t : Recorded(s, t) /\ t.items # r.items => CallIds(t) \cap CallIds(r) = {}
<1>1. PICK q \in Records[s] : r.items = q.items /\ r.role = q.role
  BY DEF Recorded
<1>2. CallIds(r) = CallIds(q)
  BY <1>1 DEF CallIds
<1>3. \A j \in DOMAIN r.items : r.items[j].kind = "call" => r.items[j].call \in CallIds(r)
  BY DEF CallIds
<1>4. ASSUME NEW t, Recorded(s, t), t.items # r.items PROVE CallIds(t) \cap CallIds(r) = {}
  <2>1. PICK u \in Records[s] : t.items = u.items /\ t.role = u.role
    BY <1>4 DEF Recorded
  <2>2. CallIds(t) = CallIds(u)
    BY <2>1 DEF CallIds
  <2> QED
    BY <1>1, <1>2, <1>4, <2>1, <2>2, RecordsAssumption
<1>5. /\ Len(r.items) \in Nat \ {0} /\ DOMAIN r.items = 1 .. Len(r.items)
      /\ None \notin CallIds(r)
  BY <1>1, <1>2, RecordsAssumption
<1>6. \A j, k \in 1 .. Len(r.items) :
        r.items[j].kind = "call" /\ r.items[k].kind = "call" /\ r.items[j].call = r.items[k].call => j = k
  BY <1>1, <1>5, RecordsAssumption
<1>7. IF SourceOf[s] = "claude_code"
      THEN \A j \in 1 .. Len(r.items) : /\ r.items[j].kind = "call" => r.role # "user"
                                        /\ r.items[j].kind = "result" => r.role = "user"
      ELSE Len(r.items) = 1
  BY <1>1, <1>5, RecordsAssumption
<1> QED
  BY <1>3, <1>4, <1>5, <1>6, <1>7

LEMMA RecordRead ==
    ASSUME NEW s \in Sessions, NEW st, WellRead(st), NEW r, Recorded(s, r),
           \A p \in st.pending : p.call \notin CallIds(r)
    PROVE  LET t == ReadRecord(SourceOf[s], st, r)
               f == ClaudeToolResult(r.items)
           IN /\ f = 0 => /\ WellRead(t) /\ Grown(t.chunks, st.chunks)
                          /\ t.pending = st.pending \cup WaitingOf(r.items, Len(r.items), r.at)
              /\ f # 0 => /\ f \in 1 .. Len(r.items) /\ r.items[f].kind = "result"
                          /\ \A j \in 1 .. Len(r.items) : r.items[j].kind # "call"
                          /\ Completed(SourceOf[s], st, r.items[f], t)
<1> DEFINE t == ReadRecord(SourceOf[s], st, r)
           f == ClaudeToolResult(r.items)
           N == Len(r.items)
<1>1. /\ N \in Nat \ {0}
      /\ \A j \in 1 .. N : r.items[j].kind = "call" => r.items[j].call \in CallIds(r)
      /\ \A j, k \in 1 .. N :
            r.items[j].kind = "call" /\ r.items[k].kind = "call" /\ r.items[j].call = r.items[k].call
              => j = k
      /\ SourceOf[s] # "claude_code" => N = 1
      /\ SourceOf[s] = "claude_code" => \A j \in 1 .. N :
            /\ r.items[j].kind = "call" => r.role # "user"
            /\ r.items[j].kind = "result" => r.role = "user"
  BY RecordShape
<1>2. /\ f = 0 => \A j \in 1 .. N : r.items[j].kind # "result"
      /\ f # 0 => f \in 1 .. N /\ r.items[f].kind = "result"
  BY <1>1, FirstResult
<1>3. ASSUME \A j \in 1 .. N : r.items[j].kind # "call"
      PROVE  WaitingOf(r.items, N, r.at) = {}
  BY <1>3 DEF WaitingOf
<1>4. /\ WellRead(UserText(st, r.items[1], r.at)) /\ UserText(st, r.items[1], r.at).pending = st.pending
      /\ Grown(UserText(st, r.items[1], r.at).chunks, st.chunks)
  <2>1. IsText(TextChunk("raw", "user_message", Len(st.chunks), r.at, r.items[1].text))
    BY DEF IsText
  <2> QED
    BY <2>1, TextPushed DEF UserText
<1>5. CASE SourceOf[s] = "claude_code" /\ r.role = "user"
  <2>1. t = IF f # 0 THEN Complete(SourceOf[s], st, r.items[f]) ELSE UserText(st, r.items[1], r.at)
    BY <1>5 DEF ReadRecord, ClaudeRecord
  <2>2. \A j \in 1 .. N : r.items[j].kind # "call"
    BY <1>1, <1>5
  <2> QED
    BY <1>2, <1>3, <1>4, <2>1, <2>2, CompleteCompletes
<1>6. CASE SourceOf[s] = "claude_code" /\ r.role # "user"
  <2>1. t = ReadItems(st, r.items, r.at)
    BY <1>6 DEF ReadRecord, ClaudeRecord
  <2>2. f = 0
    BY <1>1, <1>2, <1>6
  <2>3. \A j \in 1 .. N : r.items[j].kind = "call" =>
           /\ \A p \in st.pending : p.call # r.items[j].call
           /\ \A k \in 1 .. N : r.items[k].kind = "call" /\ r.items[k].call = r.items[j].call => j = k
    BY <1>1
  <2>4. /\ WellRead(t) /\ Grown(t.chunks, st.chunks)
        /\ t.pending = st.pending \cup WaitingOf(r.items, N, r.at)
    BY <1>1, <2>1, <2>3, ItemsRead
  <2> QED
    BY <2>2, <2>4
<1>7. CASE SourceOf[s] # "claude_code"
  <2> DEFINE i == r.items[1]
  <2>1. N = 1 /\ (f # 0 <=> i.kind = "result") /\ (f # 0 => f = 1)
    BY <1>1, <1>2, <1>7
  <2>2. t = IF i.kind = "result" THEN Complete("codex_app", st, i)
            ELSE IF r.role = "user" /\ i.kind = "text" THEN UserText(st, i, r.at)
            ELSE AssistantItem(st, i, r.at)
    BY <1>7 DEF ReadRecord, CodexRecord
  <2>3. WaitingOf(r.items, N, r.at) = IF i.kind = "call" THEN {Waiting(i, r.at)} ELSE {}
    <3>1. {k \in 1 .. N : r.items[k].kind = "call"} = IF i.kind = "call" THEN {1} ELSE {}
      BY <2>1
    <3> QED
      BY <3>1, Zenon DEF WaitingOf
  <2>4. CASE i.kind = "result"
    <3>1. ASSUME NEW n, NEW c, NEW out
          PROVE  ToolCallChunk("codex_app", n, c, out) = ToolCallChunk(SourceOf[s], n, c, out)
      BY <1>7, "codex_app" # "claude_code", Zenon DEF ToolCallChunk
    <3>4. Completed("codex_app", st, i, t)
      BY <2>2, <2>4, CompleteCompletes
    <3>2. \A j \in 1 .. N : r.items[j].kind # "call"
      BY <2>1, <2>4
    <3>3. Completed(SourceOf[s], st, i, t)
      BY <3>1, <3>4, Zenon DEF Completed
    <3> QED
      BY <1>2, <2>1, <2>4, <3>2, <3>3
  <2>5. CASE r.role = "user" /\ i.kind = "text"
    BY <1>4, <2>1, <2>2, <2>3, <2>5
  <2>6. CASE i.kind # "result" /\ ~(r.role = "user" /\ i.kind = "text")
    <3>1. i.kind = "call" => \A p \in st.pending : p.call # i.call
      BY <1>1, <2>1
    <3>2. Grown(st.chunks, st.chunks)
      BY GrownNot DEF WellRead
    <3>3. t = AssistantItem(st, i, r.at) /\ f = 0
      BY <2>1, <2>2, <2>6
    <3>4. CASE i.kind = "call"
      BY <2>3, <3>1, <3>2, <3>3, <3>4, ItemRead
    <3>5. CASE i.kind # "call"
      BY <2>3, <3>3, <3>5, ItemRead
    <3> QED
      BY <3>4, <3>5
  <2> QED
    BY <2>4, <2>5, <2>6
<1> QED
  BY <1>5, <1>6, <1>7

-----------------------------------------------------------------------------
(* The calls of a transcript that grows. *)

\* Records of the session's agent, none of them twice.
Recording(s, rs) ==
    /\ IsSeq(rs) /\ \A k \in 1 .. Len(rs) : Recorded(s, rs[k])
    /\ \A j, k \in 1 .. Len(rs) : rs[j].items = rs[k].items => j = k

CallAt(rs, q) == rs[q[1]].items[q[2]]
WaitingAt(rs, q) == Waiting(CallAt(rs, q), rs[q[1]].at)
ResultsAt(rs, q) == ResultsFor(rs, q[1], CallAt(rs, q).call)
OutputAt(rs, q) == OutputIn(rs, q[1], CallAt(rs, q).call)

LEMMA CallKnown ==
    ASSUME NEW s \in Sessions, NEW rs, Recording(s, rs), NEW q
    PROVE  /\ q \in CallsIn(rs) <=>
                \E k \in 1 .. Len(rs) : \E j \in 1 .. Len(rs[k].items) :
                   q = <<k, j>> /\ rs[k].items[j].kind = "call"
           /\ q \in CallsIn(rs) =>
                /\ q[1] \in 1 .. Len(rs) /\ q[2] \in 1 .. Len(rs[q[1]].items) /\ q = <<q[1], q[2]>>
                /\ CallAt(rs, q).kind = "call" /\ CallAt(rs, q).call \in CallIds(rs[q[1]])
                /\ CallAt(rs, q).call # None
<1>1. DOMAIN rs = 1 .. Len(rs)
  BY DEF Recording, IsSeq
<1>2. \A k \in 1 .. Len(rs) : /\ DOMAIN rs[k].items = 1 .. Len(rs[k].items)
                              /\ None \notin CallIds(rs[k])
                              /\ \A j \in 1 .. Len(rs[k].items) :
                                    rs[k].items[j].kind = "call" => rs[k].items[j].call \in CallIds(rs[k])
  BY RecordShape DEF Recording
<1>3. q \in CallsIn(rs) <=>
        \E k \in 1 .. Len(rs) : \E j \in 1 .. Len(rs[k].items) :
           q = <<k, j>> /\ rs[k].items[j].kind = "call"
  <2> DEFINE P(k) == {n \in DOMAIN rs[k].items : rs[k].items[n].kind = "call"}
             C(k) == {<<k, j>> : j \in P(k)}
  <2>1. q \in CallsIn(rs) <=> \E k \in DOMAIN rs : q \in C(k)
    BY Zenon DEF CallsIn
  <2>2. ASSUME NEW k \in 1 .. Len(rs)
        PROVE  q \in C(k) <=> \E j \in 1 .. Len(rs[k].items) : q = <<k, j>> /\ rs[k].items[j].kind = "call"
    BY <1>2, Zenon
  <2> QED
    BY <1>1, <2>1, <2>2, Zenon
<1>4. ASSUME q \in CallsIn(rs)
      PROVE  /\ q[1] \in 1 .. Len(rs) /\ q[2] \in 1 .. Len(rs[q[1]].items) /\ q = <<q[1], q[2]>>
             /\ CallAt(rs, q).kind = "call" /\ CallAt(rs, q).call \in CallIds(rs[q[1]])
             /\ CallAt(rs, q).call # None
  <2>1. PICK k \in 1 .. Len(rs) :
          \E j \in 1 .. Len(rs[k].items) : q = <<k, j>> /\ rs[k].items[j].kind = "call"
    BY <1>3, <1>4
  <2>2. PICK j \in 1 .. Len(rs[k].items) : q = <<k, j>> /\ rs[k].items[j].kind = "call"
    BY <2>1
  <2>3. q[1] = k /\ q[2] = j
    BY <2>2
  <2> QED
    BY <1>2, <2>2, <2>3 DEF CallAt
<1> QED
  BY <1>3, <1>4

\* A call is known by its id.
LEMMA CallsApart ==
    ASSUME NEW s \in Sessions, NEW rs, Recording(s, rs), NEW p \in CallsIn(rs), NEW q \in CallsIn(rs),
           CallAt(rs, p).call = CallAt(rs, q).call
    PROVE  p = q
<1>1. /\ p[1] \in 1 .. Len(rs) /\ p[2] \in 1 .. Len(rs[p[1]].items) /\ p = <<p[1], p[2]>>
      /\ CallAt(rs, p).kind = "call" /\ CallAt(rs, p).call \in CallIds(rs[p[1]])
  BY CallKnown
<1>2. /\ q[1] \in 1 .. Len(rs) /\ q[2] \in 1 .. Len(rs[q[1]].items) /\ q = <<q[1], q[2]>>
      /\ CallAt(rs, q).kind = "call" /\ CallAt(rs, q).call \in CallIds(rs[q[1]])
  BY CallKnown
<1>3. Recorded(s, rs[p[1]]) /\ Recorded(s, rs[q[1]])
  BY <1>1, <1>2 DEF Recording
<1>4. rs[p[1]].items = rs[q[1]].items
  <2>1. rs[p[1]].items # rs[q[1]].items => CallIds(rs[p[1]]) \cap CallIds(rs[q[1]]) = {}
    BY <1>3, RecordShape
  <2> QED
    BY <1>1, <1>2, <2>1
<1>5. p[1] = q[1]
  BY <1>1, <1>2, <1>4 DEF Recording
<1>6. p[2] = q[2]
  <2> DEFINE r == rs[p[1]]
  <2>4. Recorded(s, r)
    BY <1>3
  <2> HIDE DEF r
  <2>1. \A j, k \in 1 .. Len(r.items) :
          r.items[j].kind = "call" /\ r.items[k].kind = "call" /\ r.items[j].call = r.items[k].call => j = k
    BY <2>4, RecordShape
  <2>2. q[2] \in 1 .. Len(r.items) /\ CallAt(rs, q) = r.items[q[2]]
    BY <1>2, <1>5, Zenon DEF CallAt, r
  <2>3. p[2] \in 1 .. Len(r.items) /\ CallAt(rs, p) = r.items[p[2]]
    BY <1>1 DEF CallAt, r
  <2> QED
    BY <1>1, <1>2, <2>1, <2>2, <2>3, Zenon
<1> QED
  BY <1>1, <1>2, <1>5, <1>6

\* The results of a grown transcript, and the output they hold.
LEMMA ResultsNext ==
    ASSUME NEW rs, IsSeq(rs), NEW r, NEW k \in 1 .. (Len(rs) + 1), NEW id
    PROVE  LET N == Len(rs) + 1
               f == ClaudeToolResult(r.items)
               new == f # 0 /\ r.items[f].call = id
               ts == Append(rs, r)
           IN /\ ResultsFor(ts, k, id) = ResultsFor(rs, k, id) \cup (IF new THEN {N} ELSE {})
              /\ OutputIn(ts, k, id) = IF ResultsFor(rs, k, id) # {} THEN OutputIn(rs, k, id)
                                       ELSE IF new THEN r.items[f].out ELSE <<>>
<1> DEFINE N == Len(rs) + 1
           f == ClaudeToolResult(r.items)
           new == f # 0 /\ r.items[f].call = id
           ts == Append(rs, r)
           Is(x) == ClaudeToolResult(x.items) # 0 /\ x.items[ClaudeToolResult(x.items)].call = id
<1>1. Len(rs) \in Nat /\ Len(ts) = N /\ ts[N] = r /\ \A i \in 1 .. Len(rs) : ts[i] = rs[i]
  BY AppendSeq, SeqLength DEF IsAppended
<1>2. /\ ResultsFor(rs, k, id) = {n \in k .. Len(rs) : Is(rs[n])}
      /\ ResultsFor(ts, k, id) = {n \in k .. N : Is(ts[n])}
  BY <1>1 DEF ResultsFor
<1>3. k .. N = (k .. Len(rs)) \cup {N} /\ \A n \in k .. Len(rs) : n \in 1 .. Len(rs)
  BY <1>1
<1>4. \A n \in k .. Len(rs) : ts[n] = rs[n]
  BY <1>1, <1>3
<1>5. ResultsFor(ts, k, id) = ResultsFor(rs, k, id) \cup (IF new THEN {N} ELSE {})
  <2>1. Is(ts[N]) <=> new
    BY <1>1
  <2>2. \A n \in k .. Len(rs) : Is(ts[n]) <=> Is(rs[n])
    BY <1>4
  <2> HIDE DEF Is, new, N, ts
  <2> QED
    BY <1>2, <1>3, <2>1, <2>2
<1>6. ASSUME ResultsFor(rs, k, id) # {}
      PROVE  OutputIn(ts, k, id) = OutputIn(rs, k, id)
  <2> DEFINE S == ResultsFor(rs, k, id)
             m == Min(S)
  <2>1. S \in SUBSET Nat /\ S \subseteq k .. Len(rs)
    BY <1>1, <1>2
  <2>2. \E x \in S : \A y \in S : x <= y
    <3> HIDE DEF S
    <3> QED
      BY <1>6, <2>1, LeastElement, Zenon DEF S
  <2>3. m \in S /\ \A y \in S : m <= y
    BY <2>2, Zenon DEF Min
  <2>4. Min(ResultsFor(ts, k, id)) = m
    <3>1. \A y \in ResultsFor(ts, k, id) : m <= y /\ y \in Nat
      BY <1>1, <1>5, <2>1, <2>3
    <3>2. m \in ResultsFor(ts, k, id) /\ m \in Nat
      BY <1>5, <2>1, <2>3
    <3> DEFINE R == ResultsFor(ts, k, id)
               x == Min(R)
    <3>3. x \in R /\ \A y \in R : x <= y
      <4>1. \E z \in R : \A y \in R : z <= y
        BY <3>1, <3>2, Zenon
      <4> QED
        BY <4>1, Zenon DEF Min
    <3> HIDE DEF m, R, x
    <3>4. m \in R /\ \A y \in R : m <= y /\ y \in Nat
      BY <3>1, <3>2 DEF R
    <3>5. x = m
      BY <3>3, <3>4
    <3> QED
      BY <3>5 DEF x, R
  <2>5. ts[m] = rs[m] /\ ResultsFor(ts, k, id) # {}
    BY <1>4, <1>5, <2>1, <2>3
  <2>6. OutputIn(rs, k, id) = rs[m].items[ClaudeToolResult(rs[m].items)].out
    BY <1>6, Zenon DEF OutputIn
  <2>7. OutputIn(ts, k, id) = ts[m].items[ClaudeToolResult(ts[m].items)].out
    BY <2>4, <2>5, Zenon DEF OutputIn
  <2> QED
    BY <2>5, <2>6, <2>7, Zenon
<1>7. ASSUME ResultsFor(rs, k, id) = {}, ~new
      PROVE  OutputIn(ts, k, id) = <<>>
  BY <1>5, <1>7, Zenon DEF OutputIn
<1>8. ASSUME ResultsFor(rs, k, id) = {}, new
      PROVE  OutputIn(ts, k, id) = r.items[f].out
  <2>1. ResultsFor(ts, k, id) = {N}
    BY <1>5, <1>8
  <2>2. Min({N}) = N
    BY <1>1 DEF Min
  <2>3. OutputIn(ts, k, id) = ts[N].items[ClaudeToolResult(ts[N].items)].out
    BY <2>1, <2>2, Zenon DEF OutputIn
  <2> QED
    BY <1>1, <2>3, Zenon
<1> QED
  BY <1>5, <1>6, <1>7, <1>8, Zenon

\* The calls of a grown transcript.
LEMMA CallsNext ==
    ASSUME NEW s \in Sessions, NEW rs, IsSeq(rs), NEW r, Recording(s, Append(rs, r))
    PROVE  LET ts == Append(rs, r)
               N == Len(rs) + 1
           IN /\ Recording(s, rs) /\ Recorded(s, r) /\ N \in Nat
              /\ \A q \in CallsIn(rs) :
                    /\ q \in CallsIn(ts) /\ q[1] \in 1 .. N
                    /\ CallAt(ts, q) = CallAt(rs, q) /\ WaitingAt(ts, q) = WaitingAt(rs, q)
                    /\ CallAt(rs, q).call \notin CallIds(r)
              /\ \A j \in 1 .. Len(r.items) : r.items[j].kind = "call" => <<N, j>> \in CallsIn(ts)
              /\ \A q \in CallsIn(ts) :
                    \/ q \in CallsIn(rs)
                    \/ /\ q[1] = N /\ q[2] \in 1 .. Len(r.items)
                       /\ CallAt(ts, q) = r.items[q[2]] /\ CallAt(ts, q).kind = "call"
                       /\ WaitingAt(ts, q) = Waiting(r.items[q[2]], r.at)
<1> DEFINE ts == Append(rs, r)
           N == Len(rs) + 1
<1>1. /\ Len(rs) \in Nat /\ N \in Nat /\ Len(ts) = N /\ ts[N] = r
      /\ \A k \in 1 .. Len(rs) : k \in 1 .. N /\ k # N /\ ts[k] = rs[k]
  BY AppendSeq, SeqLength DEF IsAppended
<1>2. Recorded(s, r)
  BY <1>1 DEF Recording
<1>3. Recording(s, rs)
  <2> HIDE DEF ts, N
  <2>1. \A k \in 1 .. Len(rs) : Recorded(s, rs[k])
    BY <1>1 DEF Recording, ts
  <2>2. \A j, k \in 1 .. Len(rs) : rs[j].items = rs[k].items => j = k
    BY <1>1, Zenon DEF Recording, ts
  <2> QED
    BY <2>1, <2>2 DEF Recording
<1>4. ASSUME NEW q \in CallsIn(rs)
      PROVE  /\ q \in CallsIn(ts) /\ q[1] \in 1 .. N
             /\ CallAt(ts, q) = CallAt(rs, q) /\ WaitingAt(ts, q) = WaitingAt(rs, q)
             /\ CallAt(rs, q).call \notin CallIds(r)
  <2>1. /\ q[1] \in 1 .. Len(rs) /\ q[2] \in 1 .. Len(rs[q[1]].items) /\ q = <<q[1], q[2]>>
        /\ CallAt(rs, q).kind = "call" /\ CallAt(rs, q).call \in CallIds(rs[q[1]])
    BY <1>3, CallKnown
  <2>2. q[1] \in 1 .. Len(ts) /\ q[1] \in 1 .. N /\ q[1] # N /\ ts[q[1]] = rs[q[1]]
    BY <1>1, <2>1
  <2>3. CallAt(ts, q) = CallAt(rs, q) /\ WaitingAt(ts, q) = WaitingAt(rs, q)
    BY <2>2, Zenon DEF CallAt, WaitingAt
  <2>4. q \in CallsIn(ts)
    <3>1. /\ q[2] \in 1 .. Len(ts[q[1]].items) /\ ts[q[1]].items[q[2]].kind = "call"
      BY <2>1, <2>2, Zenon DEF CallAt
    <3> QED
      BY <2>1, <2>2, <3>1, CallKnown, Zenon
  <2>5. Recorded(s, rs[q[1]])
    BY <1>3, <2>1 DEF Recording
  <2>6. rs[q[1]].items # r.items
    <3>1. N \in 1 .. Len(ts)
      BY <1>1
    <3>2. \A j, k \in 1 .. Len(ts) : ts[j].items = ts[k].items => j = k
      BY Zenon DEF Recording
    <3>3. ts[q[1]].items # ts[N].items
      BY <2>2, <3>1, <3>2, Zenon
    <3> QED
      BY <1>1, <2>2, <3>3
  <2>7. CallIds(rs[q[1]]) \cap CallIds(r) = {}
    BY <1>2, <2>5, <2>6, RecordShape, Zenon
  <2> QED
    BY <2>1, <2>2, <2>3, <2>4, <2>7
<1>5. ASSUME NEW j \in 1 .. Len(r.items), r.items[j].kind = "call"
      PROVE  <<N, j>> \in CallsIn(ts)
  <2>1. N \in 1 .. Len(ts)
    BY <1>1
  <2>2. ts[N] = r
    BY <1>1
  <2> HIDE DEF ts, N
  <2>3. \E i \in 1 .. Len(ts[N].items) : <<N, j>> = <<N, i>> /\ ts[N].items[i].kind = "call"
    BY <1>5, <2>2, Zenon
  <2>4. Recording(s, ts)
    BY DEF ts
  <2> QED
    BY <2>1, <2>3, <2>4, CallKnown, Zenon
<1>6. ASSUME NEW q \in CallsIn(ts), q \notin CallsIn(rs)
      PROVE  /\ q[1] = N /\ q[2] \in 1 .. Len(r.items)
             /\ CallAt(ts, q) = r.items[q[2]] /\ CallAt(ts, q).kind = "call"
             /\ WaitingAt(ts, q) = Waiting(r.items[q[2]], r.at)
  <2>1. /\ q[1] \in 1 .. Len(ts) /\ q[2] \in 1 .. Len(ts[q[1]].items) /\ q = <<q[1], q[2]>>
        /\ CallAt(ts, q).kind = "call"
    BY CallKnown
  <2>2. q[1] = N
    <3> SUFFICES ASSUME q[1] # N PROVE FALSE
      OBVIOUS
    <3>1. q[1] \in 1 .. Len(rs)
      BY <1>1, <2>1
    <3>2. ts[q[1]] = rs[q[1]]
      BY <1>1, <3>1
    <3>3. q[2] \in 1 .. Len(rs[q[1]].items) /\ rs[q[1]].items[q[2]].kind = "call"
      BY <2>1, <3>2, Zenon DEF CallAt
    <3>4. q = <<q[1], q[2]>> /\ rs[q[1]].items[q[2]].kind = "call"
      BY <2>1, <3>3, Zenon
    <3>5. \E k \in 1 .. Len(rs) : \E j \in 1 .. Len(rs[k].items) :
             q = <<k, j>> /\ rs[k].items[j].kind = "call"
      BY <3>1, <3>3, <3>4, Zenon
    <3>6. q \in CallsIn(rs)
      BY <1>3, <3>5, CallKnown, Zenon
    <3> QED
      BY <1>6, <3>6
  <2>3. ts[q[1]] = r
    BY <1>1, <2>2
  <2> QED
    BY <2>1, <2>2, <2>3, Zenon DEF CallAt, WaitingAt
<1> QED
  BY <1>1, <1>2, <1>3, <1>4, <1>5, <1>6, Zenon

LEMMA ResultsAtNext ==
    ASSUME NEW rs, IsSeq(rs), NEW r, NEW q, q[1] \in 1 .. (Len(rs) + 1)
    PROVE  LET ts == Append(rs, r)
               f == ClaudeToolResult(r.items)
               id == CallAt(ts, q).call
               new == f # 0 /\ r.items[f].call = id
           IN /\ ~new => ResultsAt(ts, q) = ResultsFor(rs, q[1], id)
              /\ new => ResultsAt(ts, q) = ResultsFor(rs, q[1], id) \cup {Len(rs) + 1}
              /\ CallAt(ts, q) = CallAt(rs, q) =>
                   /\ ResultsFor(rs, q[1], id) = ResultsAt(rs, q)
                   /\ OutputAt(ts, q) = IF ResultsAt(rs, q) # {} THEN OutputAt(rs, q)
                                        ELSE IF new THEN r.items[f].out ELSE <<>>
<1> DEFINE ts == Append(rs, r)
           f == ClaudeToolResult(r.items)
           id == CallAt(ts, q).call
           new == f # 0 /\ r.items[f].call = id
           k == q[1]
<1>1. /\ ResultsFor(ts, k, id) = ResultsFor(rs, k, id) \cup (IF new THEN {Len(rs) + 1} ELSE {})
      /\ OutputIn(ts, k, id) = IF ResultsFor(rs, k, id) # {} THEN OutputIn(rs, k, id)
                               ELSE IF new THEN r.items[f].out ELSE <<>>
  <2>1. k \in 1 .. (Len(rs) + 1)
    OBVIOUS
  <2> HIDE DEF k, id
  <2> QED
    BY <2>1, ResultsNext, Zenon
<1>2. ~new => ResultsFor(ts, k, id) = ResultsFor(rs, k, id)
  <2>1. ~new => ResultsFor(ts, k, id) = ResultsFor(rs, k, id) \cup {}
    BY <1>1, Zenon
  <2> HIDE DEF new, k, id
  <2> QED
    BY <2>1
<1> QED
  BY <1>1, <1>2, Zenon DEF ResultsAt, OutputAt

-----------------------------------------------------------------------------
(* What a transcript is read as. *)

ChunkOf(s, n, rs, q) == ToolCallChunk(SourceOf[s], n - 1, WaitingAt(rs, q), OutputAt(rs, q))
\* The chunk at place n is the only one of the call q.
IsChunkOf(s, chunks, n, rs, q) ==
    /\ n \in 1 .. Len(chunks) /\ chunks[n] = ChunkOf(s, n, rs, q)
    /\ \A m \in 1 .. Len(chunks) : chunks[m].id[3] = CallAt(rs, q).call => m = n

\* A call with a result is a chunk, one without waits, and nothing else is either.
ReadAs(s, rs, st) ==
    /\ WellRead(st)
    /\ \A p \in st.pending : \E q \in CallsIn(rs) : p = WaitingAt(rs, q) /\ ResultsAt(rs, q) = {}
    /\ \A n \in 1 .. Len(st.chunks) :
          \/ IsText(st.chunks[n])
          \/ \E q \in CallsIn(rs) : ResultsAt(rs, q) # {} /\ st.chunks[n] = ChunkOf(s, n, rs, q)
    /\ \A q \in CallsIn(rs) :
          IF ResultsAt(rs, q) = {} THEN WaitingAt(rs, q) \in st.pending
          ELSE \E n : IsChunkOf(s, st.chunks, n, rs, q)

LEMMA ChunkShape ==
    /\ \A source, n, c, out :
          LET x == ToolCallChunk(source, n, c, out) IN x.id[3] = c.call /\ x.at = c.at /\ x.out = out
    /\ \A x : IsText(x) => x.id[3] = None
    /\ \A rs, q : /\ WaitingAt(rs, q).call = CallAt(rs, q).call
                  /\ WaitingAt(rs, q).at = rs[q[1]].at
    /\ \A s, n, rs, q : /\ ChunkOf(s, n, rs, q).id[3] = CallAt(rs, q).call
                        /\ ChunkOf(s, n, rs, q).at = rs[q[1]].at
                        /\ ChunkOf(s, n, rs, q).out = OutputAt(rs, q)
<1>1. ASSUME NEW source, NEW n, NEW c, NEW out
      PROVE  LET x == ToolCallChunk(source, n, c, out) IN x.id[3] = c.call /\ x.at = c.at /\ x.out = out
  BY DEF ToolCallChunk, Chunk
<1>2. ASSUME NEW x, IsText(x) PROVE x.id[3] = None
  BY <1>2 DEF IsText, TextChunk, Chunk
<1>3. ASSUME NEW rs, NEW q
      PROVE  WaitingAt(rs, q).call = CallAt(rs, q).call /\ WaitingAt(rs, q).at = rs[q[1]].at
  BY DEF WaitingAt, Waiting
<1>4. ASSUME NEW s, NEW n, NEW rs, NEW q
      PROVE  /\ ChunkOf(s, n, rs, q).id[3] = CallAt(rs, q).call
             /\ ChunkOf(s, n, rs, q).at = rs[q[1]].at
             /\ ChunkOf(s, n, rs, q).out = OutputAt(rs, q)
  BY <1>1, <1>3 DEF ChunkOf
<1> QED
  BY <1>1, <1>2, <1>3, <1>4, Zenon

LEMMA ReadShape ==
    ASSUME NEW s \in Sessions, NEW rs, Recording(s, rs), NEW st, ReadAs(s, rs, st)
    PROVE  /\ \A p \in st.pending : \E q \in CallsIn(rs) : p.call = CallAt(rs, q).call
           /\ \A p \in st.pending : \A q \in CallsIn(rs) :
                 p.call = CallAt(rs, q).call => p = WaitingAt(rs, q) /\ ResultsAt(rs, q) = {}
           /\ \A n \in 1 .. Len(st.chunks) :
                 \/ st.chunks[n].id[3] = None
                 \/ \E q \in CallsIn(rs) : st.chunks[n].id[3] = CallAt(rs, q).call
           /\ \A n \in 1 .. Len(st.chunks) : \A q \in CallsIn(rs) :
                 st.chunks[n].id[3] = CallAt(rs, q).call =>
                    ResultsAt(rs, q) # {} /\ st.chunks[n] = ChunkOf(s, n, rs, q)
<1>1. ASSUME NEW p \in st.pending
      PROVE  \E q \in CallsIn(rs) : /\ p.call = CallAt(rs, q).call
                                    /\ p = WaitingAt(rs, q) /\ ResultsAt(rs, q) = {}
  <2>1. PICK q \in CallsIn(rs) : p = WaitingAt(rs, q) /\ ResultsAt(rs, q) = {}
    BY Zenon DEF ReadAs
  <2>2. WaitingAt(rs, q).call = CallAt(rs, q).call
    BY ChunkShape, Zenon
  <2> QED
    BY <2>1, <2>2
<1>2. ASSUME NEW p \in st.pending, NEW q \in CallsIn(rs), p.call = CallAt(rs, q).call
      PROVE  p = WaitingAt(rs, q) /\ ResultsAt(rs, q) = {}
  <2>1. PICK t \in CallsIn(rs) :
          p.call = CallAt(rs, t).call /\ p = WaitingAt(rs, t) /\ ResultsAt(rs, t) = {}
    BY <1>1
  <2>2. t = q
    BY <1>2, <2>1, CallsApart
  <2> QED
    BY <2>1, <2>2
<1>3. ASSUME NEW n \in 1 .. Len(st.chunks), st.chunks[n].id[3] # None
      PROVE  \E q \in CallsIn(rs) : /\ st.chunks[n].id[3] = CallAt(rs, q).call
                                    /\ ResultsAt(rs, q) # {} /\ st.chunks[n] = ChunkOf(s, n, rs, q)
  <2>1. PICK q \in CallsIn(rs) : ResultsAt(rs, q) # {} /\ st.chunks[n] = ChunkOf(s, n, rs, q)
    BY <1>3, ChunkShape, Zenon DEF ReadAs
  <2>2. ChunkOf(s, n, rs, q).id[3] = CallAt(rs, q).call
    BY ChunkShape
  <2> QED
    BY <2>1, <2>2
<1>4. ASSUME NEW n \in 1 .. Len(st.chunks), NEW q \in CallsIn(rs),
             st.chunks[n].id[3] = CallAt(rs, q).call
      PROVE  ResultsAt(rs, q) # {} /\ st.chunks[n] = ChunkOf(s, n, rs, q)
  <2>1. CallAt(rs, q).call # None
    BY CallKnown
  <2>2. PICK t \in CallsIn(rs) : /\ st.chunks[n].id[3] = CallAt(rs, t).call
                                 /\ ResultsAt(rs, t) # {} /\ st.chunks[n] = ChunkOf(s, n, rs, t)
    BY <1>3, <1>4, <2>1
  <2>3. t = q
    BY <1>4, <2>2, CallsApart
  <2> QED
    BY <2>2, <2>3
<1> QED
  BY <1>1, <1>2, <1>3, <1>4

\* Text and calls are added; no call that waits gets its result.
LEMMA AdditionsRead ==
    ASSUME NEW s \in Sessions, NEW rs, NEW r, Recording(s, Append(rs, r)), IsSeq(rs),
           NEW st, ReadAs(s, rs, st), NEW t, ClaudeToolResult(r.items) = 0,
           WellRead(t), Grown(t.chunks, st.chunks),
           t.pending = st.pending \cup WaitingOf(r.items, Len(r.items), r.at)
    PROVE  ReadAs(s, Append(rs, r), t)
<1> DEFINE ts == Append(rs, r)
           N == Len(rs) + 1
<1>1. /\ Recording(s, rs) /\ Recorded(s, r) /\ N \in Nat
      /\ \A q \in CallsIn(rs) :
            /\ q \in CallsIn(ts) /\ q[1] \in 1 .. N
            /\ CallAt(ts, q) = CallAt(rs, q) /\ WaitingAt(ts, q) = WaitingAt(rs, q)
            /\ CallAt(rs, q).call \notin CallIds(r)
      /\ \A j \in 1 .. Len(r.items) : r.items[j].kind = "call" => <<N, j>> \in CallsIn(ts)
      /\ \A q \in CallsIn(ts) :
            \/ q \in CallsIn(rs)
            \/ /\ q[1] = N /\ q[2] \in 1 .. Len(r.items)
               /\ CallAt(ts, q) = r.items[q[2]] /\ CallAt(ts, q).kind = "call"
               /\ WaitingAt(ts, q) = Waiting(r.items[q[2]], r.at)
  BY CallsNext
<1>2. ASSUME NEW q \in CallsIn(rs)
      PROVE  /\ ResultsAt(ts, q) = ResultsAt(rs, q)
             /\ ResultsAt(rs, q) # {} => \A n : ChunkOf(s, n, ts, q) = ChunkOf(s, n, rs, q)
  <2>1. q[1] \in 1 .. (Len(rs) + 1) /\ CallAt(ts, q) = CallAt(rs, q)
    BY <1>1
  <2>2. ResultsAt(ts, q) = ResultsAt(rs, q)
    BY <2>1, ResultsAtNext
  <2>3. ResultsAt(rs, q) # {} => OutputAt(ts, q) = OutputAt(rs, q)
    BY <2>1, ResultsAtNext
  <2> QED
    BY <1>1, <2>2, <2>3, Zenon DEF ChunkOf
<1>3. ASSUME NEW q \in CallsIn(ts), q \notin CallsIn(rs)
      PROVE  /\ ResultsAt(ts, q) = {} /\ WaitingAt(ts, q) \in t.pending
             /\ CallAt(ts, q).call \in CallIds(r)
  <2>1. /\ q[1] = N /\ q[2] \in 1 .. Len(r.items)
        /\ CallAt(ts, q) = r.items[q[2]] /\ CallAt(ts, q).kind = "call"
        /\ WaitingAt(ts, q) = Waiting(r.items[q[2]], r.at)
    BY <1>1, <1>3
  <2>2. Len(ts) = N /\ N \in 1 .. (Len(rs) + 1) /\ Len(rs) \in Nat
    BY <1>1, AppendSeq, SeqLength DEF IsAppended
  <2>3. ResultsFor(rs, N, CallAt(ts, q).call) = {}
    BY <2>2 DEF ResultsFor
  <2>4. ResultsAt(ts, q) = {}
    BY <2>1, <2>2, <2>3, ResultsAtNext
  <2>5. WaitingAt(ts, q) \in WaitingOf(r.items, Len(r.items), r.at)
    BY <2>1, Zenon DEF WaitingOf
  <2>6. CallAt(ts, q).call \in CallIds(r)
    BY <1>1, <2>1, RecordShape
  <2> QED
    BY <2>4, <2>5, <2>6
<1>4. ASSUME NEW p \in t.pending
      PROVE  \E q \in CallsIn(ts) : p = WaitingAt(ts, q) /\ ResultsAt(ts, q) = {}
  <2>1. CASE p \in st.pending
    <3>1. PICK q \in CallsIn(rs) : p = WaitingAt(rs, q) /\ ResultsAt(rs, q) = {}
      BY <2>1 DEF ReadAs
    <3> QED
      BY <1>1, <1>2, <3>1
  <2>2. CASE p \in WaitingOf(r.items, Len(r.items), r.at)
    <3>1. PICK j \in 1 .. Len(r.items) : r.items[j].kind = "call" /\ p = Waiting(r.items[j], r.at)
      BY <2>2 DEF WaitingOf
    <3> DEFINE q == <<N, j>>
    <3>2. q \in CallsIn(ts) /\ q[1] = N /\ q[2] = j
      BY <1>1, <3>1
    <3>3. q \notin CallsIn(rs)
      <4>1. r.items[j].call \in CallIds(r)
        BY <1>1, <3>1, RecordShape
      <4>2. CallAt(ts, q) = r.items[j]
        <5>1. ts[N] = r
          BY AppendSeq DEF IsAppended
        <5> QED
          BY <3>2, <5>1 DEF CallAt
      <4> QED
        BY <1>1, <4>1, <4>2
    <3>4. p = WaitingAt(ts, q)
      BY <1>1, <3>1, <3>2, <3>3
    <3> QED
      BY <1>3, <3>2, <3>3, <3>4
  <2> QED
    BY <2>1, <2>2
<1>5. ASSUME NEW n \in 1 .. Len(t.chunks)
      PROVE  \/ IsText(t.chunks[n])
             \/ /\ n \in 1 .. Len(st.chunks) /\ t.chunks[n] = st.chunks[n]
                /\ \E q \in CallsIn(rs) : ResultsAt(rs, q) # {} /\ st.chunks[n] = ChunkOf(s, n, rs, q)
  <2>1. Len(st.chunks) \in Nat
    BY SeqLength DEF ReadAs, WellRead
  <2>2. n > Len(st.chunks) => IsText(t.chunks[n])
    BY DEF Grown
  <2>3. n <= Len(st.chunks) => n \in 1 .. Len(st.chunks) /\ t.chunks[n] = st.chunks[n]
    BY <2>1 DEF Grown
  <2> QED
    BY <2>1, <2>2, <2>3 DEF ReadAs
<1>6. ASSUME NEW n \in 1 .. Len(t.chunks), ~IsText(t.chunks[n])
      PROVE  \E q \in CallsIn(ts) : ResultsAt(ts, q) # {} /\ t.chunks[n] = ChunkOf(s, n, ts, q)
  BY <1>1, <1>2, <1>5, <1>6
<1>7. ASSUME NEW q \in CallsIn(ts)
      PROVE  IF ResultsAt(ts, q) = {} THEN WaitingAt(ts, q) \in t.pending
             ELSE \E n : IsChunkOf(s, t.chunks, n, ts, q)
  <2>1. CASE q \notin CallsIn(rs)
    BY <1>3, <2>1
  <2>2. CASE q \in CallsIn(rs) /\ ResultsAt(ts, q) = {}
    BY <1>1, <1>2, <2>2 DEF ReadAs
  <2>3. CASE q \in CallsIn(rs) /\ ResultsAt(ts, q) # {}
    <3>1. PICK n : IsChunkOf(s, st.chunks, n, rs, q)
      BY <1>2, <2>3 DEF ReadAs
    <3>2. n \in 1 .. Len(t.chunks) /\ t.chunks[n] = st.chunks[n]
      <4>1. Len(st.chunks) \in Nat /\ Len(t.chunks) \in Nat
        BY SeqLength DEF ReadAs, WellRead
      <4> QED
        BY <3>1, <4>1 DEF IsChunkOf, Grown
    <3>3. t.chunks[n] = ChunkOf(s, n, ts, q)
      BY <1>2, <2>3, <3>1, <3>2, Zenon DEF IsChunkOf
    <3>4. ASSUME NEW m \in 1 .. Len(t.chunks), t.chunks[m].id[3] = CallAt(ts, q).call
          PROVE  m = n
      <4>1. CallAt(ts, q) = CallAt(rs, q) /\ CallAt(rs, q).call # None
        BY <1>1, <2>3, CallKnown
      <4>2. ~IsText(t.chunks[m])
        BY <3>4, <4>1, ChunkShape
      <4>3. m \in 1 .. Len(st.chunks) /\ t.chunks[m] = st.chunks[m]
        BY <1>5, <4>2
      <4> QED
        BY <3>1, <3>4, <4>1, <4>3 DEF IsChunkOf
    <3> QED
      BY <2>3, <3>2, <3>3, <3>4 DEF IsChunkOf
  <2> QED
    BY <2>1, <2>2, <2>3
<1> QED
  BY <1>4, <1>6, <1>7, Zenon DEF ReadAs

\* A result comes; the call it is of, if that waits, becomes a chunk.
LEMMA CompletionRead ==
    ASSUME NEW s \in Sessions, NEW rs, NEW r, Recording(s, Append(rs, r)), IsSeq(rs),
           NEW st, ReadAs(s, rs, st), NEW t,
           ClaudeToolResult(r.items) # 0,
           \A j \in 1 .. Len(r.items) : r.items[j].kind # "call",
           Completed(SourceOf[s], st, r.items[ClaudeToolResult(r.items)], t)
    PROVE  ReadAs(s, Append(rs, r), t)
<1> DEFINE ts == Append(rs, r)
           f == ClaudeToolResult(r.items)
           i == r.items[f]
           N == Len(rs) + 1
<1>1. /\ Recording(s, rs)
      /\ \A q \in CallsIn(rs) :
            /\ q \in CallsIn(ts) /\ q[1] \in 1 .. N
            /\ CallAt(ts, q) = CallAt(rs, q) /\ WaitingAt(ts, q) = WaitingAt(rs, q)
      /\ CallsIn(ts) = CallsIn(rs)
  <2>1. /\ Recording(s, rs)
        /\ \A q \in CallsIn(rs) :
              /\ q \in CallsIn(ts) /\ q[1] \in 1 .. N
              /\ CallAt(ts, q) = CallAt(rs, q) /\ WaitingAt(ts, q) = WaitingAt(rs, q)
        /\ \A q \in CallsIn(ts) :
              \/ q \in CallsIn(rs)
              \/ q[2] \in 1 .. Len(r.items) /\ CallAt(ts, q) = r.items[q[2]] /\ CallAt(ts, q).kind = "call"
    BY CallsNext
  <2>2. CallsIn(ts) \subseteq CallsIn(rs)
    BY <2>1, Zenon
  <2> QED
    BY <2>1, <2>2, Zenon
<1>2. ASSUME NEW q \in CallsIn(rs)
      PROVE  /\ i.call # CallAt(rs, q).call => ResultsAt(ts, q) = ResultsAt(rs, q)
             /\ i.call = CallAt(rs, q).call => ResultsAt(ts, q) # {}
             /\ ResultsAt(rs, q) # {} => ResultsAt(ts, q) # {} /\ OutputAt(ts, q) = OutputAt(rs, q)
             /\ i.call = CallAt(rs, q).call /\ ResultsAt(rs, q) = {} => OutputAt(ts, q) = i.out
  <2>1. q[1] \in 1 .. (Len(rs) + 1) /\ CallAt(ts, q) = CallAt(rs, q)
    BY <1>1
  <2> DEFINE R == ResultsFor(rs, q[1], CallAt(ts, q).call)
             new == i.call = CallAt(ts, q).call
  <2>2. /\ ~new => ResultsAt(ts, q) = R
        /\ new => ResultsAt(ts, q) = R \cup {N}
        /\ R = ResultsAt(rs, q)
        /\ OutputAt(ts, q) = IF ResultsAt(rs, q) # {} THEN OutputAt(rs, q) ELSE IF new THEN i.out ELSE <<>>
    BY <2>1, ResultsAtNext
  <2> HIDE DEF R
  <2> QED
    BY <2>1, <2>2
<1>3. ASSUME t = st, \A p \in st.pending : p.call # i.call
      PROVE  ReadAs(s, ts, t)
  <2>1. ASSUME NEW q \in CallsIn(rs)
        PROVE  /\ ResultsAt(rs, q) = {} => ResultsAt(ts, q) = {} /\ WaitingAt(ts, q) \in st.pending
               /\ ResultsAt(rs, q) # {} => /\ ResultsAt(ts, q) # {}
                                           /\ \A n : ChunkOf(s, n, ts, q) = ChunkOf(s, n, rs, q)
    <3>1. CASE ResultsAt(rs, q) = {}
      <4>1. WaitingAt(rs, q) \in st.pending
        BY <3>1 DEF ReadAs
      <4>2. CallAt(rs, q).call # i.call
        BY <1>3, <4>1, ChunkShape
      <4> QED
        BY <1>1, <1>2, <3>1, <4>1, <4>2
    <3>2. CASE ResultsAt(rs, q) # {}
      <4>1. ResultsAt(ts, q) # {} /\ OutputAt(ts, q) = OutputAt(rs, q) /\ WaitingAt(ts, q) = WaitingAt(rs, q)
        BY <1>1, <1>2, <3>2
      <4> QED
        BY <3>2, <4>1, Zenon DEF ChunkOf
    <3> QED
      BY <3>1, <3>2
  <2>2. \A q \in CallsIn(rs) : \A n :
          ResultsAt(rs, q) # {} /\ IsChunkOf(s, st.chunks, n, rs, q) => IsChunkOf(s, st.chunks, n, ts, q)
    BY <1>1, <2>1, Zenon DEF IsChunkOf
  <2>3. \A p \in st.pending : \E q \in CallsIn(ts) : p = WaitingAt(ts, q) /\ ResultsAt(ts, q) = {}
    BY <1>1, <2>1, Zenon DEF ReadAs
  <2>4. \A n \in 1 .. Len(st.chunks) :
          \/ IsText(st.chunks[n])
          \/ \E q \in CallsIn(ts) : ResultsAt(ts, q) # {} /\ st.chunks[n] = ChunkOf(s, n, ts, q)
    BY <1>1, <2>1, Zenon DEF ReadAs
  <2>5. \A q \in CallsIn(ts) :
          IF ResultsAt(ts, q) = {} THEN WaitingAt(ts, q) \in st.pending
          ELSE \E n : IsChunkOf(s, st.chunks, n, ts, q)
    BY <1>1, <2>1, <2>2, Zenon DEF ReadAs
  <2> QED
    BY <1>3, <2>3, <2>4, <2>5, Zenon DEF ReadAs
<1>4. ASSUME NEW p \in st.pending, p.call = i.call, WellRead(t), t.pending = st.pending \ {p},
             t.chunks = Append(st.chunks, ToolCallChunk(SourceOf[s], Len(st.chunks), p, i.out))
      PROVE  ReadAs(s, ts, t)
  <2> DEFINE M == Len(st.chunks)
             x == ToolCallChunk(SourceOf[s], M, p, i.out)
  <2>1. PICK c \in CallsIn(rs) : p = WaitingAt(rs, c) /\ ResultsAt(rs, c) = {}
    BY DEF ReadAs
  <2>2. i.call = CallAt(rs, c).call
    BY <1>4, <2>1, ChunkShape
  <2>3. ASSUME NEW q \in CallsIn(rs), q # c
        PROVE  CallAt(rs, q).call # i.call /\ ResultsAt(ts, q) = ResultsAt(rs, q)
    <3>1. CallAt(rs, q).call # i.call
      BY <1>1, <2>2, <2>3, CallsApart
    <3> QED
      BY <1>2, <3>1
  <2>4. /\ M \in Nat /\ Len(t.chunks) = M + 1 /\ t.chunks[M + 1] = x
        /\ \A n \in 1 .. M : t.chunks[n] = st.chunks[n]
    BY <1>4, AppendSeq, SeqLength DEF ReadAs, WellRead, IsAppended
  <2>5. x = ChunkOf(s, M + 1, ts, c) /\ ResultsAt(ts, c) # {}
    <3>1. (M + 1) - 1 = M
      BY <2>4
    <3>2. OutputAt(ts, c) = i.out /\ ResultsAt(ts, c) # {}
      BY <1>2, <2>1, <2>2
    <3>3. WaitingAt(ts, c) = p
      BY <1>1, <2>1
    <3> QED
      BY <3>1, <3>2, <3>3, Zenon DEF ChunkOf
  <2>6. \A q \in CallsIn(rs) : ResultsAt(rs, q) # {} =>
          /\ q # c /\ ResultsAt(ts, q) # {}
          /\ \A n : ChunkOf(s, n, ts, q) = ChunkOf(s, n, rs, q)
    <3> SUFFICES ASSUME NEW q \in CallsIn(rs), ResultsAt(rs, q) # {}
                 PROVE  /\ q # c /\ ResultsAt(ts, q) # {}
                        /\ \A n : ChunkOf(s, n, ts, q) = ChunkOf(s, n, rs, q)
      OBVIOUS
    <3>1. q # c
      BY <2>1
    <3>2. ResultsAt(ts, q) # {} /\ OutputAt(ts, q) = OutputAt(rs, q) /\ WaitingAt(ts, q) = WaitingAt(rs, q)
      BY <1>1, <1>2
    <3> QED
      BY <3>1, <3>2, Zenon DEF ChunkOf
  <2>7. ASSUME NEW w \in t.pending
        PROVE  \E q \in CallsIn(ts) : w = WaitingAt(ts, q) /\ ResultsAt(ts, q) = {}
    <3>1. w \in st.pending /\ w # p
      BY <1>4
    <3>2. PICK q \in CallsIn(rs) : w = WaitingAt(rs, q) /\ ResultsAt(rs, q) = {}
      BY <3>1 DEF ReadAs
    <3>3. q # c
      BY <2>1, <3>1, <3>2
    <3> QED
      BY <1>1, <2>3, <3>2, <3>3
  <2>8. ASSUME NEW n \in 1 .. Len(t.chunks)
        PROVE  \/ IsText(t.chunks[n])
               \/ \E q \in CallsIn(ts) : ResultsAt(ts, q) # {} /\ t.chunks[n] = ChunkOf(s, n, ts, q)
    <3>1. CASE n = M + 1
      BY <1>1, <2>4, <2>5, <3>1
    <3>2. CASE n \in 1 .. M
      <4>1. \/ IsText(st.chunks[n])
            \/ \E q \in CallsIn(rs) : ResultsAt(rs, q) # {} /\ st.chunks[n] = ChunkOf(s, n, rs, q)
        BY <3>2 DEF ReadAs
      <4> QED
        BY <1>1, <2>4, <2>6, <3>2, <4>1
    <3> QED
      BY <2>4, <3>1, <3>2
  <2>9. ASSUME NEW q \in CallsIn(rs)
        PROVE  IF ResultsAt(ts, q) = {} THEN WaitingAt(ts, q) \in t.pending
               ELSE \E n : IsChunkOf(s, t.chunks, n, ts, q)
    <3>1. CASE q = c
      <4>1. ASSUME NEW m \in 1 .. Len(t.chunks), t.chunks[m].id[3] = CallAt(ts, c).call
            PROVE  m = M + 1
        <5> SUFFICES ASSUME m \in 1 .. M PROVE FALSE
          BY <2>4
        <5>1. st.chunks[m].id[3] = CallAt(rs, c).call
          BY <1>1, <2>4, <4>1
        <5>2. ResultsAt(rs, c) # {}
          BY <1>1, <5>1, ReadShape
        <5> QED
          BY <2>1, <5>2
      <4>2. M + 1 \in 1 .. Len(t.chunks)
        BY <2>4
      <4>3. IsChunkOf(s, t.chunks, M + 1, ts, c)
        BY <2>4, <2>5, <4>1, <4>2 DEF IsChunkOf
      <4> QED
        BY <2>5, <3>1, <4>3
    <3>2. CASE q # c /\ ResultsAt(rs, q) = {}
      <4>1. WaitingAt(rs, q) \in st.pending /\ ResultsAt(ts, q) = {}
        BY <2>3, <3>2 DEF ReadAs
      <4>2. WaitingAt(rs, q) # p
        <5>1. WaitingAt(rs, q).call = CallAt(rs, q).call
          BY ChunkShape
        <5> QED
          BY <1>4, <2>3, <3>2, <5>1
      <4> QED
        BY <1>1, <1>4, <4>1, <4>2
    <3>3. CASE q # c /\ ResultsAt(rs, q) # {}
      <4>1. PICK n : IsChunkOf(s, st.chunks, n, rs, q)
        BY <3>3 DEF ReadAs
      <4>2. n \in 1 .. Len(t.chunks) /\ t.chunks[n] = ChunkOf(s, n, ts, q) /\ ResultsAt(ts, q) # {}
        BY <2>4, <2>6, <3>3, <4>1 DEF IsChunkOf
      <4>3. ASSUME NEW m \in 1 .. Len(t.chunks), t.chunks[m].id[3] = CallAt(ts, q).call
            PROVE  m = n
        <5>1. CallAt(ts, q) = CallAt(rs, q) /\ CallAt(rs, q).call # i.call
          BY <1>1, <2>3, <3>3
        <5>2. x.id[3] = i.call
          BY <1>1, <2>2, <2>5, ChunkShape
        <5>3. m # M + 1
          BY <2>4, <4>3, <5>1, <5>2
        <5>4. m \in 1 .. M
          BY <2>4, <5>3
        <5> QED
          BY <2>4, <4>1, <4>3, <5>1, <5>4 DEF IsChunkOf
      <4> QED
        BY <4>2, <4>3 DEF IsChunkOf
    <3> QED
      BY <3>1, <3>2, <3>3
  <2> QED
    BY <1>1, <1>4, <2>7, <2>8, <2>9, Zenon DEF ReadAs
<1> QED
  BY <1>3, <1>4, Zenon DEF Completed

LEMMA ReadKeeps ==
    ASSUME NEW s \in Sessions, NEW rs, NEW r, IsSeq(rs), Recording(s, Append(rs, r)),
           ReadAs(s, rs, ReadTranscript(SourceOf[s], rs))
    PROVE  ReadAs(s, Append(rs, r), ReadTranscript(SourceOf[s], Append(rs, r)))
<1> DEFINE st == ReadTranscript(SourceOf[s], rs)
           t == ReadTranscript(SourceOf[s], Append(rs, r))
           f == ClaudeToolResult(r.items)
<1>1. t = ReadRecord(SourceOf[s], st, r)
  BY ReadNext
<1>2. /\ Recording(s, rs) /\ Recorded(s, r)
      /\ \A q \in CallsIn(rs) : CallAt(rs, q).call \notin CallIds(r)
  BY CallsNext
<1> HIDE DEF st, t
<1>3. WellRead(st) /\ ReadAs(s, rs, st)
  BY DEF ReadAs, st
<1>4. \A p \in st.pending : p.call \notin CallIds(r)
  BY <1>2, <1>3, ReadShape
<1>5. /\ f = 0 => /\ WellRead(t) /\ Grown(t.chunks, st.chunks)
                  /\ t.pending = st.pending \cup WaitingOf(r.items, Len(r.items), r.at)
      /\ f # 0 => /\ \A j \in 1 .. Len(r.items) : r.items[j].kind # "call"
                  /\ Completed(SourceOf[s], st, r.items[f], t)
  BY <1>1, <1>2, <1>3, <1>4, RecordRead
<1>6. CASE f = 0
  <2>1. ReadAs(s, Append(rs, r), t)
    BY <1>3, <1>5, <1>6, AdditionsRead
  <2> QED
    BY <2>1 DEF t
<1>7. CASE f # 0
  <2>1. ReadAs(s, Append(rs, r), t)
    BY <1>3, <1>5, <1>7, CompletionRead
  <2> QED
    BY <2>1 DEF t
<1> QED
  BY <1>6, <1>7

LEMMA NothingReadOk == ASSUME NEW s \in Sessions PROVE ReadAs(s, <<>>, ReadTranscript(SourceOf[s], <<>>))
<1>1. IsSeq(<<>>) /\ Len(<<>>) = 0
  <2>1. <<>> \in Seq({})
    OBVIOUS
  <2> QED
    BY <2>1 DEF IsSeq
<1>2. ReadTranscript(SourceOf[s], <<>>) = NothingRead
  BY <1>1, ReadNext
<1>3. WellRead(NothingRead)
  BY <1>1, FS_EmptySet DEF WellRead, NothingRead
<1>4. Recording(s, <<>>)
  BY <1>1 DEF Recording
<1>5. CallsIn(<<>>) = {}
  BY <1>1, <1>4, CallKnown
<1> QED
  BY <1>1, <1>2, <1>3, <1>5 DEF ReadAs, NothingRead

-----------------------------------------------------------------------------
(* What is made of a transcript. *)

\* The calls that wait come last, each once.
LEMMA Formatted ==
    ASSUME NEW s \in Sessions, NEW rs, Recording(s, rs),
           ReadAs(s, rs, ReadTranscript(SourceOf[s], rs)),
           NEW c \in FormatChunks(SourceOf[s], rs)
    PROVE  LET st == ReadTranscript(SourceOf[s], rs) IN
           /\ IsSeq(c) /\ Len(st.chunks) \in Nat
           /\ Cardinality(st.pending) \in Nat /\ Len(c) = Len(st.chunks) + Cardinality(st.pending)
           /\ \A n \in 1 .. Len(c) :
                 \/ n \in 1 .. Len(st.chunks) /\ c[n] = st.chunks[n]
                 \/ /\ n > Len(st.chunks)
                    /\ \E p \in st.pending : c[n] = ToolCallChunk(SourceOf[s], n - 1, p, <<>>)
           /\ \A n \in 1 .. Len(st.chunks) : n \in 1 .. Len(c) /\ c[n] = st.chunks[n]
           /\ \A p \in st.pending : \E n \in 1 .. Len(c) :
                 /\ n > Len(st.chunks) /\ c[n] = ToolCallChunk(SourceOf[s], n - 1, p, <<>>)
                 /\ \A m \in 1 .. Len(c) : m > Len(st.chunks) /\ c[m].id[3] = p.call => m = n
<1> DEFINE st == ReadTranscript(SourceOf[s], rs)
           N == Cardinality(st.pending)
           M == Len(st.chunks)
           Rest(f) == [k \in 1 .. N |-> ToolCallChunk(SourceOf[s], M + k - 1, f[k], <<>>)]
<1>1. IsSeq(st.chunks) /\ IsFiniteSet(st.pending) /\ M \in Nat /\ N \in Nat
  BY SeqLength, FS_CardinalityType DEF ReadAs, WellRead
<1>2. PICK f : /\ f \in [1 .. N -> st.pending] /\ \A a, b \in 1 .. N : a # b => f[a] # f[b]
               /\ c = st.chunks \o Rest(f)
  BY Zenon DEF FormatChunks
<1>3. \A p \in st.pending : \E k \in 1 .. N : f[k] = p
  <2>1. IsFiniteSet(1 .. N) /\ Cardinality(1 .. N) = N
    BY <1>1, FS_Interval
  <2>2. f \in Injection(1 .. N, st.pending)
    BY <1>2, Zenon DEF Injection, IsInjective
  <2>3. f \in Surjection(1 .. N, st.pending)
    BY <1>1, <2>1, <2>2, FS_Injection
  <2> QED
    BY <2>3 DEF Surjection
<1> HIDE DEF st
<1>4. /\ IsSeq(c) /\ Len(c) = M + N
      /\ \A n \in 1 .. M : n \in 1 .. Len(c) /\ c[n] = st.chunks[n]
      /\ \A k \in 1 .. N : M + k \in 1 .. Len(c) /\ c[M + k] = Rest(f)[k]
  <2>1. PICK S : st.chunks \in Seq(S)
    BY <1>1 DEF IsSeq
  <2> DEFINE T == S \cup {Rest(f)[k] : k \in 1 .. N}
             rest == Rest(f)
  <2>2. st.chunks \in Seq(T)
    BY <2>1
  <2>3. rest \in Seq(T) /\ Len(rest) = N
    <3>1. rest \in [1 .. N -> T]
      OBVIOUS
    <3> HIDE DEF rest, T
    <3> QED
      BY <1>1, <3>1
  <2> HIDE DEF T, rest
  <2>4. /\ st.chunks \o rest \in Seq(T) /\ Len(st.chunks \o rest) = M + N
        /\ \A n \in 1 .. (M + N) : (st.chunks \o rest)[n] =
              IF n <= M THEN st.chunks[n] ELSE rest[n - M]
    <3>1. /\ st.chunks \o rest \in Seq(T) /\ Len(st.chunks \o rest) = Len(st.chunks) + Len(rest)
          /\ \A n \in 1 .. Len(st.chunks) + Len(rest) : (st.chunks \o rest)[n] =
                IF n <= Len(st.chunks) THEN st.chunks[n] ELSE rest[n - Len(st.chunks)]
      BY <2>2, <2>3, ConcatProperties, Zenon
    <3> QED
      BY <2>3, <3>1
  <2>5. c = st.chunks \o rest
    BY <1>2 DEF rest
  <2>6. \A k \in 1 .. N : c[M + k] = rest[k] /\ M + k \in 1 .. (M + N)
    BY <1>1, <2>4, <2>5
  <2>7. \A n \in 1 .. M : c[n] = st.chunks[n] /\ n \in 1 .. (M + N)
    BY <1>1, <2>4, <2>5
  <2>8. IsSeq(c)
    BY <2>4, <2>5 DEF IsSeq
  <2> QED
    BY <2>4, <2>5, <2>6, <2>7, <2>8 DEF rest
<1>5. \A k \in 1 .. N : c[M + k] = ToolCallChunk(SourceOf[s], (M + k) - 1, f[k], <<>>) /\ f[k] \in st.pending
  BY <1>2, <1>4
<1> HIDE DEF M, N
<1>6. \A n \in 1 .. Len(c) : n \in 1 .. M \/ (n > M /\ \E k \in 1 .. N : n = M + k)
  <2> SUFFICES ASSUME NEW n \in 1 .. Len(c), n > M PROVE \E k \in 1 .. N : n = M + k
    BY <1>1, <1>4 DEF M
  <2>1. n - M \in 1 .. N /\ n = M + (n - M)
    BY <1>1, <1>4 DEF M, N
  <2> QED
    BY <2>1
<1>7. ASSUME NEW p \in st.pending
      PROVE  \E n \in 1 .. Len(c) :
               /\ n > M /\ c[n] = ToolCallChunk(SourceOf[s], n - 1, p, <<>>)
               /\ \A m \in 1 .. Len(c) : m > M /\ c[m].id[3] = p.call => m = n
  <2>1. PICK k \in 1 .. N : f[k] = p
    BY <1>3 DEF N
  <2>2. M + k \in 1 .. Len(c) /\ M + k > M /\ c[M + k] = ToolCallChunk(SourceOf[s], (M + k) - 1, p, <<>>)
    BY <1>1, <1>4, <1>5, <2>1 DEF M, N
  <2>3. ASSUME NEW m \in 1 .. Len(c), m > M, c[m].id[3] = p.call
        PROVE  m = M + k
    <3>1. PICK j \in 1 .. N : m = M + j
      <4>1. m \notin 1 .. M
        BY <1>1, <2>3 DEF M
      <4> QED
        BY <1>6, <4>1
    <3>2. c[m] = ToolCallChunk(SourceOf[s], (M + j) - 1, f[j], <<>>) /\ f[j] \in st.pending
      BY <1>5, <3>1 DEF M, N
    <3>3. f[j].call = p.call
      BY <2>3, <3>2, ChunkShape
    <3>4. f[j] = p
      <4>1. ReadAs(s, rs, st)
        BY DEF st
      <4> QED
        BY <3>2, <3>3, <4>1, ReadShape
    <3>5. j = k
      BY <1>2, <2>1, <3>4 DEF N
    <3> QED
      BY <3>1, <3>5
  <2> QED
    BY <2>2, <2>3
<1>8. ASSUME NEW n \in 1 .. Len(c)
      PROVE  \/ n \in 1 .. M /\ c[n] = st.chunks[n]
             \/ /\ n > M
                /\ \E p \in st.pending : c[n] = ToolCallChunk(SourceOf[s], n - 1, p, <<>>)
  <2>1. CASE n \in 1 .. M
    BY <1>4, <2>1 DEF M
  <2>2. ASSUME NEW k \in 1 .. N, n > M, n = M + k
        PROVE  \E p \in st.pending : c[n] = ToolCallChunk(SourceOf[s], n - 1, p, <<>>)
    BY <1>5, <2>2, Zenon DEF M, N
  <2> QED
    BY <1>6, <2>1, <2>2
<1> QED
  BY <1>1, <1>4, <1>7, <1>8 DEF st, M, N

\* Every call is a chunk of its own, with its time and its output.
LEMMA FormattedCalls ==
    ASSUME NEW s \in Sessions, NEW rs, Recording(s, rs),
           ReadAs(s, rs, ReadTranscript(SourceOf[s], rs)),
           NEW c \in FormatChunks(SourceOf[s], rs)
    PROVE  /\ \A q \in CallsIn(rs) : \E n : IsChunkOf(s, c, n, rs, q)
           /\ \A n \in 1 .. Len(c) : \/ IsText(c[n])
                                     \/ \E q \in CallsIn(rs) : c[n] = ChunkOf(s, n, rs, q)
<1> DEFINE st == ReadTranscript(SourceOf[s], rs)
           M == Len(st.chunks)
<1>1. /\ M \in Nat
      /\ \A n \in 1 .. Len(c) :
            \/ n \in 1 .. M /\ c[n] = st.chunks[n]
            \/ n > M /\ \E p \in st.pending : c[n] = ToolCallChunk(SourceOf[s], n - 1, p, <<>>)
      /\ \A n \in 1 .. M : n \in 1 .. Len(c) /\ c[n] = st.chunks[n]
      /\ \A p \in st.pending : \E n \in 1 .. Len(c) :
            /\ n > M /\ c[n] = ToolCallChunk(SourceOf[s], n - 1, p, <<>>)
            /\ \A m \in 1 .. Len(c) : m > M /\ c[m].id[3] = p.call => m = n
  BY Formatted
<1>2. ReadAs(s, rs, st)
  OBVIOUS
<1> HIDE DEF st
<1>3. \A q \in CallsIn(rs) : ResultsAt(rs, q) = {} => OutputAt(rs, q) = <<>>
  BY Zenon DEF ResultsAt, OutputAt, OutputIn
<1>4. ASSUME NEW q \in CallsIn(rs) PROVE \E n : IsChunkOf(s, c, n, rs, q)
  <2>1. CASE ResultsAt(rs, q) = {}
    <3> DEFINE p == WaitingAt(rs, q)
    <3>1. p \in st.pending /\ p.call = CallAt(rs, q).call
      BY <1>2, <2>1, ChunkShape DEF ReadAs
    <3>2. PICK n \in 1 .. Len(c) :
            /\ n > M /\ c[n] = ToolCallChunk(SourceOf[s], n - 1, p, <<>>)
            /\ \A m \in 1 .. Len(c) : m > M /\ c[m].id[3] = p.call => m = n
      BY <1>1, <3>1
    <3>3. c[n] = ChunkOf(s, n, rs, q)
      BY <1>3, <2>1, <3>2, Zenon DEF ChunkOf
    <3>4. ASSUME NEW m \in 1 .. Len(c), c[m].id[3] = CallAt(rs, q).call PROVE m = n
      <4>1. CASE m \in 1 .. M /\ c[m] = st.chunks[m]
        BY <1>2, <2>1, <3>4, <4>1, ReadShape
      <4>2. CASE m > M
        BY <3>1, <3>2, <3>4, <4>2
      <4> QED
        BY <1>1, <4>1, <4>2
    <3> QED
      BY <3>2, <3>3, <3>4 DEF IsChunkOf
  <2>2. CASE ResultsAt(rs, q) # {}
    <3>1. PICK n : IsChunkOf(s, st.chunks, n, rs, q)
      BY <1>2, <2>2 DEF ReadAs
    <3>2. n \in 1 .. Len(c) /\ c[n] = ChunkOf(s, n, rs, q)
      BY <1>1, <3>1 DEF IsChunkOf
    <3>3. ASSUME NEW m \in 1 .. Len(c), c[m].id[3] = CallAt(rs, q).call PROVE m = n
      <4>1. CASE m \in 1 .. M /\ c[m] = st.chunks[m]
        BY <3>1, <3>3, <4>1 DEF IsChunkOf
      <4>2. CASE \E p \in st.pending : c[m] = ToolCallChunk(SourceOf[s], m - 1, p, <<>>)
        <5>1. PICK p \in st.pending : c[m] = ToolCallChunk(SourceOf[s], m - 1, p, <<>>)
          BY <4>2
        <5>2. p.call = CallAt(rs, q).call
          BY <3>3, <5>1, ChunkShape
        <5> QED
          BY <1>2, <2>2, <5>2, ReadShape
      <4> QED
        BY <1>1, <4>1, <4>2
    <3> QED
      BY <3>2, <3>3 DEF IsChunkOf
  <2> QED
    BY <2>1, <2>2
<1>5. ASSUME NEW n \in 1 .. Len(c), ~IsText(c[n])
      PROVE  \E q \in CallsIn(rs) : c[n] = ChunkOf(s, n, rs, q)
  <2>1. CASE n \in 1 .. M /\ c[n] = st.chunks[n]
    BY <1>2, <1>5, <2>1 DEF ReadAs
  <2>2. CASE \E p \in st.pending : c[n] = ToolCallChunk(SourceOf[s], n - 1, p, <<>>)
    <3>1. PICK p \in st.pending : c[n] = ToolCallChunk(SourceOf[s], n - 1, p, <<>>)
      BY <2>2
    <3>2. PICK q \in CallsIn(rs) : p = WaitingAt(rs, q) /\ ResultsAt(rs, q) = {}
      BY <1>2 DEF ReadAs
    <3> QED
      BY <1>3, <3>1, <3>2, Zenon DEF ChunkOf
  <2> QED
    BY <1>1, <2>1, <2>2
<1> QED
  BY <1>4, <1>5

-----------------------------------------------------------------------------
(* The transcripts, and what is stored of them. *)

SizeOf(s, rs) ==
    LET st == ReadTranscript(SourceOf[s], rs) IN Len(st.chunks) + Cardinality(st.pending)

\* A transcript that grows is not read as less.
LEMMA SizeNext ==
    ASSUME NEW s \in Sessions, NEW rs, NEW r, IsSeq(rs), Recording(s, Append(rs, r)),
           ReadAs(s, rs, ReadTranscript(SourceOf[s], rs))
    PROVE  SizeOf(s, rs) \in Nat /\ SizeOf(s, Append(rs, r)) >= SizeOf(s, rs)
<1> DEFINE st == ReadTranscript(SourceOf[s], rs)
           t == ReadTranscript(SourceOf[s], Append(rs, r))
           f == ClaudeToolResult(r.items)
<1>1. t = ReadRecord(SourceOf[s], st, r)
  BY ReadNext
<1>2. /\ Recording(s, rs) /\ Recorded(s, r)
      /\ \A q \in CallsIn(rs) : CallAt(rs, q).call \notin CallIds(r)
  BY CallsNext
<1>3. SizeOf(s, rs) = Len(st.chunks) + Cardinality(st.pending)
      /\ SizeOf(s, Append(rs, r)) = Len(t.chunks) + Cardinality(t.pending)
  BY DEF SizeOf
<1> HIDE DEF st, t
<1>4. WellRead(st) /\ ReadAs(s, rs, st)
  BY DEF ReadAs, st
<1>5. /\ Len(st.chunks) \in Nat /\ IsSeq(st.chunks)
      /\ IsFiniteSet(st.pending) /\ Cardinality(st.pending) \in Nat
  BY <1>4, SeqLength, FS_CardinalityType DEF WellRead
<1>6. \A p \in st.pending : p.call \notin CallIds(r)
  BY <1>2, <1>4, ReadShape
<1>7. /\ f = 0 => /\ WellRead(t) /\ Grown(t.chunks, st.chunks)
                  /\ t.pending = st.pending \cup WaitingOf(r.items, Len(r.items), r.at)
      /\ f # 0 => Completed(SourceOf[s], st, r.items[f], t)
  BY <1>1, <1>2, <1>4, <1>6, RecordRead
<1>8. CASE f = 0
  <2>1. /\ Len(t.chunks) \in Nat /\ IsFiniteSet(t.pending) /\ Cardinality(t.pending) \in Nat
        /\ Len(st.chunks) <= Len(t.chunks) /\ st.pending \subseteq t.pending
    BY <1>7, <1>8, SeqLength, FS_CardinalityType DEF WellRead, Grown
  <2>2. Cardinality(st.pending) <= Cardinality(t.pending)
    BY <2>1, FS_Subset
  <2> QED
    BY <1>3, <1>5, <2>1, <2>2
<1>9. CASE f # 0
  <2>1. CASE t = st
    BY <1>3, <1>5, <2>1
  <2>2. CASE t # st
    <3>1. PICK p \in st.pending : \E x : t.pending = st.pending \ {p} /\ t.chunks = Append(st.chunks, x)
      BY <1>7, <1>9, <2>2, Zenon DEF Completed
    <3>2. PICK x : t.pending = st.pending \ {p} /\ t.chunks = Append(st.chunks, x)
      BY <3>1
    <3>3. Len(t.chunks) = Len(st.chunks) + 1
      BY <1>5, <3>2, AppendSeq DEF IsAppended
    <3>4. Cardinality(t.pending) = Cardinality(st.pending) - 1
      BY <1>5, <3>2, FS_RemoveElement
    <3> QED
      BY <1>3, <1>5, <3>3, <3>4
  <2> QED
    BY <2>1, <2>2
<1> QED
  BY <1>3, <1>5, <1>8, <1>9

\* Each chunk is text, or of a call, perhaps of before its result was there.
FromCalls(s, rs, c) ==
    \A n \in 1 .. Len(c) :
        \/ IsText(c[n])
        \/ \E q \in CallsIn(rs) : \E out \in {<<>>, OutputAt(rs, q)} :
              c[n] = ToolCallChunk(SourceOf[s], n - 1, WaitingAt(rs, q), out)

Stored(s) ==
    /\ IsSeq(db.chunks[s]) /\ Len(db.chunks[s]) <= SizeOf(s, log[s])
    /\ FromCalls(s, log[s], db.chunks[s])
    /\ db.prov[s] = ProvenanceOf(s, db.chunks[s])
LogInv ==
    /\ log = [s \in Sessions |-> log[s]]
    /\ \A s \in Sessions : /\ Recording(s, log[s])
                           /\ ReadAs(s, log[s], ReadTranscript(SourceOf[s], log[s]))
PlanInv ==
    /\ planFile \in {<<>>} \cup PlanFiles
    /\ db.plan \in {{}} \cup {ToSet(p) : p \in PlanFiles}
DbInv ==
    /\ db = [row |-> db.row, chunks |-> db.chunks, prov |-> db.prov, plan |-> db.plan]
    /\ db.chunks = [s \in Sessions |-> db.chunks[s]] /\ db.prov = [s \in Sessions |-> db.prov[s]]
    /\ \A s \in Sessions : Stored(s)
MemoryInv == LogInv /\ PlanInv /\ DbInv

LEMMA MemoryInit == Init => MemoryInv
<1> SUFFICES ASSUME Init PROVE MemoryInv
  OBVIOUS
<1>1. /\ log = [s \in Sessions |-> <<>>] /\ planFile = <<>>
      /\ db = [row |-> [s \in Sessions |-> None], chunks |-> [s \in Sessions |-> <<>>],
               prov |-> [s \in Sessions |-> {}], plan |-> {}]
  BY DEF Init, EmptyDb
<1>2. IsSeq(<<>>) /\ Len(<<>>) = 0 /\ DOMAIN <<>> = {}
  <2>1. <<>> \in Seq({})
    OBVIOUS
  <2> QED
    BY <2>1 DEF IsSeq
<1>3. \A s \in Sessions : Recording(s, <<>>)
  BY <1>2 DEF Recording
<1>4. LogInv
  BY <1>1, <1>3, NothingReadOk DEF LogInv
<1>5. ASSUME NEW s \in Sessions PROVE Stored(s)
  <2>1. ReadTranscript(SourceOf[s], <<>>) = NothingRead
    BY <1>2, ReadNext
  <2>2. SizeOf(s, <<>>) = 0
    <3>1. NothingRead.chunks = <<>> /\ NothingRead.pending = {}
      BY DEF NothingRead
    <3>2. SizeOf(s, <<>>) = Len(<<>>) + Cardinality({})
      BY <2>1, <3>1, Zenon DEF SizeOf
    <3> QED
      BY <1>2, <3>2, FS_EmptySet
  <2>3. ProvenanceOf(s, <<>>) = {}
    BY <1>2 DEF ProvenanceOf
  <2>4. FromCalls(s, <<>>, <<>>)
    BY <1>2 DEF FromCalls
  <2> QED
    BY <1>1, <1>2, <2>2, <2>3, <2>4 DEF Stored
<1>6. PlanInv
  BY <1>1 DEF PlanInv
<1>7. DbInv
  BY <1>1, <1>5 DEF DbInv
<1> QED
  BY <1>4, <1>6, <1>7 DEF MemoryInv

\* What is stored is of the transcript still when that has grown.
LEMMA FromCallsNext ==
    ASSUME NEW s \in Sessions, NEW rs, NEW r, IsSeq(rs), Recording(s, Append(rs, r)),
           NEW c, FromCalls(s, rs, c)
    PROVE  FromCalls(s, Append(rs, r), c)
<1> DEFINE ts == Append(rs, r)
<1>1. \A q \in CallsIn(rs) :
        /\ q \in CallsIn(ts) /\ q[1] \in 1 .. (Len(rs) + 1)
        /\ CallAt(ts, q) = CallAt(rs, q) /\ WaitingAt(ts, q) = WaitingAt(rs, q)
  BY CallsNext
<1>2. ASSUME NEW q \in CallsIn(rs) PROVE OutputAt(rs, q) \in {<<>>, OutputAt(ts, q)}
  <2>1. q[1] \in 1 .. (Len(rs) + 1) /\ CallAt(ts, q) = CallAt(rs, q)
    BY <1>1
  <2>2. ResultsAt(rs, q) # {} => OutputAt(ts, q) = OutputAt(rs, q)
    BY <2>1, ResultsAtNext
  <2>3. ResultsAt(rs, q) = {} => OutputAt(rs, q) = <<>>
    BY Zenon DEF ResultsAt, OutputAt, OutputIn
  <2> QED
    BY <2>2, <2>3
<1>3. ASSUME NEW n \in 1 .. Len(c), NEW q \in CallsIn(rs), NEW out \in {<<>>, OutputAt(rs, q)},
             c[n] = ToolCallChunk(SourceOf[s], n - 1, WaitingAt(rs, q), out)
      PROVE  \E p \in CallsIn(ts) : \E o \in {<<>>, OutputAt(ts, p)} :
                c[n] = ToolCallChunk(SourceOf[s], n - 1, WaitingAt(ts, p), o)
  <2>1. /\ q \in CallsIn(ts) /\ out \in {<<>>, OutputAt(ts, q)}
        /\ c[n] = ToolCallChunk(SourceOf[s], n - 1, WaitingAt(ts, q), out)
    BY <1>1, <1>2, <1>3
  <2> QED
    BY <2>1, Zenon
<1> QED
  BY <1>3, Zenon DEF FromCalls

LEMMA WriteKeepsMemory ==
    ASSUME MemoryInv, NEW s \in Sessions, NEW q \in Records[s], Write(s, q)
    PROVE  MemoryInv'
<1> DEFINE r == [at |-> Clock + 1, role |-> q.role, items |-> q.items]
           rs == log[s]
<1>1. log' = [log EXCEPT ![s] = Append(rs, r)] /\ UNCHANGED <<planFile, db>>
  BY DEF Write
<1>2. r.items = q.items /\ r.role = q.role /\ \A k \in DOMAIN rs : rs[k].items # r.items
  BY DEF Write
<1>3. Recorded(s, r)
  BY <1>2 DEF Recorded
<1> HIDE DEF r
<1>4. log'[s] = Append(rs, r) /\ \A x \in Sessions : x # s => log'[x] = log[x]
  BY <1>1 DEF MemoryInv, LogInv
<1>5. log' = [x \in Sessions |-> log'[x]]
  BY <1>1 DEF MemoryInv, LogInv
<1>6. Recording(s, rs) /\ ReadAs(s, rs, ReadTranscript(SourceOf[s], rs)) /\ IsSeq(rs)
  BY DEF MemoryInv, LogInv, Recording
<1> HIDE DEF rs
<1>7. Recording(s, Append(rs, r))
  <2> DEFINE ts == Append(rs, r)
             N == Len(rs) + 1
  <2>1. /\ IsSeq(ts) /\ Len(ts) = N /\ ts[N] = r /\ \A k \in 1 .. Len(rs) : ts[k] = rs[k]
        /\ Len(rs) \in Nat /\ DOMAIN rs = 1 .. Len(rs)
    <3>1. Len(rs) \in Nat /\ DOMAIN rs = 1 .. Len(rs)
      BY <1>6 DEF IsSeq
    <3>2. IsSeq(ts) /\ IsAppended(ts, rs, r)
      BY <1>6, AppendSeq
    <3> HIDE DEF ts
    <3> QED
      BY <3>1, <3>2 DEF IsAppended
  <2> HIDE DEF ts
  <2>2. \A k \in 1 .. Len(ts) : k \in 1 .. Len(rs) \/ k = N
    BY <2>1
  <2>3. \A k \in 1 .. Len(ts) : Recorded(s, ts[k])
    BY <1>3, <1>6, <2>1, <2>2 DEF Recording
  <2>4. \A k \in 1 .. Len(rs) : ts[k].items = rs[k].items /\ rs[k].items # r.items
    BY <1>2, <2>1 DEF rs
  <2>5. \A j, k \in 1 .. Len(ts) : ts[j].items = ts[k].items => j = k
    BY <1>6, <2>1, <2>2, <2>4 DEF Recording
  <2> QED
    BY <2>1, <2>3, <2>5 DEF Recording, ts
<1>8. ReadAs(s, Append(rs, r), ReadTranscript(SourceOf[s], Append(rs, r)))
  BY <1>6, <1>7, ReadKeeps
<1>9. LogInv'
  BY <1>4, <1>5, <1>7, <1>8 DEF MemoryInv, LogInv
<1>10. ASSUME NEW x \in Sessions PROVE Stored(x)'
  <2>1. Stored(x)
    BY DEF MemoryInv, DbInv
  <2>2. CASE x # s
    BY <1>1, <1>4, <2>1, <2>2 DEF Stored
  <2>3. CASE x = s
    <3>1. SizeOf(s, rs) \in Nat /\ SizeOf(s, Append(rs, r)) >= SizeOf(s, rs)
      BY <1>6, <1>7, SizeNext
    <3>2. Len(db.chunks[s]) \in Nat /\ Len(db.chunks[s]) <= SizeOf(s, rs)
      BY <2>1, <2>3, SeqLength DEF Stored, rs
    <3>3. Len(db.chunks[s]) <= SizeOf(s, Append(rs, r)) \/ SizeOf(s, Append(rs, r)) \notin Nat
      BY <3>1, <3>2
    <3>4. SizeOf(s, Append(rs, r)) \in Nat
      BY <1>8, SeqLength, FS_CardinalityType DEF SizeOf, ReadAs, WellRead
    <3>5. FromCalls(s, Append(rs, r), db.chunks[s])
      BY <1>6, <1>7, <2>1, <2>3, FromCallsNext DEF Stored, rs
    <3> QED
      BY <1>1, <1>4, <2>1, <2>3, <3>3, <3>4, <3>5 DEF Stored
  <2> QED
    BY <2>2, <2>3
<1> QED
  BY <1>1, <1>9, <1>10 DEF MemoryInv, PlanInv, DbInv

\* A fresh parse is stored whole, and is not less than what it replaces.
LEMMA StoreKeeps ==
    ASSUME MemoryInv, UNCHANGED <<log, planFile>>, NEW s, NEW c,
           s \in Sessions => c \in FormatChunks(SourceOf[s], log[s]),
           db' = [db EXCEPT !.chunks[s] = c, !.prov[s] = ProvenanceOf(s, c)]
    PROVE  MemoryInv' /\ \A x \in Sessions : Len(db'.chunks[x]) >= Len(db.chunks[x])
<1>1. /\ db = [row |-> db.row, chunks |-> db.chunks, prov |-> db.prov, plan |-> db.plan]
      /\ db.chunks = [x \in Sessions |-> db.chunks[x]] /\ db.prov = [x \in Sessions |-> db.prov[x]]
      /\ \A x \in Sessions : Stored(x)
  BY DEF MemoryInv, DbInv
<1>2. /\ db'.row = db.row /\ db'.plan = db.plan
      /\ db'.chunks = [db.chunks EXCEPT ![s] = c]
      /\ db'.prov = [db.prov EXCEPT ![s] = ProvenanceOf(s, c)]
      /\ db' = [row |-> db'.row, chunks |-> db'.chunks, prov |-> db'.prov, plan |-> db'.plan]
  <2> DEFINE cs == [db.chunks EXCEPT ![s] = c]
             ps == [db.prov EXCEPT ![s] = ProvenanceOf(s, c)]
  <2>1. db' = [db EXCEPT !.chunks = cs, !.prov = ps]
    BY <1>1
  <2> HIDE DEF cs, ps
  <2>2. db' = [row |-> db.row, chunks |-> cs, prov |-> ps, plan |-> db.plan]
    BY <1>1, <2>1
  <2> QED
    BY <2>2 DEF cs, ps
<1>3. /\ db'.chunks = [x \in Sessions |-> db'.chunks[x]] /\ db'.prov = [x \in Sessions |-> db'.prov[x]]
      /\ \A x \in Sessions : x # s => db'.chunks[x] = db.chunks[x] /\ db'.prov[x] = db.prov[x]
      /\ s \in Sessions => db'.chunks[s] = c /\ db'.prov[s] = ProvenanceOf(s, c)
  BY <1>1, <1>2
<1>4. ASSUME NEW x \in Sessions
      PROVE  Stored(x)' /\ Len(db'.chunks[x]) >= Len(db.chunks[x])
  <2>1. Stored(x) /\ Len(db.chunks[x]) \in Nat
    BY <1>1, SeqLength DEF Stored
  <2>2. CASE x # s
    BY <1>3, <2>1, <2>2 DEF Stored
  <2>3. CASE x = s
    <3>1. Recording(s, log[s]) /\ ReadAs(s, log[s], ReadTranscript(SourceOf[s], log[s]))
      BY <2>3 DEF MemoryInv, LogInv
    <3>2. c \in FormatChunks(SourceOf[s], log[s])
      BY <2>3
    <3>3. IsSeq(c) /\ Len(c) \in Nat /\ Len(c) = SizeOf(s, log[s])
      BY <2>3, <3>1, <3>2, Formatted, SeqLength DEF SizeOf
    <3>4. FromCalls(s, log[s], c)
      <4>1. \A n \in 1 .. Len(c) : \/ IsText(c[n])
                                   \/ \E q \in CallsIn(log[s]) : c[n] = ChunkOf(s, n, log[s], q)
        BY <2>3, <3>1, <3>2, FormattedCalls
      <4> QED
        BY <4>1, Zenon DEF FromCalls, ChunkOf
    <3>5. db'.chunks[s] = c /\ db'.prov[s] = ProvenanceOf(s, c)
      BY <1>3, <2>3
    <3> QED
      BY <2>1, <2>3, <3>3, <3>4, <3>5 DEF Stored
  <2> QED
    BY <2>2, <2>3
<1>5. LogInv' /\ PlanInv'
  BY <1>2 DEF MemoryInv, LogInv, PlanInv
<1> QED
  BY <1>2, <1>3, <1>4, <1>5 DEF MemoryInv, DbInv

\* A step that stores no chunks: the plan may be stored, or the row of a session.
LEMMA OthersKeepMemory ==
    ASSUME MemoryInv, UNCHANGED log, planFile' \in {planFile} \cup PlanFiles,
           db'.chunks = db.chunks, db'.prov = db.prov,
           db'.plan \in {db.plan} \cup {ToSet(p) : p \in PlanFiles},
           db' = [row |-> db'.row, chunks |-> db'.chunks, prov |-> db'.prov, plan |-> db'.plan]
    PROVE  MemoryInv' /\ \A x \in Sessions : Len(db'.chunks[x]) >= Len(db.chunks[x])
<1>1. LogInv' /\ PlanInv'
  BY DEF MemoryInv, LogInv, PlanInv
<1>2. ASSUME NEW x \in Sessions
      PROVE  Stored(x)' /\ Len(db'.chunks[x]) >= Len(db.chunks[x])
  <2>1. Stored(x) /\ Len(db.chunks[x]) \in Nat
    BY SeqLength DEF MemoryInv, DbInv, Stored
  <2> QED
    BY <2>1 DEF Stored
<1> QED
  BY <1>1, <1>2 DEF MemoryInv, DbInv

LEMMA MemoryNext ==
    ASSUME MemoryInv, [Next]_vars
    PROVE  MemoryInv' /\ \A x \in Sessions : Len(db'.chunks[x]) >= Len(db.chunks[x])
<1> DEFINE Goal == MemoryInv' /\ \A x \in Sessions : Len(db'.chunks[x]) >= Len(db.chunks[x])
<1>1. db = [row |-> db.row, chunks |-> db.chunks, prov |-> db.prov, plan |-> db.plan]
  BY DEF MemoryInv, DbInv
<1>2. ASSUME UNCHANGED <<log, planFile, db>> PROVE Goal
  BY <1>1, <1>2, OthersKeepMemory
<1>3. ASSUME NEW s \in Sessions, NEW q \in Records[s], Write(s, q) PROVE Goal
  <2>1. MemoryInv' /\ db' = db
    BY <1>3, WriteKeepsMemory DEF Write
  <2>2. \A x \in Sessions : Len(db.chunks[x]) \in Nat
    BY SeqLength DEF MemoryInv, DbInv, Stored
  <2> QED
    BY <2>1, <2>2
<1>4. ASSUME NEW p \in PlanFiles, WritePlan(p) PROVE Goal
  BY <1>1, <1>4, OthersKeepMemory DEF WritePlan
<1>5. CASE RefreshRow
  <2>1. UNCHANGED <<log, planFile>>
    BY <1>5 DEF RefreshRow, agentVars
  <2>2. PICK s, r : db' = db \/ db' = [db EXCEPT !.row[s] = r]
    BY <1>5, Zenon DEF RefreshRow, UpsertSourceSession
  <2>3. CASE db' = [db EXCEPT !.row[s] = r]
    <3> DEFINE rows == [db.row EXCEPT ![s] = r]
    <3>1. db' = [db EXCEPT !.row = rows]
      BY <1>1, <2>3
    <3> HIDE DEF rows
    <3>2. db' = [row |-> rows, chunks |-> db.chunks, prov |-> db.prov, plan |-> db.plan]
      BY <1>1, <3>1
    <3> QED
      BY <2>1, <3>2, OthersKeepMemory
  <2> QED
    BY <1>2, <2>1, <2>2, <2>3
<1>6. CASE RefreshChunks
  <2>1. UNCHANGED <<log, planFile>>
    BY <1>6 DEF RefreshChunks, agentVars
  <2>2. CASE db' = db
    BY <1>2, <2>1, <2>2
  <2>3. CASE db' # db
    <3> DEFINE s == Head1.session
    <3>1. PICK c \in Parse(s) : LET new == UpsertSourceSessionChunks(db, s, c)
                                IN db' = IF new = None THEN db ELSE new
      BY <1>6, <2>3, Zenon DEF RefreshChunks
    <3>2. c \in FormatChunks(SourceOf[s], log[s])
      BY <3>1, Zenon DEF Parse
    <3>3. db' = [db EXCEPT !.chunks[s] = c, !.prov[s] = ProvenanceOf(s, c)]
      BY <2>3, <3>1, Zenon DEF UpsertSourceSessionChunks
    <3> HIDE DEF s
    <3> QED
      BY <2>1, <3>2, <3>3, StoreKeeps
  <2> QED
    BY <2>2, <2>3
<1>7. CASE RefreshPlans
  <2>1. UNCHANGED <<log, planFile>>
    BY <1>7 DEF RefreshPlans, agentVars
  <2>2. db' = db \/ (planFile # <<>> /\ db' = [db EXCEPT !.plan = ToSet(planFile)])
    <3> DEFINE new == UpsertSourcePlanWithEdges(db, planFile)
               made == IF SourcesInOrder[job.source] = "cursor_ide" /\ planFile # <<>>
                       THEN new ELSE db
    <3>1. db' = IF made = None THEN db ELSE made
      BY <1>7, Zenon DEF RefreshPlans
    <3>2. made = db \/ (planFile # <<>> /\ made = new)
      OBVIOUS
    <3>3. new # None => new = [db EXCEPT !.plan = ToSet(planFile)]
      BY Zenon DEF UpsertSourcePlanWithEdges
    <3> HIDE DEF made, new
    <3>4. db' = db \/ (db' = made /\ made # None)
      BY <3>1
    <3> QED
      BY <3>2, <3>3, <3>4, Zenon
  <2>3. CASE planFile # <<>> /\ db' = [db EXCEPT !.plan = ToSet(planFile)]
    <3>1. planFile \in PlanFiles
      BY <2>3 DEF MemoryInv, PlanInv
    <3> DEFINE edges == ToSet(planFile)
    <3>2. edges \in {ToSet(p) : p \in PlanFiles}
      BY <3>1
    <3> HIDE DEF edges
    <3>3. db' = [db EXCEPT !.plan = edges]
      BY <2>3 DEF edges
    <3>4. db' = [row |-> db.row, chunks |-> db.chunks, prov |-> db.prov, plan |-> edges]
      BY <1>1, <3>3
    <3> QED
      BY <2>1, <3>2, <3>4, OthersKeepMemory
  <2> QED
    BY <1>2, <2>1, <2>2, <2>3
<1>8. ASSUME NEW s \in Sessions, Tear(s) PROVE Goal
  BY <1>2, <1>8 DEF Tear
<1>9. CASE RefreshBegin \/ RefreshList \/ RefreshEmit \/ RefreshCrash
  BY <1>2, <1>9 DEF RefreshBegin, RefreshList, RefreshEmit, RefreshCrash, agentVars
<1>10. ASSUME NEW q \in Requests, Send(q) PROVE Goal
  BY <1>2, <1>10 DEF Send, agentVars
<1>11. ASSUME NEW x \in Surfaces, Receive(x) PROVE Goal
  BY <1>2, <1>11 DEF Receive, agentVars
<1>12. CASE ExplainGoesOn \/ ExplainFinish
  BY <1>2, <1>12, GoingOnFrame DEF ExplainFinish, agentVars
<1>13. CASE UNCHANGED vars
  BY <1>2, <1>13 DEF vars
<1> QED
  BY <1>3, <1>4, <1>5, <1>6, <1>7, <1>8, <1>9, <1>10, <1>11, <1>12, <1>13 DEF Next, ExplainGoesOn

(***************************************************************************)
(* However calls and results interleave in the transcripts, parsing keeps  *)
(* every tool call once, at its own time and with its own output           *)
(* (claude_code.rs and codex_app.rs format_chunks).                        *)
(***************************************************************************)
THEOREM ParsingKeepsCalls == Spec => []CallsKeptOnce
<1>1. MemoryInv => CallsKeptOnce
  <2> SUFFICES ASSUME MemoryInv, NEW s \in Sessions, NEW c \in FormatChunks(SourceOf[s], log[s]),
                      NEW q \in CallsOf(s)
               PROVE  LET i == log[s][q[1]].items[q[2]]
                          mine == {n \in DOMAIN c : c[n].id[3] = i.call}
                      IN /\ Cardinality(mine) = 1
                         /\ \A n \in mine : /\ c[n].at = log[s][q[1]].at
                                            /\ c[n].out = OutputOf(s, q[1], i.call)
    BY Zenon DEF CallsKeptOnce
  <2> DEFINE i == CallAt(log[s], q)
             mine == {n \in DOMAIN c : c[n].id[3] = i.call}
  <2>1. Recording(s, log[s]) /\ ReadAs(s, log[s], ReadTranscript(SourceOf[s], log[s]))
    BY DEF MemoryInv, LogInv
  <2>2. IsSeq(c)
    BY <2>1, Formatted
  <2>3. DOMAIN c = 1 .. Len(c)
    BY <2>2 DEF IsSeq
  <2>4. PICK n : IsChunkOf(s, c, n, log[s], q)
    BY <2>1, FormattedCalls DEF CallsOf
  <2>5. c[n].id[3] = i.call /\ c[n].at = log[s][q[1]].at /\ c[n].out = OutputAt(log[s], q)
    BY <2>4, ChunkShape DEF IsChunkOf
  <2>6. mine = {n}
    BY <2>3, <2>4, <2>5 DEF IsChunkOf
  <2>7. Cardinality({n}) = 1
    BY FS_Singleton
  <2> QED
    BY <2>5, <2>6, <2>7, Zenon DEF CallAt, OutputAt, OutputOf
<1> QED
  BY <1>1, MemoryInit, MemoryNext, PTL DEF Spec

(***************************************************************************)
(* No refresh leaves a session with fewer chunks than it had (history.rs   *)
(* refresh, metadata_db.rs upsert_source_session_chunks).                  *)
(***************************************************************************)
THEOREM RefreshNeverShrinks == Spec => StoredNeverShrinks
<1>1. MemoryInv /\ [Next]_vars => [\A s \in Sessions : Len(db'.chunks[s]) >= Len(db.chunks[s])]_vars
  BY MemoryNext
<1> QED
  BY <1>1, MemoryInit, MemoryNext, PTL DEF Spec, StoredNeverShrinks

\* A line of provenance is of an edit or an output of the call it is stored with.
LEMMA LineOfCall ==
    ASSUME NEW s \in Sessions, NEW rs, Recording(s, rs), NEW c, IsSeq(c), FromCalls(s, rs, c),
           NEW p \in ProvenanceOf(s, c)
    PROVE  /\ p.n \in DOMAIN c /\ c[p.n].at = p.at
           /\ \E q \in CallsIn(rs) :
                /\ rs[q[1]].at = p.at /\ CallAt(rs, q).call = c[p.n].id[3]
                /\ \E t \in {CallAt(rs, q).new, OutputAt(rs, q)} :
                      \E m \in DOMAIN t : t[m].of = p.line
<1> DEFINE Row(n, l) ==
             [path |-> ChunkFilePath(s, c[n]), line |-> l, n |-> n, at |-> c[n].at,
              kind |-> IF c[n].top # None THEN "exact_edit_hunk" ELSE "exact_diff_hunk"]
<1>1. PICK n \in DOMAIN c : \E l \in ChunkProvenanceLines(c[n]) : p = Row(n, l)
  BY Zenon DEF ProvenanceOf
<1>2. PICK l \in ChunkProvenanceLines(c[n]) : p = Row(n, l)
  BY <1>1
<1>3. p.n = n /\ p.at = c[n].at /\ p.line = l
  BY <1>2
<1> HIDE DEF Row
<1> DEFINE text == IF c[n].top # None THEN c[n].top ELSE c[n].out
<1>4. PICK j \in DOMAIN text : text[j].of = l
  BY <1>2, Zenon DEF ChunkProvenanceLines
<1>5. n \in 1 .. Len(c)
  BY <1>1 DEF IsSeq
<1>6. ~IsText(c[n])
  <2> SUFFICES ASSUME IsText(c[n]) PROVE FALSE
    OBVIOUS
  <2>1. c[n].top = None /\ c[n].out = <<>>
    BY DEF IsText, TextChunk, Chunk
  <2>2. text = <<>>
    BY <2>1
  <2> QED
    BY <1>4, <2>2
<1>7. PICK q \in CallsIn(rs) : \E out \in {<<>>, OutputAt(rs, q)} :
        c[n] = ToolCallChunk(SourceOf[s], n - 1, WaitingAt(rs, q), out)
  BY <1>5, <1>6 DEF FromCalls
<1>8. PICK out \in {<<>>, OutputAt(rs, q)} :
        c[n] = ToolCallChunk(SourceOf[s], n - 1, WaitingAt(rs, q), out)
  BY <1>7
<1> DEFINE w == WaitingAt(rs, q)
<1>9. w.call = CallAt(rs, q).call /\ w.at = rs[q[1]].at /\ w.new = CallAt(rs, q).new
  BY DEF WaitingAt, Waiting
<1>10. c[n].out = out /\ c[n].at = w.at /\ c[n].id[3] = w.call /\ c[n].top \in {None, w.new}
  <2>1. c[n].out = out /\ c[n].at = w.at /\ c[n].id[3] = w.call
    BY <1>8, ChunkShape
  <2>2. c[n].top \in {None, w.new}
    BY <1>8 DEF ToolCallChunk, Chunk, NormalizeClaudeToolCall, NormalizeCodexToolCall
  <2> QED
    BY <2>1, <2>2
<1>11. text \in {CallAt(rs, q).new, OutputAt(rs, q)}
  <2>1. text # <<>>
    BY <1>4
  <2> QED
    BY <1>8, <1>9, <1>10, <2>1
<1> QED
  BY <1>1, <1>3, <1>4, <1>9, <1>10, <1>11, Zenon

(***************************************************************************)
(* Whatever refreshes were cut short, a row of line provenance points at   *)
(* the stored chunk it came from, and that is of an edit or an output of   *)
(* the transcript that has the line; the edges of a plan are of one        *)
(* listing (insert_source_session_line_provenance).                        *)
(***************************************************************************)
THEOREM IndexTrue == Spec => []IndexSound
<1>1. MemoryInv => IndexSound
  <2> SUFFICES ASSUME MemoryInv PROVE IndexSound
    OBVIOUS
  <2>1. ASSUME NEW s \in Sessions, NEW p \in db.prov[s]
        PROVE  /\ p.n \in DOMAIN db.chunks[s] /\ db.chunks[s][p.n].at = p.at
               /\ \E q \in CallsOf(s) :
                    LET i == log[s][q[1]].items[q[2]] IN
                    /\ log[s][q[1]].at = p.at /\ i.call = db.chunks[s][p.n].id[3]
                    /\ \E t \in {i.new, OutputOf(s, q[1], i.call)} : \E m \in DOMAIN t : t[m].of = p.line
    <3>1. /\ Recording(s, log[s]) /\ IsSeq(db.chunks[s]) /\ FromCalls(s, log[s], db.chunks[s])
          /\ p \in ProvenanceOf(s, db.chunks[s])
      BY <2>1 DEF MemoryInv, LogInv, DbInv, Stored
    <3>2. /\ p.n \in DOMAIN db.chunks[s] /\ db.chunks[s][p.n].at = p.at
          /\ \E q \in CallsIn(log[s]) :
               /\ log[s][q[1]].at = p.at /\ CallAt(log[s], q).call = db.chunks[s][p.n].id[3]
               /\ \E t \in {CallAt(log[s], q).new, OutputAt(log[s], q)} :
                     \E m \in DOMAIN t : t[m].of = p.line
      BY <3>1, LineOfCall
    <3> QED
      BY <3>2, Zenon DEF CallsOf, CallAt, OutputAt, OutputOf
  <2>2. db.plan \in {{}} \cup {ToSet(p) : p \in PlanFiles}
    BY DEF MemoryInv, PlanInv
  <2> QED
    BY <2>1, <2>2, Zenon DEF IndexSound
<1> QED
  BY <1>1, MemoryInit, MemoryNext, PTL DEF Spec

-----------------------------------------------------------------------------
(* Sets in order. *)

\* R is a strict total order on S.
IsOrder(R, S) ==
    /\ \A x \in S : <<x, x>> \notin R
    /\ \A x, y \in S : x # y => <<x, y>> \in R \/ <<y, x>> \in R
    /\ \A x, y, z \in S : <<x, y>> \in R /\ <<y, z>> \in R => <<x, z>> \in R

Below(R, S, x) == {y \in S : <<y, x>> \in R}

\* Every place of an order is taken.
LEMMA PlaceTaken ==
    ASSUME NEW S, IsFiniteSet(S), NEW R, IsOrder(R, S)
    PROVE  /\ Cardinality(S) \in Nat
           /\ \A k \in 1 .. Cardinality(S) : \E x \in S : Cardinality(Below(R, S, x)) = k - 1
<1> DEFINE n == Cardinality(S)
           r == [x \in S |-> Cardinality(Below(R, S, x))]
<1>1. n \in Nat
  BY FS_CardinalityType
<1>2. ASSUME NEW x \in S
      PROVE  /\ IsFiniteSet(Below(R, S, x)) /\ Cardinality(Below(R, S, x)) \in Nat
             /\ Cardinality(Below(R, S, x)) < n
  <2>1. Below(R, S, x) \subseteq S /\ x \notin Below(R, S, x)
    BY DEF Below, IsOrder
  <2> QED
    BY <2>1, FS_Subset, FS_CardinalityType
<1>3. ASSUME NEW x \in S, NEW y \in S, <<x, y>> \in R
      PROVE  Cardinality(Below(R, S, x)) < Cardinality(Below(R, S, y))
  <2>1. Below(R, S, x) \subseteq Below(R, S, y) /\ x \in Below(R, S, y) /\ x \notin Below(R, S, x)
    BY <1>3 DEF Below, IsOrder
  <2>2. Below(R, S, x) # Below(R, S, y)
    BY <2>1
  <2> QED
    BY <1>2, <2>1, <2>2, FS_Subset
<1>5. r \in [S -> 0 .. (n - 1)]
  BY <1>1, <1>2
<1>6. \A x, y \in S : r[x] = r[y] => x = y
  <2> SUFFICES ASSUME NEW x \in S, NEW y \in S, r[x] = r[y], x # y PROVE FALSE
    OBVIOUS
  <2>1. <<x, y>> \in R \/ <<y, x>> \in R
    BY DEF IsOrder
  <2> QED
    BY <1>2, <1>3, <2>1
<1>7. r \in Injection(S, 0 .. (n - 1))
  <2> HIDE DEF r, n
  <2> QED
    BY <1>5, <1>6, Zenon DEF Injection, IsInjective
<1>8. IsFiniteSet(0 .. (n - 1)) /\ Cardinality(0 .. (n - 1)) = n
  <2> HIDE DEF n
  <2>1. n - 1 \in Int
    BY <1>1
  <2>2. IsFiniteSet(0 .. (n - 1)) /\ Cardinality(0 .. (n - 1)) = IF 0 > n - 1 THEN 0 ELSE (n - 1) - 0 + 1
    BY <2>1, FS_Interval
  <2> QED
    BY <1>1, <2>2
<1>9. r \in Surjection(S, 0 .. (n - 1))
  BY <1>7, <1>8, FS_Injection
<1>10. ASSUME NEW k \in 1 .. n PROVE \E x \in S : Cardinality(Below(R, S, x)) = k - 1
  <2>1. k - 1 \in 0 .. (n - 1)
    BY <1>1
  <2>2. \E x \in S : r[x] = k - 1
    BY <1>9, <2>1 DEF Surjection
  <2> QED
    BY <2>2
<1> QED
  BY <1>1, <1>10

\* f lists S, each member once; so many as S has.
Lists(f, S) ==
    /\ Cardinality(S) \in Nat /\ f \in [1 .. Cardinality(S) -> S]
    /\ \A j, k \in 1 .. Cardinality(S) : f[j] = f[k] => j = k
    /\ S # {} => Cardinality(S) >= 1

\* Sorted, of an order that Less is: B says who is below whom.
Places(f, S, B) ==
    /\ f = [k \in 1 .. Cardinality(S) |-> f[k]]
    /\ \A k \in 1 .. Cardinality(S) :
          (\E x \in S : Cardinality(B[x]) = k - 1) => f[k] \in S /\ Cardinality(B[f[k]]) = k - 1

LEMMA PlacesList ==
    ASSUME NEW S, IsFiniteSet(S), NEW R, IsOrder(R, S), NEW B, \A x \in S : B[x] = Below(R, S, x),
           NEW f, Places(f, S, B)
    PROVE  Lists(f, S)
<1> DEFINE n == Cardinality(S)
<1>1. n \in Nat /\ \A k \in 1 .. n : \E x \in S : Cardinality(Below(R, S, x)) = k - 1
  BY PlaceTaken
<1>2. \A k \in 1 .. n : f[k] \in S /\ Cardinality(B[f[k]]) = k - 1
  <2> TAKE k \in 1 .. n
  <2>1. PICK x \in S : Cardinality(Below(R, S, x)) = k - 1
    BY <1>1
  <2>2. Cardinality(B[x]) = k - 1
    BY <2>1
  <2> QED
    BY <2>2 DEF Places
<1>3. f \in [1 .. n -> S]
  <2>1. f = [k \in 1 .. n |-> f[k]]
    BY DEF Places
  <2> HIDE DEF n
  <2> QED
    BY <1>2, <2>1
<1>4. \A j, k \in 1 .. n : f[j] = f[k] => j = k
  <2> SUFFICES ASSUME NEW j \in 1 .. n, NEW k \in 1 .. n, f[j] = f[k] PROVE j = k
    OBVIOUS
  <2>1. j - 1 = k - 1
    BY <1>2
  <2> QED
    BY <1>1, <2>1
<1>5. S # {} => n >= 1
  <2>1. n = 0 <=> S = {}
    BY FS_EmptySet
  <2> QED
    BY <1>1, <2>1
<1> QED
  BY <1>1, <1>3, <1>4, <1>5 DEF Lists

LEMMA InOrderLists ==
    ASSUME NEW S, IsFiniteSet(S), S \subseteq Int
    PROVE  Lists(InOrder(S), S)
<1> DEFINE R == {p \in S \X S : p[1] < p[2]}
           Less(x) == {y \in S : y < x}
           g(k) == CHOOSE x \in S : Cardinality({y \in S : y < x}) = k - 1
<1>f. PICK f : f = InOrder(S)
  OBVIOUS
<1>b. PICK B : B = [x \in S |-> Less(x)]
  OBVIOUS
<1>1. \A x, y \in S : <<x, y>> \in R <=> x < y
  OBVIOUS
<1>2. IsOrder(R, S)
  BY <1>1 DEF IsOrder
<1>3. \A x \in S : B[x] = Less(x) /\ B[x] = Below(R, S, x)
  BY <1>1, <1>b DEF Below
<1>4. f = [k \in 1 .. Cardinality(S) |-> g(k)]
  BY <1>f, Zenon DEF InOrder, Sorted
<1>5. ASSUME NEW k \in 1 .. Cardinality(S), NEW x \in S, Cardinality(B[x]) = k - 1
      PROVE  f[k] \in S /\ Cardinality(B[f[k]]) = k - 1
  <2>1. Cardinality({y \in S : y < x}) = k - 1
    BY <1>3, <1>5
  <2>2. f[k] = CHOOSE z \in S : Cardinality({y \in S : y < z}) = k - 1
    BY <1>4
  <2>3. f[k] \in S /\ Cardinality({y \in S : y < f[k]}) = k - 1
    BY <2>1, <2>2, Zenon
  <2> QED
    BY <1>3, <2>3
<1>6. Places(f, S, B)
  <2>1. f = [k \in 1 .. Cardinality(S) |-> f[k]]
    <3> HIDE DEF g
    <3> QED
      BY <1>4
  <2> QED
    BY <1>5, <2>1 DEF Places
<1> QED
  <2> HIDE DEF R
  <2> QED
    BY <1>f, <1>2, <1>3, <1>6, PlacesList

\* K gives each member of S a key of its own, n numbers.
Keyed(n, S, K) ==
    /\ n \in Nat /\ \A x \in S : K[x] \in Seq(Int) /\ Len(K[x]) = n
    /\ \A x, y \in S : (\A i \in 1 .. n : K[x][i] = K[y][i]) => x = y
\* R is the order of the keys.
ByKey(R, S, K) == \A x, y \in S : <<x, y>> \in R <=> Before(K[x], K[y])

\* Sequences of numbers, one before the other.
LEMMA BeforeOrders ==
    ASSUME NEW n, NEW S, NEW K, Keyed(n, S, K), NEW R, ByKey(R, S, K)
    PROVE  IsOrder(R, S)
<1> DEFINE Less(x, y, k) == K[x][k] < K[y][k] /\ \A j \in 1 .. (k - 1) : K[x][j] = K[y][j]
<1>0. /\ n \in Nat /\ \A x \in S : K[x] \in Seq(Int) /\ Len(K[x]) = n
      /\ \A x, y \in S : (\A i \in 1 .. n : K[x][i] = K[y][i]) => x = y
  BY Zenon DEF Keyed
<1>1. \A x \in S : DOMAIN K[x] = 1 .. n /\ \A i \in 1 .. n : K[x][i] \in Int
  BY <1>0
<1>2. \A x, y \in S : <<x, y>> \in R <=> Before(K[x], K[y])
  BY DEF ByKey
<1>3. ASSUME NEW x \in S, NEW y \in S PROVE <<x, y>> \in R <=> \E k \in 1 .. n : Less(x, y, k)
  <2>1. Before(K[x], K[y]) <=> \E k \in DOMAIN K[x] : Less(x, y, k)
    BY Zenon DEF Before
  <2> HIDE DEF Less
  <2> QED
    BY <1>1, <1>2, <2>1, Zenon
<1>4. \A x \in S : <<x, x>> \notin R
  BY <1>1, <1>3
<1>5. ASSUME NEW x \in S, NEW y \in S, x # y PROVE <<x, y>> \in R \/ <<y, x>> \in R
  <2> DEFINE D == {i \in 1 .. n : K[x][i] # K[y][i]}
  <2>1. D # {} /\ D \in SUBSET Nat
    BY <1>0, <1>5
  <2>2. PICK k \in D : \A i \in D : k <= i
    BY <2>1, LeastElement
  <2>3. ASSUME NEW j \in 1 .. (k - 1) PROVE K[x][j] = K[y][j]
    <3>1. j \in 1 .. n /\ ~(k <= j)
      BY <1>0
    <3>2. j \notin D
      BY <2>2, <3>1
    <3> QED
      BY <3>1, <3>2
  <2>4. k \in 1 .. n /\ (K[x][k] < K[y][k] \/ K[y][k] < K[x][k])
    BY <1>1, <2>2
  <2> QED
    BY <1>3, <2>3, <2>4
<1>6. ASSUME NEW x \in S, NEW y \in S, NEW z \in S, <<x, y>> \in R, <<y, z>> \in R PROVE <<x, z>> \in R
  <2>1. PICK k \in 1 .. n : Less(x, y, k)
    BY <1>3, <1>6
  <2>2. PICK m \in 1 .. n : Less(y, z, m)
    BY <1>3, <1>6
  <2>3. /\ \A j \in 1 .. n : K[x][j] \in Int /\ K[y][j] \in Int /\ K[z][j] \in Int
    BY <1>1
  <2>4. CASE k <= m
    <3>1. K[x][k] < K[z][k]
      <4>1. k = m \/ k \in 1 .. (m - 1)
        BY <1>0, <2>4
      <4>2. K[y][k] < K[z][k] \/ K[y][k] = K[z][k]
        BY <2>2, <4>1
      <4> QED
        BY <2>1, <2>3, <4>2
    <3>2. \A j \in 1 .. (k - 1) : K[x][j] = K[z][j]
      BY <2>1, <2>2, <2>4
    <3> QED
      BY <1>3, <3>1, <3>2
  <2>5. CASE m < k
    <3>1. K[x][m] < K[z][m]
      BY <2>1, <2>2, <2>3, <2>5
    <3>2. \A j \in 1 .. (m - 1) : K[x][j] = K[z][j]
      BY <2>1, <2>2, <2>5
    <3> QED
      BY <1>3, <3>1, <3>2
  <2> QED
    BY <2>4, <2>5
<1> QED
  BY <1>4, <1>5, <1>6 DEF IsOrder

-----------------------------------------------------------------------------
(* Members of a sequence, picked. *)

\* t has members of s at places of I, each once.
Picked(t, s, I, q) ==
    /\ IsSeq(t) /\ Len(t) \in Nat /\ (I # {} => Len(t) >= 1)
    /\ \A k \in 1 .. Len(t) : q[k] \in I /\ t[k] = s[q[k]]
    /\ \A j, k \in 1 .. Len(t) : q[j] = q[k] => j = k

LEMMA ListPicks ==
    ASSUME NEW s, NEW I, NEW q, Lists(q, I), NEW t, t = [k \in DOMAIN q |-> s[q[k]]]
    PROVE  Picked(t, s, I, q)
<1>n. PICK n : n = Cardinality(I)
  OBVIOUS
<1>1. n \in Nat /\ q \in [1 .. n -> I] /\ \A j, k \in 1 .. n : q[j] = q[k] => j = k
  BY <1>n DEF Lists
<1>2. DOMAIN q = 1 .. n
  BY <1>1
<1>3. t = [k \in 1 .. n |-> s[q[k]]]
  BY <1>2
<1>4. t \in Seq({s[q[k]] : k \in 1 .. n}) /\ Len(t) = n
  BY <1>1, <1>3
<1>5. IsSeq(t)
  BY <1>4 DEF IsSeq
<1>6. \A k \in 1 .. n : q[k] \in I /\ t[k] = s[q[k]]
  BY <1>1, <1>3
<1>7. I # {} => n >= 1
  BY <1>n DEF Lists
<1> QED
  BY <1>1, <1>4, <1>5, <1>6, <1>7 DEF Picked

LEMMA PlacesFinite ==
    ASSUME NEW s, IsSeq(s), NEW I, I \subseteq DOMAIN s
    PROVE  IsFiniteSet(I) /\ I \subseteq Int /\ DOMAIN s = 1 .. Len(s) /\ Len(s) \in Nat
<1>1. DOMAIN s = 1 .. Len(s) /\ Len(s) \in Nat
  BY DEF IsSeq
<1>2. IsFiniteSet(1 .. Len(s))
  BY <1>1, FS_Interval
<1> QED
  BY <1>1, <1>2, FS_Subset

\* The part of s up to a limit.
LEMMA TakeOk ==
    ASSUME NEW s, IsSeq(s), NEW limit \in Nat
    PROVE  /\ IsSeq(Take(s, limit)) /\ Len(Take(s, limit)) \in Nat /\ Len(s) \in Nat
           /\ \A k \in 1 .. Len(Take(s, limit)) : k \in 1 .. Len(s) /\ Take(s, limit)[k] = s[k]
           /\ Len(s) >= 1 => Len(Take(s, limit)) >= 1
<1>m. PICK m : m = IF limit = 0 \/ Len(s) < limit THEN Len(s) ELSE limit
  OBVIOUS
<1>1. PICK S : s \in Seq(S)
  BY DEF IsSeq
<1>2. Len(s) \in Nat /\ m \in 0 .. Len(s) /\ (Len(s) >= 1 => m >= 1)
  BY <1>1, <1>m
<1>3. Take(s, limit) = SubSeq(s, 1, m)
  BY <1>m, Zenon DEF Take
<1>4. SubSeq(s, 1, m) \in Seq(S) /\ Len(SubSeq(s, 1, m)) = m /\ \A k \in 1 .. m : SubSeq(s, 1, m)[k] = s[k]
  BY <1>1, <1>2
<1>t. PICK t : t = Take(s, limit)
  OBVIOUS
<1>5. t \in Seq(S) /\ Len(t) = m /\ \A k \in 1 .. m : t[k] = s[k]
  BY <1>t, <1>3, <1>4
<1>6. IsSeq(t)
  BY <1>5 DEF IsSeq
<1> QED
  BY <1>t, <1>2, <1>5, <1>6

-----------------------------------------------------------------------------
(* Newest first. *)

\* The places of s in that order.
ByTime(s) ==
    Sorted(DOMAIN s, LAMBDA i, j : \/ s[i].at > s[j].at
                                   \/ s[i].at = s[j].at /\ i < j)

LEMMA NewestPicked ==
    ASSUME NEW s, IsSeq(s), \A i \in 1 .. Len(s) : s[i].at \in Int
    PROVE  \E q : Picked(NewerFirst(s), s, DOMAIN s, q)
<1>d. PICK D : D = DOMAIN s
  OBVIOUS
<1> DEFINE Less(i, j) == \/ s[i].at > s[j].at
                         \/ s[i].at = s[j].at /\ i < j
           R == {p \in D \X D : Less(p[1], p[2])}
           LessThan(x) == {y \in D : Less(y, x)}
           g(k) == CHOOSE x \in D : Cardinality({y \in D : Less(y, x)}) = k - 1
<1>q. PICK q : q = [k \in 1 .. Cardinality(D) |-> g(k)]
  OBVIOUS
<1>b. PICK B : B = [x \in D |-> LessThan(x)]
  OBVIOUS
<1>1. IsFiniteSet(D) /\ D \subseteq Int /\ \A x \in D : s[x].at \in Int
  BY <1>d, PlacesFinite
<1>2. \A x, y \in D : <<x, y>> \in R <=> Less(x, y)
  OBVIOUS
<1>3. IsOrder(R, D)
  <2>1. \A x \in D : ~Less(x, x)
    BY <1>1
  <2>2. \A x, y \in D : x # y => Less(x, y) \/ Less(y, x)
    BY <1>1
  <2>3. ASSUME NEW x \in D, NEW y \in D, NEW z \in D, Less(x, y), Less(y, z) PROVE Less(x, z)
    <3>1. /\ x \in Int /\ y \in Int /\ z \in Int
          /\ s[x].at \in Int /\ s[y].at \in Int /\ s[z].at \in Int
      BY <1>1
    <3> QED
      BY <2>3, <3>1
  <2> HIDE DEF R, Less
  <2> QED
    BY <1>2, <2>1, <2>2, <2>3, Zenon DEF IsOrder
<1>4. \A x \in D : B[x] = LessThan(x) /\ B[x] = Below(R, D, x)
  <2>1. \A x \in D : B[x] = LessThan(x)
    BY <1>b
  <2> HIDE DEF R, Less
  <2>2. \A x \in D : LessThan(x) = Below(R, D, x)
    BY <1>2, Zenon DEF Below
  <2> QED
    BY <2>1, <2>2
<1>5. ASSUME NEW k \in 1 .. Cardinality(D), NEW x \in D, Cardinality(B[x]) = k - 1
      PROVE  q[k] \in D /\ Cardinality(B[q[k]]) = k - 1
  <2>1. Cardinality(LessThan(x)) = k - 1
    BY <1>4, <1>5
  <2>2. q[k] = CHOOSE z \in D : Cardinality(LessThan(z)) = k - 1
    BY <1>q
  <2> HIDE DEF LessThan
  <2>3. q[k] \in D /\ Cardinality(LessThan(q[k])) = k - 1
    BY <2>1, <2>2, Zenon
  <2> QED
    BY <1>4, <2>3
<1>6. Places(q, D, B)
  <2>1. q = [k \in 1 .. Cardinality(D) |-> q[k]]
    <3> HIDE DEF g
    <3> QED
      BY <1>q
  <2> QED
    BY <1>5, <2>1 DEF Places
<1>7. Lists(q, D)
  <2> HIDE DEF R
  <2> QED
    BY <1>1, <1>3, <1>4, <1>6, PlacesList
<1>t. PICK t : t = NewerFirst(s)
  OBVIOUS
<1>8. t = [k \in D |-> s[q[k]]]
  <2>1. t = [k \in DOMAIN s |-> s[ByTime(s)[k]]]
    BY <1>t DEF NewerFirst, ByTime
  <2>2. ByTime(s) = [k \in 1 .. Cardinality(DOMAIN s) |->
                       CHOOSE x \in DOMAIN s : Cardinality({y \in DOMAIN s : Less(y, x)}) = k - 1]
    BY DEF ByTime, Sorted
  <2>3. ByTime(s) = q
    BY <1>q, <1>d, <2>2, Zenon
  <2> QED
    BY <1>d, <2>1, <2>3
<1>9. DOMAIN q = D
  <2>1. D = 1 .. Len(s) /\ Len(s) \in Nat
    BY <1>d, PlacesFinite
  <2>2. Cardinality(D) = Len(s)
    BY <2>1, FS_Interval
  <2> HIDE DEF g
  <2> QED
    BY <1>q, <2>1, <2>2
<1>10. t = [k \in DOMAIN q |-> s[q[k]]]
  BY <1>8, <1>9
<1>11. Picked(t, s, D, q)
  BY <1>7, <1>10, ListPicks
<1> QED
  BY <1>d, <1>t, <1>11, Zenon

-----------------------------------------------------------------------------
(* Steps of sessions. *)

RowsOk(rows) ==
    /\ IsSeq(rows) /\ Len(rows) \in Nat
    /\ \A k \in 1 .. Len(rows) : rows[k].session \in Sessions /\ rows[k].at \in Int

\* A session comes once.
StepsOk(steps) ==
    /\ IsSeq(steps) /\ Len(steps) \in Nat
    /\ \A k \in 1 .. Len(steps) : /\ "session" \in DOMAIN steps[k] /\ steps[k].at \in Int
                                  /\ steps[k].session \in Sessions \cup {None}
    /\ \A j, k \in 1 .. Len(steps) :
          j # k => steps[j].session = None \/ steps[j].session # steps[k].session

\* All that is in the steps is of the rows.
StepsOf(steps, rows) ==
    /\ \A k \in 1 .. Len(steps) : \E i \in 1 .. Len(rows) :
          steps[k].session = rows[i].session /\ steps[k].at = rows[i].at
    /\ Len(rows) >= 1 => Len(steps) >= 1

LEMMA NoneApart == None \notin Sessions /\ None \notin Nat /\ Sessions \subseteq Nat /\ IsFiniteSet(Sessions)
<1>1. Sessions \subseteq Nat /\ IsFiniteSet(Sessions) /\ None \notin Int
  BY SessionsAssumption, Zenon
<1>2. None \notin Nat
  BY <1>1
<1> QED
  BY <1>1, <1>2

LEMMA SourceStepsOf ==
    ASSUME NEW rows, RowsOk(rows)
    PROVE  LET more == SourceSessionsToSteps(rows)
           IN StepsOk(more) /\ StepsOf(more, rows) /\ \A k \in 1 .. Len(more) : more[k].session # None
<1>F. PICK F : F = {i \in DOMAIN rows : \A j \in 1 .. (i - 1) : rows[j].session # rows[i].session}
  OBVIOUS
<1>q. PICK q : q = InOrder(F)
  OBVIOUS
<1>m. PICK more : more = SourceSessionsToSteps(rows)
  OBVIOUS
<1>s. PICK s : s = [i \in 1 .. Len(rows) |-> [event |-> 0, session |-> rows[i].session, title |-> None,
                                              at |-> rows[i].at]]
  OBVIOUS
<1>1. IsFiniteSet(F) /\ F \subseteq Int /\ DOMAIN rows = 1 .. Len(rows) /\ F \subseteq 1 .. Len(rows)
  BY <1>F, PlacesFinite DEF RowsOk
<1>2. Lists(q, F)
  BY <1>1, <1>q, InOrderLists
<1>3. \A i \in F : /\ "session" \in DOMAIN s[i]
                   /\ s[i].session = rows[i].session /\ s[i].at = rows[i].at
  BY <1>1, <1>s
<1>4. more = [k \in DOMAIN q |-> s[q[k]]]
  <2>1. more = [k \in DOMAIN q |-> [event |-> 0, session |-> rows[q[k]].session, title |-> None,
                                    at |-> rows[q[k]].at]]
    BY <1>m, <1>q, <1>F, Zenon DEF SourceSessionsToSteps
  <2>2. \A k \in DOMAIN q : q[k] \in 1 .. Len(rows)
    BY <1>1, <1>2 DEF Lists
  <2>3. \A k \in DOMAIN q : s[q[k]] = [event |-> 0, session |-> rows[q[k]].session, title |-> None,
                                      at |-> rows[q[k]].at]
    BY <1>s, <2>2
  <2> QED
    BY <2>1, <2>3
<1>5. Picked(more, s, F, q)
  BY <1>2, <1>4, ListPicks
<1>6. \A k \in 1 .. Len(more) : /\ q[k] \in F /\ q[k] \in 1 .. Len(rows)
                                /\ "session" \in DOMAIN more[k]
                                /\ more[k].session = rows[q[k]].session /\ more[k].at = rows[q[k]].at
  BY <1>1, <1>3, <1>5 DEF Picked
<1>7. Len(rows) >= 1 => F # {}
  <2> SUFFICES ASSUME Len(rows) >= 1 PROVE 1 \in F
    OBVIOUS
  <2>1. 1 \in DOMAIN rows
    BY <1>1 DEF RowsOk
  <2>2. \A j \in 1 .. (1 - 1) : FALSE
    OBVIOUS
  <2> QED
    BY <1>F, <2>1, <2>2
<1>8. IsSeq(more) /\ Len(more) \in Nat /\ (Len(rows) >= 1 => Len(more) >= 1)
  BY <1>5, <1>7 DEF Picked
<1>9. StepsOf(more, rows)
  BY <1>6, <1>8 DEF StepsOf
<1>10. \A i, j \in F : rows[i].session = rows[j].session => i = j
  <2> SUFFICES ASSUME NEW i \in F, NEW j \in F, rows[i].session = rows[j].session, i # j PROVE FALSE
    OBVIOUS
  <2>1. i \in 1 .. Len(rows) /\ j \in 1 .. Len(rows)
    BY <1>1
  <2>2. i \in 1 .. (j - 1) \/ j \in 1 .. (i - 1)
    BY <2>1 DEF RowsOk
  <2> QED
    BY <1>F, <2>2
<1>11. \A j, k \in 1 .. Len(more) : more[j].session = more[k].session => j = k
  BY <1>5, <1>6, <1>10 DEF Picked
<1>12. \A k \in 1 .. Len(more) : /\ "session" \in DOMAIN more[k]
                                 /\ more[k].session \in Sessions /\ more[k].at \in Int
  BY <1>6 DEF RowsOk
<1>13. None \notin Sessions
  BY NoneApart
<1>14. StepsOk(more)
  BY <1>8, <1>11, <1>12 DEF StepsOk
<1> QED
  BY <1>m, <1>9, <1>12, <1>13, <1>14

\* One after the other.
IsConcat(c, s, t) ==
    /\ IsSeq(c) /\ Len(c) = Len(s) + Len(t) /\ Len(s) \in Nat /\ Len(t) \in Nat
    /\ \A i \in 1 .. Len(s) : c[i] = s[i]
    /\ \A i \in 1 .. Len(t) : c[Len(s) + i] = t[i]
    /\ \A i \in 1 .. Len(c) : i \in 1 .. Len(s) \/ i - Len(s) \in 1 .. Len(t)

LEMMA Concatenated ==
    ASSUME NEW s, IsSeq(s), NEW t, IsSeq(t)
    PROVE  IsConcat(s \o t, s, t)
<1>1. PICK S, T : s \in Seq(S) /\ t \in Seq(T)
  BY DEF IsSeq
<1>2. s \in Seq(S \cup T) /\ t \in Seq(S \cup T)
  BY <1>1
<1> DEFINE U == S \cup T
<1> HIDE DEF U
<1>3. s \in Seq(U) /\ t \in Seq(U)
  BY <1>2 DEF U
<1>4. s \o t \in Seq(U) /\ Len(s \o t) = Len(s) + Len(t) /\ Len(s) \in Nat /\ Len(t) \in Nat
  BY <1>3
<1>5. \A i \in 1 .. Len(s) : (s \o t)[i] = s[i]
  BY <1>3
<1>6. \A i \in 1 .. Len(t) : (s \o t)[Len(s) + i] = t[i]
  BY <1>3
<1>7. \A i \in 1 .. Len(s \o t) : i \in 1 .. Len(s) \/ i - Len(s) \in 1 .. Len(t)
  BY <1>4
<1>8. IsSeq(s \o t)
  BY <1>4 DEF IsSeq
<1> QED
  BY <1>4, <1>5, <1>6, <1>7, <1>8, Zenon DEF IsConcat

SessionsLinked(steps) == {steps[i].session : i \in DOMAIN steps} \ {None}

\* Each step of the merged timeline is of a session that was there.
MergedOf(out, steps, rows) ==
    /\ \A k \in 1 .. Len(out) : \/ \E i \in 1 .. Len(steps) : out[k].session = steps[i].session
                                \/ \E i \in 1 .. Len(rows) : out[k].session = rows[i].session
    /\ Len(steps) = 0 /\ Len(rows) >= 1 => Len(out) >= 1

LEMMA MergeOk ==
    ASSUME NEW steps, StepsOk(steps), NEW rows, RowsOk(rows)
    PROVE  LET out == MergeSourceStepsInto(steps, SourceSessionsToSteps(rows))
           IN StepsOk(out) /\ MergedOf(out, steps, rows)
<1>m. PICK more : more = SourceSessionsToSteps(rows)
  OBVIOUS
<1>l. PICK linked : linked = SessionsLinked(steps)
  OBVIOUS
<1>I. PICK I : I = {i \in DOMAIN more : more[i].session \notin linked}
  OBVIOUS
<1>q. PICK q : q = InOrder(I)
  OBVIOUS
<1>e. PICK extra : extra = Select(more, LAMBDA s : s.session \notin linked)
  OBVIOUS
<1>c. PICK c : c = steps \o extra
  OBVIOUS
<1>o. PICK out : out = MergeSourceStepsInto(steps, more)
  OBVIOUS
<1>1. StepsOk(more) /\ StepsOf(more, rows) /\ \A k \in 1 .. Len(more) : more[k].session # None
  BY <1>m, SourceStepsOf
<1>2. IsFiniteSet(I) /\ I \subseteq Int /\ I \subseteq 1 .. Len(more) /\ DOMAIN more = 1 .. Len(more)
  BY <1>1, <1>I, PlacesFinite DEF StepsOk
<1>3. Lists(q, I)
  BY <1>2, <1>q, InOrderLists
<1>4. extra = [k \in DOMAIN q |-> more[q[k]]]
  BY <1>e, <1>q, <1>I, Zenon DEF Select
<1>5. Picked(extra, more, I, q)
  BY <1>3, <1>4, ListPicks
<1>6. \A k \in 1 .. Len(extra) : /\ q[k] \in 1 .. Len(more) /\ extra[k] = more[q[k]]
                                 /\ extra[k].session \notin linked
                                 /\ extra[k].session # None
  BY <1>1, <1>2, <1>5, <1>I DEF Picked
<1>7. \A j, k \in 1 .. Len(extra) : extra[j].session = extra[k].session => j = k
  <2> SUFFICES ASSUME NEW j \in 1 .. Len(extra), NEW k \in 1 .. Len(extra),
                      extra[j].session = extra[k].session
               PROVE  j = k
    OBVIOUS
  <2>1. /\ q[j] \in 1 .. Len(more) /\ q[k] \in 1 .. Len(more)
        /\ more[q[j]].session = more[q[k]].session /\ more[q[j]].session # None
    BY <1>6
  <2>2. \A a, b \in 1 .. Len(more) : a # b => more[a].session = None \/ more[a].session # more[b].session
    BY <1>1, Zenon DEF StepsOk
  <2>3. q[j] = q[k]
    BY <2>1, <2>2
  <2> QED
    BY <1>5, <2>3, Zenon DEF Picked
<1>8. /\ IsSeq(c) /\ Len(c) = Len(steps) + Len(extra) /\ Len(steps) \in Nat /\ Len(extra) \in Nat
      /\ \A i \in 1 .. Len(steps) : c[i] = steps[i]
      /\ \A i \in 1 .. Len(extra) : c[Len(steps) + i] = extra[i]
      /\ \A i \in 1 .. Len(c) : i \in 1 .. Len(steps) \/ i - Len(steps) \in 1 .. Len(extra)
  <2>1. IsSeq(steps) /\ IsSeq(extra)
    BY <1>5 DEF StepsOk, Picked
  <2>2. IsConcat(c, steps, extra)
    BY <1>c, <2>1, Concatenated
  <2> QED
    BY <2>2, Zenon DEF IsConcat
<1>9. ASSUME NEW i \in 1 .. Len(c)
      PROVE  \/ i \in 1 .. Len(steps) /\ c[i] = steps[i]
             \/ \E k \in 1 .. Len(extra) : i = Len(steps) + k /\ c[i] = extra[k]
  <2>1. CASE i \in 1 .. Len(steps)
    BY <1>8, <2>1
  <2>2. CASE i - Len(steps) \in 1 .. Len(extra)
    <3>1. i = Len(steps) + (i - Len(steps))
      BY <1>8
    <3>2. c[i] = extra[i - Len(steps)]
      BY <1>8, <2>2, <3>1
    <3> QED
      BY <2>2, <3>1, <3>2
  <2> QED
    BY <1>8, <2>1, <2>2
<1>10. \A i \in 1 .. Len(c) : /\ "session" \in DOMAIN c[i] /\ c[i].at \in Int
                              /\ c[i].session \in Sessions \cup {None}
  <2> TAKE i \in 1 .. Len(c)
  <2>1. CASE i \in 1 .. Len(steps) /\ c[i] = steps[i]
    BY <2>1 DEF StepsOk
  <2>2. CASE \E k \in 1 .. Len(extra) : i = Len(steps) + k /\ c[i] = extra[k]
    BY <1>1, <1>6, <2>2 DEF StepsOk
  <2> QED
    BY <1>9, <2>1, <2>2
<1>11. \A k \in 1 .. Len(steps) : steps[k].session # None => steps[k].session \in linked
  BY <1>l DEF StepsOk, IsSeq, SessionsLinked
<1>12. ASSUME NEW i \in 1 .. Len(c), NEW j \in 1 .. Len(c), i # j, c[i].session # None
       PROVE  c[i].session # c[j].session
  <2>1. CASE i \in 1 .. Len(steps) /\ c[i] = steps[i]
    <3>1. CASE j \in 1 .. Len(steps) /\ c[j] = steps[j]
      BY <1>12, <2>1, <3>1 DEF StepsOk
    <3>2. CASE \E k \in 1 .. Len(extra) : j = Len(steps) + k /\ c[j] = extra[k]
      BY <1>6, <1>11, <1>12, <2>1, <3>2
    <3> QED
      BY <1>9, <3>1, <3>2
  <2>2. CASE \E k \in 1 .. Len(extra) : i = Len(steps) + k /\ c[i] = extra[k]
    <3>0. PICK k \in 1 .. Len(extra) : i = Len(steps) + k /\ c[i] = extra[k]
      BY <2>2
    <3>1. CASE j \in 1 .. Len(steps) /\ c[j] = steps[j]
      BY <1>6, <1>11, <1>12, <3>0, <3>1
    <3>2. CASE \E m \in 1 .. Len(extra) : j = Len(steps) + m /\ c[j] = extra[m]
      <4>1. PICK m \in 1 .. Len(extra) : j = Len(steps) + m /\ c[j] = extra[m]
        BY <3>2
      <4>2. m # k
        BY <1>12, <3>0, <4>1
      <4> QED
        BY <1>7, <3>0, <4>1, <4>2
    <3> QED
      BY <1>9, <3>1, <3>2
  <2> QED
    BY <1>9, <2>1, <2>2
<1>13. out = NewerFirst(c)
  <2>1. extra = Select(more, LAMBDA s : s.session \notin SessionsLinked(steps))
    BY <1>e, <1>l
  <2> QED
    BY <1>o, <1>c, <2>1, Zenon DEF MergeSourceStepsInto, SessionsLinked
<1>14. PICK p : Picked(out, c, DOMAIN c, p)
  BY <1>8, <1>10, <1>13, NewestPicked
<1>d. DOMAIN c = 1 .. Len(c)
  BY <1>8 DEF IsSeq
<1>15. /\ IsSeq(out) /\ Len(out) \in Nat
       /\ \A k \in 1 .. Len(out) : p[k] \in 1 .. Len(c) /\ out[k] = c[p[k]]
       /\ \A j, k \in 1 .. Len(out) : p[j] = p[k] => j = k
       /\ (Len(c) >= 1 => Len(out) >= 1)
  <2>1. Len(c) >= 1 => DOMAIN c # {}
    BY <1>d, <1>8
  <2> QED
    BY <1>14, <1>d, <2>1 DEF Picked
<1>16. StepsOk(out)
  <2>1. \A k \in 1 .. Len(out) : /\ "session" \in DOMAIN out[k] /\ out[k].at \in Int
                                 /\ out[k].session \in Sessions \cup {None}
    BY <1>10, <1>15
  <2>2. \A j, k \in 1 .. Len(out) : j # k => out[j].session = None \/ out[j].session # out[k].session
    <3> SUFFICES ASSUME NEW j \in 1 .. Len(out), NEW k \in 1 .. Len(out), j # k, out[j].session # None
                 PROVE  out[j].session # out[k].session
      OBVIOUS
    <3>1. /\ p[j] \in 1 .. Len(c) /\ p[k] \in 1 .. Len(c) /\ p[j] # p[k]
          /\ out[j] = c[p[j]] /\ out[k] = c[p[k]]
      BY <1>15
    <3> QED
      BY <1>12, <3>1
  <2> QED
    BY <1>15, <2>1, <2>2 DEF StepsOk
<1>17. ASSUME NEW k \in 1 .. Len(out)
       PROVE  \/ \E i \in 1 .. Len(steps) : out[k].session = steps[i].session
              \/ \E i \in 1 .. Len(rows) : out[k].session = rows[i].session
  <2>0. p[k] \in 1 .. Len(c) /\ out[k] = c[p[k]]
    BY <1>15
  <2>1. CASE p[k] \in 1 .. Len(steps) /\ c[p[k]] = steps[p[k]]
    BY <2>0, <2>1
  <2>2. CASE \E m \in 1 .. Len(extra) : c[p[k]] = extra[m]
    <3>1. PICK m \in 1 .. Len(extra) : out[k] = extra[m]
      BY <2>0, <2>2
    <3>2. q[m] \in 1 .. Len(more) /\ out[k] = more[q[m]]
      BY <1>6, <3>1
    <3> QED
      BY <1>1, <3>2 DEF StepsOf
  <2> QED
    BY <1>9, <2>0, <2>1, <2>2
<1>18. Len(steps) = 0 /\ Len(rows) >= 1 => Len(out) >= 1
  <2> SUFFICES ASSUME Len(steps) = 0, Len(rows) >= 1 PROVE Len(out) >= 1
    OBVIOUS
  <2>1. linked = {}
    <3>1. DOMAIN steps = {}
      <4>1. DOMAIN steps = 1 .. Len(steps)
        BY DEF StepsOk, IsSeq
      <4> QED
        BY <4>1
    <3> QED
      BY <1>l, <3>1 DEF SessionsLinked
  <2>2. 1 \in I
    BY <1>1, <1>2, <1>I, <2>1 DEF StepsOf, StepsOk
  <2>3. Len(extra) >= 1
    BY <1>5, <2>2 DEF Picked
  <2> QED
    BY <1>8, <1>15, <2>3
<1>19. MergedOf(out, steps, rows)
  BY <1>17, <1>18, Zenon DEF MergedOf
<1> QED
  BY <1>m, <1>o, <1>16, <1>19

-----------------------------------------------------------------------------
(* Calls and their texts, and the chunks made of them. *)

LEMMA ImageFinite ==
    ASSUME NEW S, IsFiniteSet(S), NEW f
    PROVE  IsFiniteSet({f[x] : x \in S})
<1> DEFINE T == {f[x] : x \in S}
           g == [x \in S |-> f[x]]
<1>1. g \in Surjection(S, T)
  BY DEF Surjection
<1> HIDE DEF g, T
<1> QED
  BY <1>1, FS_Surjection DEF T

LEMMA ItemTexts ==
    ASSUME NEW s \in Sessions, NEW r, Recorded(s, r), NEW j \in 1 .. Len(r.items)
    PROVE  /\ IsLines(r.items[j].old) /\ IsLines(r.items[j].new) /\ IsLines(r.items[j].out)
           /\ r.items[j].new # None
<1>1. PICK q \in Records[s] : r.items = q.items
  BY DEF Recorded
<1>2. j \in DOMAIN q.items
  BY <1>1, RecordShape
<1>3. \A t \in {q.items[j].old, q.items[j].new, q.items[j].out} :
         t # None /\ IsLines(t)
  BY <1>2, TextsAssumption, Zenon
<1> QED
  BY <1>1, <1>3, Zenon

LEMMA CallTexts ==
    ASSUME NEW s \in Sessions, NEW rs, Recording(s, rs), NEW q \in CallsIn(rs)
    PROVE  /\ IsLines(CallAt(rs, q).old) /\ IsLines(CallAt(rs, q).new) /\ IsLines(OutputAt(rs, q))
           /\ CallAt(rs, q).new # None
<1>1. q[1] \in 1 .. Len(rs) /\ q[2] \in 1 .. Len(rs[q[1]].items)
  BY CallKnown
<1>2. Recorded(s, rs[q[1]])
  BY <1>1 DEF Recording
<1>3. /\ IsLines(CallAt(rs, q).old) /\ IsLines(CallAt(rs, q).new) /\ CallAt(rs, q).new # None
  BY <1>1, <1>2, ItemTexts, Zenon DEF CallAt
<1> DEFINE R == ResultsAt(rs, q)
<1>4. CASE R = {}
  <2>1. OutputAt(rs, q) = <<>>
    BY <1>4, Zenon DEF ResultsAt, OutputAt, OutputIn
  <2>2. IsLines(<<>>)
    BY DEF IsLines
  <2> QED
    BY <1>3, <2>1, <2>2
<1>5. CASE R # {}
  <2>l. Len(rs) \in Nat
    BY SeqLength DEF Recording
  <2>1. R = {n \in q[1] .. Len(rs) : LET f == ClaudeToolResult(rs[n].items)
                                     IN f # 0 /\ rs[n].items[f].call = CallAt(rs, q).call}
    BY DEF ResultsAt, ResultsFor
  <2> HIDE DEF R
  <2>2. R \in SUBSET Nat
    BY <1>1, <2>1
  <2>r. \A m \in R : m \in 1 .. Len(rs) /\ ClaudeToolResult(rs[m].items) # 0
    <3> TAKE m \in R
    <3>1. m \in q[1] .. Len(rs) /\ ClaudeToolResult(rs[m].items) # 0
      BY <2>1, Zenon
    <3> QED
      BY <1>1, <2>l, <3>1
  <2>3. Min(R) \in R
    BY <1>5, <2>2, LeastElement, Zenon DEF Min
  <2>n. PICK n : n = Min(R)
    OBVIOUS
  <2>4. n \in 1 .. Len(rs) /\ ClaudeToolResult(rs[n].items) # 0
    BY <2>r, <2>3, <2>n
  <2>5. Recorded(s, rs[n]) /\ Len(rs[n].items) \in Nat
    BY <2>4, RecordShape DEF Recording
  <2>f. PICK f : f = ClaudeToolResult(rs[n].items)
    OBVIOUS
  <2>6. f \in 1 .. Len(rs[n].items)
    BY <2>4, <2>5, <2>f, FirstResult
  <2>7. OutputAt(rs, q) = rs[n].items[f].out
    <3>1. ResultsFor(rs, q[1], CallAt(rs, q).call) = R
      BY DEF R, ResultsAt
    <3> QED
      BY <1>5, <2>n, <2>f, <3>1, Zenon DEF OutputAt, OutputIn
  <2>8. IsLines(OutputAt(rs, q))
    BY <2>5, <2>6, <2>7, ItemTexts, Zenon
  <2> QED
    BY <1>3, <2>8
<1> QED
  BY <1>4, <1>5

\* x is a chunk of the call i, with that output.
OfCall(source, x, i, out) ==
    /\ x.kind = "tool_call" /\ x.id[3] = i.call /\ x.out = out /\ x.top \in {None, i.new}
    /\ x.nested \in {<<>>, <<i.old, i.new>>}
    /\ source = "claude_code" /\ i.tool = "Edit" =>
         /\ x.function = "edit_file_by_replace" /\ x.top = None /\ x.nested = <<i.old, i.new>>
    /\ source = "codex_app" /\ i.tool = "apply_patch" =>
         x.function = "edit_file_by_replace" /\ x.top = i.new

LEMMA CallChunk ==
    ASSUME NEW source, NEW n, NEW i, NEW at, NEW out
    PROVE  /\ OfCall(source, ToolCallChunk(source, n, Waiting(i, at), out), i, out)
           /\ ToolCallChunk(source, n, Waiting(i, at), out).at = at
<1>w. PICK w : w = Waiting(i, at)
  OBVIOUS
<1>1. w.call = i.call /\ w.tool = i.tool /\ w.old = i.old /\ w.new = i.new /\ w.at = at
  BY <1>w DEF Waiting
<1>a. PICK a : a = IF source = "claude_code" THEN NormalizeClaudeToolCall(w) ELSE NormalizeCodexToolCall(w)
  OBVIOUS
<1>2. /\ a.top \in {None, i.new} /\ a.nested \in {<<>>, <<i.old, i.new>>}
      /\ source = "claude_code" /\ i.tool = "Edit" =>
           a.fn = "edit_file_by_replace" /\ a.top = None /\ a.nested = <<i.old, i.new>>
      /\ source = "codex_app" /\ i.tool = "apply_patch" => a.fn = "edit_file_by_replace" /\ a.top = i.new
  <2>1. CASE source = "claude_code"
    <3>1. a = NormalizeClaudeToolCall(w)
      BY <1>a, <2>1
    <3>2. CASE w.tool = "Bash"
      BY <1>1, <2>1, <3>1, <3>2 DEF NormalizeClaudeToolCall
    <3>3. CASE w.tool \in {"Edit", "MultiEdit", "Write"}
      BY <1>1, <2>1, <3>1, <3>3 DEF NormalizeClaudeToolCall
    <3>4. CASE w.tool \notin {"Bash", "Edit", "MultiEdit", "Write"}
      BY <1>1, <2>1, <3>1, <3>4 DEF NormalizeClaudeToolCall
    <3> QED
      BY <3>2, <3>3, <3>4
  <2>2. CASE source # "claude_code"
    <3>1. a = NormalizeCodexToolCall(w)
      BY <1>a, <2>2
    <3>2. CASE w.tool = "shell"
      BY <1>1, <2>2, <3>1, <3>2 DEF NormalizeCodexToolCall
    <3>3. CASE w.tool = "apply_patch"
      BY <1>1, <2>2, <3>1, <3>3 DEF NormalizeCodexToolCall
    <3>4. CASE w.tool \notin {"shell", "apply_patch"}
      BY <1>1, <2>2, <3>1, <3>4 DEF NormalizeCodexToolCall
    <3> QED
      BY <3>2, <3>3, <3>4
  <2> QED
    BY <2>1, <2>2
<1>x. PICK x : x = ToolCallChunk(source, n, w, out)
  OBVIOUS
<1>3. /\ x.kind = "tool_call" /\ x.id[3] = w.call /\ x.out = out /\ x.top = a.top /\ x.nested = a.nested
      /\ x.function = a.fn /\ x.at = w.at
  BY <1>x, <1>a DEF ToolCallChunk, Chunk
<1> QED
  BY <1>w, <1>x, <1>1, <1>2, <1>3 DEF OfCall

\* A tool call's chunk among those stored.
LEMMA ToolChunk ==
    ASSUME NEW s \in Sessions, NEW rs, Recording(s, rs), NEW c, FromCalls(s, rs, c), NEW n \in 1 .. Len(c),
           c[n].kind = "tool_call"
    PROVE  \E q \in CallsIn(rs) : \E out \in {<<>>, OutputAt(rs, q)} :
              /\ OfCall(SourceOf[s], c[n], CallAt(rs, q), out)
              /\ c[n].at = rs[q[1]].at /\ q[1] \in 1 .. Len(rs)
<1>1. ~IsText(c[n])
  BY DEF IsText, TextChunk, Chunk
<1>2. PICK q \in CallsIn(rs) : \E out \in {<<>>, OutputAt(rs, q)} :
        c[n] = ToolCallChunk(SourceOf[s], n - 1, WaitingAt(rs, q), out)
  BY <1>1, Zenon DEF FromCalls
<1>3. PICK out \in {<<>>, OutputAt(rs, q)} :
        c[n] = ToolCallChunk(SourceOf[s], n - 1, WaitingAt(rs, q), out)
  BY <1>2
<1>4. OfCall(SourceOf[s], c[n], CallAt(rs, q), out) /\ c[n].at = rs[q[1]].at
  <2>1. PICK source, k, i, at :
          source = SourceOf[s] /\ k = n - 1 /\ i = CallAt(rs, q) /\ at = rs[q[1]].at
    OBVIOUS
  <2>2. c[n] = ToolCallChunk(source, k, Waiting(i, at), out)
    BY <1>3, <2>1 DEF WaitingAt
  <2>3. OfCall(source, c[n], i, out) /\ c[n].at = at
    BY <2>2, CallChunk
  <2> QED
    BY <2>1, <2>3
<1>5. q[1] \in 1 .. Len(rs)
  BY CallKnown
<1> QED
  BY <1>4, <1>5

-----------------------------------------------------------------------------
(* Evidence of a text. *)

\* An edit or an output of the transcript has one of the lines.
HasLine(rs, lines) ==
    \E q \in CallsIn(rs) : \E t \in {CallAt(rs, q).old, CallAt(rs, q).new, OutputAt(rs, q)} :
        \E m \in DOMAIN t : t[m].of \in lines

LEMMA HasLineNext ==
    ASSUME NEW s \in Sessions, NEW rs, NEW r, IsSeq(rs), Recording(s, Append(rs, r)),
           NEW lines, HasLine(rs, lines)
    PROVE  HasLine(Append(rs, r), lines)
<1> DEFINE ts == Append(rs, r)
<1>1. PICK q \in CallsIn(rs) : \E t \in {CallAt(rs, q).old, CallAt(rs, q).new, OutputAt(rs, q)} :
        \E m \in DOMAIN t : t[m].of \in lines
  BY DEF HasLine
<1>2. PICK t \in {CallAt(rs, q).old, CallAt(rs, q).new, OutputAt(rs, q)} : \E m \in DOMAIN t : t[m].of \in lines
  BY <1>1
<1>3. q \in CallsIn(ts) /\ q[1] \in 1 .. (Len(rs) + 1) /\ CallAt(ts, q) = CallAt(rs, q)
  BY CallsNext
<1>4. ResultsAt(rs, q) # {} => OutputAt(ts, q) = OutputAt(rs, q)
  BY <1>3, ResultsAtNext
<1>5. ResultsAt(rs, q) = {} => OutputAt(rs, q) = <<>>
  BY Zenon DEF ResultsAt, OutputAt, OutputIn
<1>6. t # <<>>
  BY <1>2
<1>7. t \in {CallAt(ts, q).old, CallAt(ts, q).new, OutputAt(ts, q)}
  BY <1>2, <1>3, <1>4, <1>5, <1>6
<1> QED
  BY <1>2, <1>3, <1>7, Zenon DEF HasLine

\* A string that shows a text has a line of it.
LEMMA EvidenceHasLine ==
    ASSUME NEW string, IsLines(string), NEW text, IsLines(text), text # <<>>, TextEvidence(string, text)
    PROVE  \E m \in DOMAIN string : string[m].of \in ToSet(text)
<1>s. PICK selected : selected = {k \in DOMAIN text : text[k] \notin ShortLines}
  OBVIOUS
<1>m. PICK matched : matched = {k \in selected : \E i \in DOMAIN string : string[i].of = text[k]}
  OBVIOUS
<1>1. ContainsText(string, text) \/ EnoughLineOverlap(Cardinality(matched), Cardinality(selected))
  BY <1>s, <1>m, Zenon DEF TextEvidence
<1>t. \A k \in DOMAIN text : text[k] \in ToSet(text)
  BY DEF ToSet
<1>2. CASE ContainsText(string, text)
  <2>0. Len(text) >= 1 /\ 1 \in DOMAIN text
    <3>1. Len(text) # 0
      <4>1. Len(text) = 0 => text = <<>>
        BY DEF IsLines
      <4> QED
        BY <4>1
    <3> QED
      BY <3>1 DEF IsLines
  <2>1. PICK i \in 0 .. (Len(string) - Len(text)) : \A k \in DOMAIN text :
           string[i + k].of = text[k] /\ (k > 1 => string[i + k].mark = "")
    BY <1>2 DEF ContainsText
  <2>2. string[i + 1].of = text[1]
    BY <2>0, <2>1
  <2>3. i + 1 \in DOMAIN string
    BY <2>0 DEF IsLines
  <2> QED
    BY <1>t, <2>0, <2>2, <2>3
<1>3. CASE EnoughLineOverlap(Cardinality(matched), Cardinality(selected))
  <2>1. Cardinality(matched) >= 2
    BY <1>3 DEF EnoughLineOverlap
  <2>2. matched # {}
    BY <2>1, FS_EmptySet
  <2>3. PICK k \in selected : \E i \in DOMAIN string : string[i].of = text[k]
    BY <1>m, <2>2
  <2> QED
    BY <1>s, <1>t, <2>3
<1> QED
  BY <1>1, <1>2, <1>3

\* A string with all the lines, none of them short, shows them.
LEMMA AllLinesShow ==
    ASSUME NEW string, IsLines(string), NEW text, IsLines(text), text # <<>>,
           ToSet(text) \cap ShortLines = {},
           \A m \in DOMAIN text : \E n \in DOMAIN string : string[n].of = text[m]
    PROVE  TextEvidence(string, text)
<1>n. PICK n : n = Len(text)
  OBVIOUS
<1>1. n \in Nat /\ DOMAIN text = 1 .. n /\ n # 0
  <2>1. Len(text) = 0 => text = <<>>
    BY DEF IsLines
  <2> QED
    BY <1>n, <2>1 DEF IsLines
<1>s. PICK selected : selected = {k \in DOMAIN text : text[k] \notin ShortLines}
  OBVIOUS
<1>m. PICK matched : matched = {k \in selected : \E i \in DOMAIN string : string[i].of = text[k]}
  OBVIOUS
<1>2. selected = 1 .. n
  <2>1. \A k \in DOMAIN text : text[k] \in ToSet(text)
    BY DEF ToSet
  <2> QED
    BY <1>1, <1>s, <2>1
<1>3. matched = 1 .. n
  BY <1>1, <1>2, <1>m
<1>4. Cardinality(1 .. n) = n
  BY <1>1, FS_Interval
<1>5. CASE n = 1
  <2>1. PICK k \in DOMAIN string : string[k].of = text[1]
    BY <1>1
  <2>2. k - 1 \in 0 .. (Len(string) - Len(text))
    BY <1>n, <1>5, <2>1 DEF IsLines
  <2>3. k \in Int /\ (k - 1) + 1 = k /\ DOMAIN text = {1}
    <3>1. k \in Int
      BY DEF IsLines
    <3>2. DOMAIN text = 1 .. 1
      BY <1>1, <1>5
    <3>3. 1 .. 1 = {1}
      OBVIOUS
    <3> QED
      BY <3>1, <3>2, <3>3
  <2>4. ASSUME NEW m \in DOMAIN text
        PROVE  string[(k - 1) + m].of = text[m] /\ (m > 1 => string[(k - 1) + m].mark = "")
    <3>1. m = 1
      BY <2>3
    <3> QED
      BY <2>1, <2>3, <3>1
  <2>5. ContainsText(string, text)
    BY <2>2, <2>4 DEF ContainsText
  <2> QED
    BY <2>5 DEF TextEvidence
<1>6. CASE n >= 2
  <2>1. EnoughLineOverlap(Cardinality(matched), Cardinality(selected))
    BY <1>1, <1>2, <1>3, <1>4, <1>6 DEF EnoughLineOverlap
  <2> QED
    BY <1>s, <1>m, <2>1, Zenon DEF TextEvidence
<1> QED
  BY <1>1, <1>5, <1>6

LEMMA HunkKinds == "exact_edit_hunk" # None /\ "exact_diff_hunk" # None
<1>1. None \notin {"exact_edit_hunk", "exact_diff_hunk"}
  BY SessionsAssumption, Zenon
<1> QED
  BY <1>1

\* A chunk that shows the text is of a call that has a line of it.
LEMMA ChunkEvident ==
    ASSUME NEW s \in Sessions, NEW rs, Recording(s, rs), NEW c, FromCalls(s, rs, c), NEW n \in 1 .. Len(c),
           c[n].kind = "tool_call", NEW text, IsLines(text), text # <<>>,
           ChunkTextEvidence(c[n], text) # None
    PROVE  HasLine(rs, ToSet(text))
<1>x. PICK x : x = c[n]
  OBVIOUS
<1>1. PICK q \in CallsIn(rs) : \E out \in {<<>>, OutputAt(rs, q)} : OfCall(SourceOf[s], x, CallAt(rs, q), out)
  BY <1>x, ToolChunk
<1>2. PICK out \in {<<>>, OutputAt(rs, q)} : OfCall(SourceOf[s], x, CallAt(rs, q), out)
  BY <1>1
<1>i. PICK i : i = CallAt(rs, q)
  OBVIOUS
<1>3. /\ IsLines(i.old) /\ IsLines(i.new) /\ IsLines(OutputAt(rs, q)) /\ IsLines(<<>>)
  <2>1. IsLines(<<>>)
    BY DEF IsLines
  <2> QED
    BY <1>i, <2>1, CallTexts
<1>a. PICK args : args = IF x.top = None THEN {} ELSE {x.top}
  OBVIOUS
<1>4. \E t \in args \cup {x.out} \cup ToSet(x.nested) : TextEvidence(t, text)
  <2>1. ChunkTextEvidence(x, text) =
          IF \E t \in args : TextEvidence(t, text) THEN "exact_edit_hunk"
          ELSE IF \E t \in args \cup {x.out} \cup ToSet(x.nested) : TextEvidence(t, text)
          THEN "exact_diff_hunk" ELSE None
    BY <1>a, Zenon DEF ChunkTextEvidence
  <2> QED
    BY <1>x, <2>1
<1>5. PICK t \in args \cup {x.out} \cup ToSet(x.nested) : TextEvidence(t, text)
  BY <1>4
<1>6. t \in {<<>>, i.old, i.new, OutputAt(rs, q)}
  <2>1. args \subseteq {i.new} /\ x.out \in {<<>>, OutputAt(rs, q)} /\ x.nested \in {<<>>, <<i.old, i.new>>}
    BY <1>2, <1>i, <1>a DEF OfCall
  <2>2. ToSet(<<>>) = {} /\ ToSet(<<i.old, i.new>>) = {i.old, i.new}
    BY DEF ToSet
  <2> QED
    BY <1>5, <2>1, <2>2
<1>7. IsLines(t)
  BY <1>3, <1>6
<1>8. PICK m \in DOMAIN t : t[m].of \in ToSet(text)
  BY <1>5, <1>7, EvidenceHasLine
<1>9. t # <<>>
  BY <1>8
<1>10. t \in {CallAt(rs, q).old, CallAt(rs, q).new, OutputAt(rs, q)}
  BY <1>6, <1>9, <1>i
<1> QED
  BY <1>8, <1>10, Zenon DEF HasLine

\* The chunk of an edit that wrote the text shows it.
LEMMA EditEvident ==
    ASSUME NEW source, NEW x, NEW i, NEW out, OfCall(source, x, i, out),
           \/ source = "claude_code" /\ i.tool = "Edit"
           \/ source = "codex_app" /\ i.tool = "apply_patch",
           IsLines(i.new), i.new # None,
           NEW text, IsLines(text), text # <<>>, ToSet(text) \cap ShortLines = {},
           \A m \in DOMAIN text : \E n \in DOMAIN i.new : i.new[n].of = text[m]
    PROVE  IsFileMutationTool(x.function) /\ ChunkTextEvidence(x, text) # None
<1>1. TextEvidence(i.new, text)
  BY AllLinesShow
<1>2. x.function = "edit_file_by_replace"
  BY DEF OfCall
<1>a. PICK args : args = IF x.top = None THEN {} ELSE {x.top}
  OBVIOUS
<1>3. i.new \in args \cup {x.out} \cup ToSet(x.nested)
  <2>1. CASE source = "claude_code" /\ i.tool = "Edit"
    <3>1. x.nested = <<i.old, i.new>>
      BY <2>1 DEF OfCall
    <3>2. ToSet(<<i.old, i.new>>) = {i.old, i.new}
      BY DEF ToSet
    <3> QED
      BY <3>1, <3>2
  <2>2. CASE source = "codex_app" /\ i.tool = "apply_patch"
    BY <1>a, <2>2 DEF OfCall
  <2> QED
    BY <2>1, <2>2
<1>4. ChunkTextEvidence(x, text) \in {"exact_edit_hunk", "exact_diff_hunk"}
  <2>1. ChunkTextEvidence(x, text) =
          IF \E t \in args : TextEvidence(t, text) THEN "exact_edit_hunk"
          ELSE IF \E t \in args \cup {x.out} \cup ToSet(x.nested) : TextEvidence(t, text)
          THEN "exact_diff_hunk" ELSE None
    BY <1>a, Zenon DEF ChunkTextEvidence
  <2> QED
    BY <1>1, <1>3, <2>1
<1>5. IsFileMutationTool("edit_file_by_replace")
  BY DEF IsFileMutationTool
<1> QED
  BY <1>2, <1>4, <1>5, HunkKinds

Shows(c, n, text) ==
    /\ n \in 1 .. Len(c) /\ c[n].kind = "tool_call" /\ IsFileMutationTool(c[n].function)
    /\ ChunkTextEvidence(c[n], text) # None

\* A chunk that shows the text is found if there is one.
LEMMA TextMatchOk ==
    ASSUME NEW c, IsSeq(c), NEW text
    PROVE  LET m == TextMatchChunk(c, text) IN
           /\ m # None => Shows(c, m, text)
           /\ (\E n : Shows(c, n, text)) => m # None
<1>h. PICK hits : hits = {n \in DOMAIN c : /\ c[n].kind = "tool_call" /\ IsFileMutationTool(c[n].function)
                                           /\ ChunkTextEvidence(c[n], text) # None}
  OBVIOUS
<1> DEFINE Key(n) == <<ProvenanceRank(ChunkTextEvidence(c[n], text)), -n>>
           R == {p \in hits \X hits : Before(Key(p[1]), Key(p[2]))}
<1>m. PICK m : m = TextMatchChunk(c, text)
  OBVIOUS
<1>1. IsFiniteSet(hits) /\ hits \subseteq Int /\ DOMAIN c = 1 .. Len(c) /\ Len(c) \in Nat
  BY <1>h, PlacesFinite
<1>2. \A n : n \in hits <=> Shows(c, n, text)
  BY <1>h, <1>1, Zenon DEF Shows
<1>K. PICK K : K = [n \in hits |-> Key(n)]
  OBVIOUS
<1>3. \A n \in hits : K[n] = Key(n)
  BY <1>K
<1>4. \A n \in hits : K[n] \in Seq(Int) /\ Len(K[n]) = 2 /\ K[n][2] = -n
  <2> TAKE n \in hits
  <2>1. -n \in Int
    BY <1>1
  <2>2. PICK k : k = ProvenanceRank(ChunkTextEvidence(c[n], text))
    OBVIOUS
  <2>3. k \in Int
    BY <2>2 DEF ProvenanceRank
  <2>4. K[n] = <<k, -n>>
    BY <1>3, <2>2
  <2> QED
    BY <2>1, <2>3, <2>4
<1>5. \A x, y \in hits : (\A i \in 1 .. 2 : K[x][i] = K[y][i]) => x = y
  <2> SUFFICES ASSUME NEW x \in hits, NEW y \in hits, \A i \in 1 .. 2 : K[x][i] = K[y][i] PROVE x = y
    OBVIOUS
  <2>1. K[x][2] = K[y][2]
    OBVIOUS
  <2>2. x \in Int /\ y \in Int
    BY <1>1
  <2> QED
    BY <1>4, <2>1, <2>2
<1>r. PICK P : P = {p \in hits \X hits : Before(K[p[1]], K[p[2]])}
  OBVIOUS
<1>p. IsOrder(P, hits)
  <2> HIDE DEF Key, R
  <2>1. Keyed(2, hits, K)
    BY <1>4, <1>5 DEF Keyed
  <2>2. ByKey(P, hits, K)
    BY <1>r DEF ByKey
  <2> QED
    BY <2>1, <2>2, BeforeOrders, Zenon
<1>7. ASSUME hits # {} PROVE \E n \in hits : \A k \in hits : ~Before(Key(k), Key(n))
  <2>1. /\ Cardinality(hits) \in Nat
        /\ \A k \in 1 .. Cardinality(hits) : \E x \in hits : Cardinality(Below(P, hits, x)) = k - 1
    <3> HIDE DEF Key, R
    <3> QED
      BY <1>1, <1>p, PlaceTaken
  <2>2. Cardinality(hits) # 0
    BY <1>1, <1>7, FS_EmptySet
  <2>3. 1 \in 1 .. Cardinality(hits)
    BY <2>1, <2>2
  <2>4. PICK n \in hits : Cardinality(Below(P, hits, n)) = 1 - 1
    BY <2>1, <2>3
  <2>5. Below(P, hits, n) = {}
    <3>1. IsFiniteSet(Below(P, hits, n))
      <4>1. Below(P, hits, n) \subseteq hits
        BY DEF Below
      <4> QED
        BY <1>1, <4>1, FS_Subset
    <3> QED
      BY <2>4, <3>1, FS_EmptySet
  <2>6. ASSUME NEW k \in hits, Before(Key(k), Key(n)) PROVE FALSE
    <3> HIDE DEF Key
    <3>1. <<k, n>> \in P
      BY <1>r, <1>3, <2>6
    <3> QED
      BY <2>5, <3>1 DEF Below
  <2> QED
    BY <2>6
<1>8. m = IF hits = {} THEN None ELSE CHOOSE n \in hits : \A k \in hits : ~Before(Key(k), Key(n))
  <2> HIDE DEF R
  <2> QED
    BY <1>m, <1>h DEF TextMatchChunk
<1>9. hits # {} => m \in hits
  <2> HIDE DEF Key
  <2> QED
    BY <1>7, <1>8, Zenon
<1>10. None \notin hits
  BY <1>1, SessionsAssumption, Zenon
<1>11. /\ m # None => Shows(c, m, text)
       /\ (\E n : Shows(c, n, text)) => m # None
  BY <1>2, <1>8, <1>9, <1>10, Zenon
<1> QED
  BY <1>m, <1>11

-----------------------------------------------------------------------------
(* What the queries answer. *)

TimeInv == \A s \in Sessions : \A k \in 1 .. Len(log[s]) : log[s][k].at \in Nat

\* The row was read from the first records, as many as its version says.
RowOk(s, row, rs) ==
    /\ row = [touched |-> row.touched, updated |-> row.updated, version |-> row.version]
    /\ row.touched \in SUBSET Touchable /\ row.updated \in Nat /\ row.version \in 0 .. Len(rs)
    /\ \A k \in 1 .. row.version : \A j \in DOMAIN rs[k].items :
          ItemTouches(SourceOf[s], rs[k].items[j]) \subseteq row.touched
RowsInv ==
    /\ db.row = [s \in Sessions |-> db.row[s]]
    /\ \A s \in Sessions : db.row[s] # None => RowOk(s, db.row[s], log[s])

\* Rows about sessions that have one of the lines.
Evident(rows, lines) ==
    RowsOk(rows) /\ \A k \in 1 .. Len(rows) : HasLine(log[rows[k].session], lines)

LEMMA RowsTaken ==
    ASSUME NEW H, NEW q, Lists(q, H), NEW b,
           \A h \in H : b[h].session \in Sessions /\ b[h].at \in Int,
           NEW rows, rows = [k \in DOMAIN q |-> b[q[k]]], NEW limit \in Nat
    PROVE  /\ RowsOk(Take(rows, limit)) /\ (H # {} => Len(Take(rows, limit)) >= 1)
           /\ \A k \in 1 .. Len(Take(rows, limit)) : \E h \in H : Take(rows, limit)[k] = b[h]
<1>1. Picked(rows, b, H, q)
  BY ListPicks
<1>2. IsSeq(rows) /\ (H # {} => Len(rows) >= 1) /\ \A k \in 1 .. Len(rows) : q[k] \in H /\ rows[k] = b[q[k]]
  BY <1>1 DEF Picked
<1>t. PICK t : t = Take(rows, limit)
  OBVIOUS
<1>3. /\ IsSeq(t) /\ Len(t) \in Nat
      /\ \A k \in 1 .. Len(t) : k \in 1 .. Len(rows) /\ t[k] = rows[k]
      /\ Len(rows) >= 1 => Len(t) >= 1
  BY <1>2, <1>t, TakeOk
<1>4. \A k \in 1 .. Len(t) : q[k] \in H /\ t[k] = b[q[k]]
  BY <1>2, <1>3
<1>5. RowsOk(t)
  BY <1>3, <1>4 DEF RowsOk
<1> QED
  BY <1>t, <1>2, <1>3, <1>4, <1>5

LEMMA ProvenanceRow ==
    ASSUME NEW s, NEW c, NEW p \in ProvenanceOf(s, c)
    PROVE  p = [path |-> ChunkFilePath(s, c[p.n]), line |-> p.line, n |-> p.n, at |-> c[p.n].at,
                kind |-> IF c[p.n].top # None THEN "exact_edit_hunk" ELSE "exact_diff_hunk"]
<1> DEFINE Row(n, l) ==
             [path |-> ChunkFilePath(s, c[n]), line |-> l, n |-> n, at |-> c[n].at,
              kind |-> IF c[n].top # None THEN "exact_edit_hunk" ELSE "exact_diff_hunk"]
<1>1. PICK n \in DOMAIN c : \E l \in ChunkProvenanceLines(c[n]) : p = Row(n, l)
  BY Zenon DEF ProvenanceOf
<1>2. PICK l \in ChunkProvenanceLines(c[n]) : p = Row(n, l)
  BY <1>1
<1>3. p.n = n /\ p.line = l
  BY <1>2
<1> QED
  BY <1>2, <1>3

KeyedBelow(S, K, B) == \A x \in S : B[x] = {y \in S : Before(K[y], K[x])}

LEMMA KeyOrder ==
    ASSUME NEW n, NEW S, NEW K, Keyed(n, S, K), NEW R, R = {p \in S \X S : Before(K[p[1]], K[p[2]])}
    PROVE  IsOrder(R, S)
<1>1. ByKey(R, S, K)
  BY DEF ByKey
<1> QED
  BY <1>1, BeforeOrders, Zenon

\* What is sorted by its keys is listed.
LEMMA KeysPicked ==
    ASSUME NEW n, NEW S, IsFiniteSet(S), NEW K, Keyed(n, S, K), NEW B, KeyedBelow(S, K, B),
           NEW q, Places(q, S, B)
    PROVE  Lists(q, S)
<1>r. PICK R : R = {p \in S \X S : Before(K[p[1]], K[p[2]])}
  OBVIOUS
<1>1. IsOrder(R, S)
  BY <1>r, KeyOrder
<1>2. \A x \in S : B[x] = Below(R, S, x)
  <2>1. \A x, y \in S : <<y, x>> \in R <=> Before(K[y], K[x])
    BY <1>r
  <2> QED
    BY <2>1, Zenon DEF Below, KeyedBelow
<1> QED
  BY <1>1, <1>2, PlacesList

LEMMA EvidenceRank ==
    ASSUME NEW s, NEW repo, NEW kind
    PROVE  OtherRepo(s, repo) \in Int /\ ProvenanceRank(kind) \in Int
BY DEF OtherRepo, ProvenanceRank

\* The provenance of all sessions is finite.
LEMMA ProvenanceFinite ==
    ASSUME MemoryInv, NEW H,
           \A h \in H : /\ h = <<h[1], h[2]>> /\ h[1] \in Sessions
                        /\ h[2] \in ProvenanceOf(h[1], db.chunks[h[1]]),
           \A h, g \in H : h[2].line = g[2].line
    PROVE  /\ IsFiniteSet(H)
           /\ \A h \in H : h[2].n \in 1 .. Len(db.chunks[h[1]]) /\ Len(db.chunks[h[1]]) \in Nat
           /\ \A h, g \in H : h[1] = g[1] /\ h[2].n = g[2].n => h = g
<1> DEFINE Of(s) == {s} \X (1 .. Len(db.chunks[s]))
           f == [h \in H |-> <<h[1], h[2].n>>]
<1>F. PICK F : F = [s \in Sessions |-> Of(s)]
  OBVIOUS
<1>U. PICK U : U = UNION {F[s] : s \in Sessions}
  OBVIOUS
<1>1. \A s \in Sessions : /\ Recording(s, log[s]) /\ FromCalls(s, log[s], db.chunks[s]) /\ IsSeq(db.chunks[s])
                          /\ DOMAIN db.chunks[s] = 1 .. Len(db.chunks[s]) /\ Len(db.chunks[s]) \in Nat
  BY DEF MemoryInv, LogInv, DbInv, Stored, IsSeq
<1>2. \A s \in Sessions : IsFiniteSet(Of(s))
  <2> TAKE s \in Sessions
  <2>0. PICK N \in Nat : N = Len(db.chunks[s])
    BY <1>1
  <2>i. IsFiniteSet(1 .. N)
    BY FS_Interval
  <2>1. IsFiniteSet(1 .. N) /\ IsFiniteSet({s})
    BY <2>i, FS_Singleton
  <2>2. IsFiniteSet({s} \X (1 .. N))
    BY <2>1, FS_Product
  <2> QED
    BY <2>0, <2>2
<1>3. \A s \in Sessions : F[s] = Of(s)
  BY <1>F
<1>4. IsFiniteSet(U)
  <2>1. IsFiniteSet({F[s] : s \in Sessions})
    BY NoneApart, ImageFinite
  <2>2. \A T \in {F[s] : s \in Sessions} : IsFiniteSet(T)
    BY <1>2, <1>3
  <2> QED
    BY <1>U, <2>1, <2>2, FS_UNION
<1>5. ASSUME NEW h \in H
      PROVE  h[2].n \in 1 .. Len(db.chunks[h[1]]) /\ f[h] \in U
  <2>1. h[2].n \in 1 .. Len(db.chunks[h[1]])
    <3>1. PICK s \in Sessions : s = h[1]
      OBVIOUS
    <3>2. PICK c, rs, p : c = db.chunks[s] /\ rs = log[s] /\ p = h[2]
      OBVIOUS
    <3>3. p \in ProvenanceOf(s, c) /\ Recording(s, rs) /\ IsSeq(c) /\ FromCalls(s, rs, c)
      BY <1>1, <3>1, <3>2
    <3>4. p.n \in DOMAIN c
      BY <3>3, LineOfCall
    <3> QED
      BY <1>1, <3>1, <3>2, <3>4
  <2>2. f[h] \in F[h[1]]
    BY <1>3, <2>1
  <2> QED
    BY <1>U, <2>1, <2>2
<1>6. ASSUME NEW h \in H, NEW g \in H, h[1] = g[1], h[2].n = g[2].n PROVE h = g
  <2>1. PICK s, c : s = h[1] /\ c = db.chunks[s]
    OBVIOUS
  <2>2. PICK p \in ProvenanceOf(s, c), r \in ProvenanceOf(s, c) : p = h[2] /\ r = g[2]
    BY <1>6, <2>1
  <2>3. p.n = r.n /\ p.line = r.line
    BY <1>6, <2>2
  <2>4. p = r
    <3>1. p = [path |-> ChunkFilePath(s, c[p.n]), line |-> p.line, n |-> p.n, at |-> c[p.n].at,
               kind |-> IF c[p.n].top # None THEN "exact_edit_hunk" ELSE "exact_diff_hunk"]
      BY ProvenanceRow
    <3>2. r = [path |-> ChunkFilePath(s, c[r.n]), line |-> r.line, n |-> r.n, at |-> c[r.n].at,
               kind |-> IF c[r.n].top # None THEN "exact_edit_hunk" ELSE "exact_diff_hunk"]
      BY ProvenanceRow
    <3> QED
      BY <2>3, <3>1, <3>2
  <2> QED
    BY <1>6, <2>2, <2>4
<1>7. f \in Injection(H, U)
  <2>1. f \in [H -> U]
    BY <1>5
  <2>2. ASSUME NEW h \in H, NEW g \in H, f[h] = f[g] PROVE h = g
    BY <1>6, <2>2
  <2> HIDE DEF f
  <2> QED
    BY <2>1, <2>2, Zenon DEF Injection, IsInjective
<1>8. IsFiniteSet(H)
  <2> HIDE DEF f
  <2> QED
    BY <1>4, <1>7, FS_Injection
<1> QED
  BY <1>1, <1>5, <1>6, <1>8

\* Line provenance is of sessions that have the line.
LEMMA LineRows ==
    ASSUME MemoryInv, TimeInv, NEW path, NEW line, NEW repo, NEW limit \in Nat, NEW lines, line \in lines
    PROVE  Evident(QueryLineProvenance(db, path, line, repo, limit), lines)
<1>H. PICK H : H = {h \in Sessions \X UNION {db.prov[s] : s \in Sessions} :
                       /\ h[2] \in db.prov[h[1]] /\ h[2].line = line
                       /\ BlamePathMatches(path, h[2].path, RepoOf[h[1]])}
  OBVIOUS
<1> DEFINE Key(h) == <<OtherRepo(h[1], repo), ProvenanceRank(h[2].kind), -h[2].at, h[1], -h[2].n>>
           LessThan(x) == {y \in H : Before(Key(y), Key(x))}
           Row(h) == BlameRow(db, h[1], h[2].at, h[2].kind)
<1>K. PICK K : K = [h \in H |-> Key(h)]
  OBVIOUS
<1>B. PICK B : B = [h \in H |-> LessThan(h)]
  OBVIOUS
<1>b. PICK b : b = [h \in H |-> Row(h)]
  OBVIOUS
<1>q. PICK q : q = [k \in 1 .. Cardinality(H) |-> CHOOSE x \in H : Cardinality(LessThan(x)) = k - 1]
  OBVIOUS
<1>r. PICK rows : rows = [k \in DOMAIN q |-> Row(q[k])]
  OBVIOUS
<1>1. \A h \in H : /\ h = <<h[1], h[2]>> /\ h[1] \in Sessions /\ h[2].line = line
                   /\ h[2] \in ProvenanceOf(h[1], db.chunks[h[1]])
  BY <1>H DEF MemoryInv, DbInv, Stored
<1>2. /\ IsFiniteSet(H)
      /\ \A h \in H : h[2].n \in 1 .. Len(db.chunks[h[1]]) /\ Len(db.chunks[h[1]]) \in Nat
      /\ \A h, g \in H : h[1] = g[1] /\ h[2].n = g[2].n => h = g
  BY <1>1, ProvenanceFinite
<1>3. ASSUME NEW h \in H PROVE h[2].at \in Nat /\ HasLine(log[h[1]], lines)
  <2>1. PICK s \in Sessions : s = h[1]
    BY <1>1
  <2>2. PICK c, rs, p : c = db.chunks[s] /\ rs = log[s] /\ p = h[2]
    OBVIOUS
  <2>3. p \in ProvenanceOf(s, c) /\ Recording(s, rs) /\ IsSeq(c) /\ FromCalls(s, rs, c) /\ p.line = line
    BY <1>1, <2>1, <2>2 DEF MemoryInv, LogInv, DbInv, Stored
  <2>4. PICK o \in CallsIn(rs) :
          /\ rs[o[1]].at = p.at
          /\ \E t \in {CallAt(rs, o).new, OutputAt(rs, o)} : \E m \in DOMAIN t : t[m].of = p.line
    BY <2>3, LineOfCall
  <2>5. o[1] \in 1 .. Len(rs)
    BY <2>3, CallKnown
  <2>6. p.at \in Nat
    BY <2>1, <2>2, <2>4, <2>5 DEF TimeInv
  <2>7. HasLine(rs, lines)
    BY <2>3, <2>4, Zenon DEF HasLine
  <2> QED
    BY <2>1, <2>2, <2>6, <2>7
<1>4. \A h \in H : K[h] = Key(h)
  BY <1>K
<1>5. PICK w \in Nat : w = 5
  OBVIOUS
<1>6. ASSUME NEW h \in H
      PROVE  K[h] \in Seq(Int) /\ Len(K[h]) = w /\ K[h][4] = h[1] /\ K[h][5] = -h[2].n
             /\ h[1] \in Int /\ h[2].n \in Int
  <2>1. PICK u, v : u = OtherRepo(h[1], repo) /\ v = ProvenanceRank(h[2].kind)
    OBVIOUS
  <2>2. u \in Int /\ v \in Int
    BY <2>1, EvidenceRank
  <2>3. h[1] \in Int /\ -h[2].at \in Int /\ -h[2].n \in Int /\ h[2].n \in Int
    BY <1>1, <1>2, <1>3, NoneApart
  <2>4. K[h] = <<u, v, -h[2].at, h[1], -h[2].n>>
    BY <1>4, <2>1
  <2> QED
    BY <1>5, <2>2, <2>3, <2>4
<1>7. ASSUME NEW h \in H, NEW g \in H, \A i \in 1 .. w : K[h][i] = K[g][i] PROVE h = g
  <2>1. K[h][4] = K[g][4] /\ K[h][5] = K[g][5]
    BY <1>5, <1>7
  <2> HIDE DEF Key
  <2>3. /\ K[h][4] = h[1] /\ K[g][4] = g[1] /\ K[h][5] = -h[2].n /\ K[g][5] = -g[2].n
        /\ h[2].n \in Int /\ g[2].n \in Int
    BY <1>6
  <2>4. PICK i \in Int, j \in Int : i = h[2].n /\ j = g[2].n
    BY <2>3
  <2>5. -i = -j
    BY <2>1, <2>3, <2>4
  <2>6. i = j
    BY <2>5
  <2>2. h[1] = g[1] /\ h[2].n = g[2].n
    BY <2>1, <2>3, <2>4, <2>6
  <2> QED
    BY <1>2, <2>2
<1>8. \A h \in H : B[h] = LessThan(h) /\ B[h] = {y \in H : Before(K[y], K[h])}
  <2>1. \A h \in H : B[h] = LessThan(h)
    BY <1>B
  <2> HIDE DEF Key
  <2>2. \A h \in H : LessThan(h) = {y \in H : Before(K[y], K[h])}
    BY <1>4
  <2> QED
    BY <2>1, <2>2
<1> HIDE DEF Key, Row
<1>9. Places(q, H, B)
  <2> HIDE DEF LessThan
  <2>1. q = [k \in 1 .. Cardinality(H) |-> q[k]]
    BY <1>q
  <2>2. ASSUME NEW k \in 1 .. Cardinality(H), NEW x \in H, Cardinality(B[x]) = k - 1
        PROVE  q[k] \in H /\ Cardinality(B[q[k]]) = k - 1
    <3>1. Cardinality(LessThan(x)) = k - 1
      BY <1>8, <2>2
    <3>2. q[k] = CHOOSE z \in H : Cardinality(LessThan(z)) = k - 1
      BY <1>q
    <3>3. q[k] \in H /\ Cardinality(LessThan(q[k])) = k - 1
      BY <3>1, <3>2, Zenon
    <3> QED
      BY <1>8, <3>3
  <2> QED
    BY <2>1, <2>2 DEF Places
<1>10. Lists(q, H)
  <2>1. \A h \in H : K[h] \in Seq(Int) /\ Len(K[h]) = w
    BY <1>6
  <2>2. KeyedBelow(H, K, B)
    BY <1>8, Zenon DEF KeyedBelow
  <2>3. IsFiniteSet(H)
    BY <1>2
  <2>4. \A x, y \in H : (\A i \in 1 .. w : K[x][i] = K[y][i]) => x = y
    BY <1>7
  <2>5. Keyed(w, H, K)
    BY <2>1, <2>4, Zenon DEF Keyed
  <2> HIDE DEF LessThan
  <2> QED
    BY <1>9, <2>2, <2>3, <2>5, KeysPicked, Zenon
<1>11. \A k \in DOMAIN q : q[k] \in H
  BY <1>10 DEF Lists
<1>12. ASSUME NEW h \in H
       PROVE  b[h] = Row(h) /\ b[h].session = h[1] /\ b[h].session \in Sessions /\ b[h].at \in Int
  <2>1. b[h] = Row(h)
    BY <1>b
  <2>2. Row(h).session = h[1]
    BY DEF Row, BlameRow
  <2>3. h[2].at # None
    BY <1>3, NoneApart
  <2>4. Row(h).at = h[2].at
    BY <2>3 DEF Row, BlameRow
  <2> QED
    BY <1>1, <1>3, <2>1, <2>2, <2>4
<1>13. rows = [k \in DOMAIN q |-> b[q[k]]]
  BY <1>r, <1>11, <1>12
<1>14. QueryLineProvenance(db, path, line, repo, limit) = Take(rows, limit)
  <2>1. PICK order : order = Sorted(H, LAMBDA x, y : Before(Key(x), Key(y)))
    OBVIOUS
  <2>2. order = q
    BY <1>q, <2>1, Zenon DEF Sorted
  <2>3. QueryLineProvenance(db, path, line, repo, limit) =
          Take([k \in DOMAIN order |-> BlameRow(db, order[k][1], order[k][2].at, order[k][2].kind)], limit)
    BY <1>H, <2>1, Zenon DEF QueryLineProvenance, Key
  <2> QED
    BY <1>r, <2>2, <2>3 DEF Row
<1>t. PICK t : t = Take(rows, limit)
  OBVIOUS
<1>15. RowsOk(t) /\ \A k \in 1 .. Len(t) : \E h \in H : t[k] = b[h]
  <2>1. \A h \in H : b[h].session \in Sessions /\ b[h].at \in Int
    BY <1>12
  <2> HIDE DEF LessThan
  <2>2. /\ RowsOk(Take(rows, limit))
        /\ \A k \in 1 .. Len(Take(rows, limit)) : \E h \in H : Take(rows, limit)[k] = b[h]
    BY <1>10, <1>13, <2>1, RowsTaken, SMTT(60)
  <2> QED
    BY <1>t, <2>2
<1>16. \A k \in 1 .. Len(t) : HasLine(log[t[k].session], lines)
  BY <1>3, <1>12, <1>15
<1> QED
  BY <1>14, <1>15, <1>16, <1>t DEF Evident

\* A finite nonempty set of numbers has a greatest element.
LEMMA GreatestElement ==
    ASSUME NEW S, IsFiniteSet(S), S \subseteq Int, S # {}
    PROVE  /\ \E x \in S : \A y \in S : y <= x
           /\ Max(S) \in S /\ \A y \in S : y <= Max(S)
<1>r. PICK R : R = {p \in S \X S : p[1] > p[2]}
  OBVIOUS
<1>1. \A x, y \in S : <<x, y>> \in R <=> x > y
  BY <1>r
<1>2. IsOrder(R, S)
  BY <1>1 DEF IsOrder
<1>3. /\ Cardinality(S) \in Nat
      /\ \A k \in 1 .. Cardinality(S) : \E x \in S : Cardinality(Below(R, S, x)) = k - 1
  BY <1>2, PlaceTaken
<1>4. Cardinality(S) # 0
  BY FS_EmptySet
<1>5. 1 \in 1 .. Cardinality(S)
  BY <1>3, <1>4
<1>6. PICK x \in S : Cardinality(Below(R, S, x)) = 1 - 1
  BY <1>3, <1>5
<1>7. Below(R, S, x) = {}
  <2>1. IsFiniteSet(Below(R, S, x))
    <3>1. Below(R, S, x) \subseteq S
      BY DEF Below
    <3> QED
      BY <3>1, FS_Subset
  <2> QED
    BY <1>6, <2>1, FS_EmptySet
<1>8. \A y \in S : ~(y > x)
  BY <1>1, <1>7 DEF Below
<1>9. \A y \in S : y <= x /\ x >= y
  BY <1>8
<1>m. PICK m : m = CHOOSE z \in S : \A y \in S : z >= y
  OBVIOUS
<1>10. m \in S /\ \A y \in S : m >= y
  BY <1>9, <1>m, Zenon
<1>11. m = Max(S)
  BY <1>m, Zenon DEF Max
<1>12. \A y \in S : y <= m
  BY <1>10
<1> QED
  BY <1>9, <1>10, <1>11, <1>12

\* The row of a session's last edit of a file.
LEMMA TouchTime ==
    ASSUME MemoryInv, TimeInv, NEW s \in Sessions, NEW path
    PROVE  FileTouchTime(s, db.chunks[s], path) \in Nat \cup {None}
<1>c. PICK c, rs : c = db.chunks[s] /\ rs = log[s]
  OBVIOUS
<1> DEFINE Touch1(x) == /\ x.kind = "tool_call" /\ IsFileMutationTool(x.function)
                        /\ \E f \in {x.path, LogPath[s]} \ {None} : BlamePathMatches(path, f, RepoOf[s])
<1>I. PICK I : I = {j \in 1 .. Len(c) : Touch1(c[j])}
  OBVIOUS
<1>n. PICK n : n = IF I # {} THEN Max(I) ELSE 0
  OBVIOUS
<1>1. FileTouchTime(s, c, path) = IF n = 0 THEN None ELSE c[n].at
  BY <1>I, <1>n, Zenon DEF FileTouchTime, SelectLastInSeq
<1>2. Recording(s, rs) /\ IsSeq(c) /\ FromCalls(s, rs, c) /\ DOMAIN c = 1 .. Len(c) /\ Len(c) \in Nat
  BY <1>c DEF MemoryInv, LogInv, DbInv, Stored, IsSeq
<1>3. I \subseteq DOMAIN c
  BY <1>I, <1>2
<1>4. IsFiniteSet(I) /\ I \subseteq Int
  BY <1>2, <1>3, PlacesFinite
<1>5. ASSUME n # 0 PROVE c[n].at \in Nat
  <2>1. I # {} /\ n = Max(I)
    BY <1>n, <1>5
  <2>2. n \in I
    BY <1>4, <2>1, GreatestElement
  <2>3. n \in 1 .. Len(c) /\ c[n].kind = "tool_call"
    BY <1>I, <2>2
  <2>4. PICK q \in CallsIn(rs) : c[n].at = rs[q[1]].at /\ q[1] \in 1 .. Len(rs)
    BY <1>2, <2>3, ToolChunk
  <2> QED
    BY <1>c, <2>4 DEF TimeInv
<1> QED
  BY <1>c, <1>1, <1>5

\* Who touched a file, newest first.
LEMMA FileRows ==
    ASSUME MemoryInv, TimeInv, RowsInv, NEW path, NEW repo, NEW limit \in Nat
    PROVE  RowsOk(QueryFileBlame(db, path, repo, limit))
<1>H. PICK H : H = SessionsTouching(db, path)
  OBVIOUS
<1> DEFINE Key(s) == <<OtherRepo(s, repo), -db.row[s].updated, s>>
           LessThan(x) == {y \in H : Before(Key(y), Key(x))}
           Row(s) == BlameRow(db, s, FileTouchTime(s, db.chunks[s], path), None)
<1>K. PICK K : K = [s \in H |-> Key(s)]
  OBVIOUS
<1>B. PICK B : B = [s \in H |-> LessThan(s)]
  OBVIOUS
<1>b. PICK b : b = [s \in H |-> Row(s)]
  OBVIOUS
<1>q. PICK q : q = [k \in 1 .. Cardinality(H) |-> CHOOSE x \in H : Cardinality(LessThan(x)) = k - 1]
  OBVIOUS
<1>r. PICK rows : rows = [k \in DOMAIN q |-> Row(q[k])]
  OBVIOUS
<1>1. \A s \in H : s \in Sessions /\ db.row[s] # None /\ db.row[s].updated \in Nat /\ s \in Nat
  BY <1>H, NoneApart DEF SessionsTouching, RowsInv, RowOk
<1>2. IsFiniteSet(H)
  <2>1. H \subseteq Sessions
    BY <1>1
  <2> QED
    BY <2>1, NoneApart, FS_Subset
<1>4. \A h \in H : K[h] = Key(h)
  BY <1>K
<1>5. PICK w \in Nat : w = 3
  OBVIOUS
<1>6. ASSUME NEW h \in H
      PROVE  K[h] \in Seq(Int) /\ Len(K[h]) = w /\ K[h][3] = h
  <2>1. PICK u, v : u = OtherRepo(h, repo) /\ v = -db.row[h].updated
    OBVIOUS
  <2>2. u \in Int /\ v \in Int /\ h \in Int
    BY <1>1, <2>1, EvidenceRank
  <2>4. K[h] = <<u, v, h>>
    BY <1>4, <2>1
  <2> QED
    BY <1>5, <2>2, <2>4
<1>8. \A h \in H : B[h] = LessThan(h) /\ B[h] = {y \in H : Before(K[y], K[h])}
  <2>1. \A h \in H : B[h] = LessThan(h)
    BY <1>B
  <2> HIDE DEF Key
  <2>2. \A h \in H : LessThan(h) = {y \in H : Before(K[y], K[h])}
    BY <1>4
  <2> QED
    BY <2>1, <2>2
<1> HIDE DEF Key, Row
<1>9. Places(q, H, B)
  <2> HIDE DEF LessThan
  <2>1. q = [k \in 1 .. Cardinality(H) |-> q[k]]
    BY <1>q
  <2>2. ASSUME NEW k \in 1 .. Cardinality(H), NEW x \in H, Cardinality(B[x]) = k - 1
        PROVE  q[k] \in H /\ Cardinality(B[q[k]]) = k - 1
    <3>1. Cardinality(LessThan(x)) = k - 1
      BY <1>8, <2>2
    <3>2. q[k] = CHOOSE z \in H : Cardinality(LessThan(z)) = k - 1
      BY <1>q
    <3>3. q[k] \in H /\ Cardinality(LessThan(q[k])) = k - 1
      BY <3>1, <3>2, Zenon
    <3> QED
      BY <1>8, <3>3
  <2> QED
    BY <2>1, <2>2 DEF Places
<1>10. Lists(q, H)
  <2>1. \A h \in H : K[h] \in Seq(Int) /\ Len(K[h]) = w
    BY <1>6
  <2>2. KeyedBelow(H, K, B)
    BY <1>8, Zenon DEF KeyedBelow
  <2>4. \A x, y \in H : (\A i \in 1 .. w : K[x][i] = K[y][i]) => x = y
    BY <1>5, <1>6
  <2>5. Keyed(w, H, K)
    BY <2>1, <2>4, Zenon DEF Keyed
  <2> HIDE DEF LessThan
  <2> QED
    BY <1>2, <1>9, <2>2, <2>5, KeysPicked, Zenon
<1>11. \A k \in DOMAIN q : q[k] \in H
  BY <1>10 DEF Lists
<1>12. ASSUME NEW h \in H
       PROVE  b[h] = Row(h) /\ b[h].session \in Sessions /\ b[h].at \in Int
  <2>1. b[h] = Row(h)
    BY <1>b
  <2>2. PICK o : o = FileTouchTime(h, db.chunks[h], path)
    OBVIOUS
  <2>3. o \in Nat \cup {None}
    BY <1>1, <2>2, TouchTime
  <2>4. Row(h).session = h /\ Row(h).at = IF o = None THEN db.row[h].updated ELSE o
    BY <2>2 DEF Row, BlameRow
  <2> QED
    BY <1>1, <2>1, <2>3, <2>4
<1>13. rows = [k \in DOMAIN q |-> b[q[k]]]
  BY <1>r, <1>11, <1>12
<1>14. QueryFileBlame(db, path, repo, limit) = Take(rows, limit)
  <2>1. PICK order : order = Sorted(H, LAMBDA x, y : Before(Key(x), Key(y)))
    OBVIOUS
  <2>2. order = q
    BY <1>q, <2>1, Zenon DEF Sorted
  <2>3. QueryFileBlame(db, path, repo, limit) =
          Take([k \in DOMAIN order |->
                  BlameRow(db, order[k], FileTouchTime(order[k], db.chunks[order[k]], path), None)], limit)
    BY <1>H, <2>1, Zenon DEF QueryFileBlame, Key
  <2> QED
    BY <1>r, <2>2, <2>3 DEF Row
<1>15. RowsOk(Take(rows, limit))
  <2>1. \A h \in H : b[h].session \in Sessions /\ b[h].at \in Int
    BY <1>12
  <2> HIDE DEF LessThan
  <2> QED
    BY <1>10, <1>13, <2>1, RowsTaken, SMTT(60)
<1> QED
  BY <1>14, <1>15

\* Text matches are of sessions that have a line of the text; one that shows
\* it and touched the file is among them.
LEMMA TextRows ==
    ASSUME MemoryInv, TimeInv, RowsInv, NEW path, NEW text, IsLines(text), text # <<>>,
           NEW repo, NEW limit \in Nat
    PROVE  LET rows == QueryTextMatch(db, path, text, repo, limit) IN
           /\ Evident(rows, ToSet(text))
           /\ \A s \in SessionsTouching(db, path) : \A n : Shows(db.chunks[s], n, text) => Len(rows) >= 1
<1>m. PICK mat : mat = [s \in Sessions |-> TextMatchChunk(db.chunks[s], text)]
  OBVIOUS
<1>H. PICK H : H = {s \in SessionsTouching(db, path) : TextMatchChunk(db.chunks[s], text) # None}
  OBVIOUS
<1> DEFINE Of(s) == db.chunks[s][TextMatchChunk(db.chunks[s], text)]
           Kind(s) == ChunkTextEvidence(Of(s), text)
           Key(s) == <<OtherRepo(s, repo), ProvenanceRank(Kind(s)), -db.row[s].updated, s>>
           LessThan(x) == {y \in H : Before(Key(y), Key(x))}
           Row(s) == BlameRow(db, s, Of(s).at, Kind(s))
<1>K. PICK K : K = [s \in H |-> Key(s)]
  OBVIOUS
<1>B. PICK B : B = [s \in H |-> LessThan(s)]
  OBVIOUS
<1>b. PICK b : b = [s \in H |-> Row(s)]
  OBVIOUS
<1>q. PICK q : q = [k \in 1 .. Cardinality(H) |-> CHOOSE x \in H : Cardinality(LessThan(x)) = k - 1]
  OBVIOUS
<1>r. PICK rows : rows = [k \in DOMAIN q |-> Row(q[k])]
  OBVIOUS
<1>1. \A s \in H : s \in Sessions /\ db.row[s] # None /\ db.row[s].updated \in Nat /\ s \in Nat
  BY <1>H, NoneApart DEF SessionsTouching, RowsInv, RowOk
<1>2. IsFiniteSet(H)
  <2>1. H \subseteq Sessions
    BY <1>1
  <2> QED
    BY <2>1, NoneApart, FS_Subset
<1>3. ASSUME NEW h \in H PROVE Of(h).at \in Nat /\ HasLine(log[h], ToSet(text))
  <2>1. PICK c, rs, n : c = db.chunks[h] /\ rs = log[h] /\ n = TextMatchChunk(db.chunks[h], text)
    OBVIOUS
  <2>2. Recording(h, rs) /\ IsSeq(c) /\ FromCalls(h, rs, c) /\ n = TextMatchChunk(c, text) /\ n # None
    BY <1>1, <1>H, <2>1 DEF MemoryInv, LogInv, DbInv, Stored
  <2>3. Shows(c, n, text)
    BY <2>2, TextMatchOk
  <2>4. n \in 1 .. Len(c) /\ c[n].kind = "tool_call" /\ ChunkTextEvidence(c[n], text) # None
    BY <2>3 DEF Shows
  <2>5. PICK o \in CallsIn(rs) : c[n].at = rs[o[1]].at /\ o[1] \in 1 .. Len(rs)
    BY <1>1, <2>2, <2>4, ToolChunk
  <2>6. c[n].at \in Nat
    BY <1>1, <2>1, <2>5 DEF TimeInv
  <2>7. HasLine(rs, ToSet(text))
    BY <1>1, <2>2, <2>4, ChunkEvident
  <2> QED
    BY <2>1, <2>6, <2>7
<1>4. \A h \in H : K[h] = Key(h)
  BY <1>K
<1>5. PICK w \in Nat : w = 4
  OBVIOUS
<1>6. ASSUME NEW h \in H
      PROVE  K[h] \in Seq(Int) /\ Len(K[h]) = w /\ K[h][4] = h
  <2>1. PICK u, v, z : u = OtherRepo(h, repo) /\ v = ProvenanceRank(Kind(h)) /\ z = -db.row[h].updated
    OBVIOUS
  <2>2. u \in Int /\ v \in Int /\ z \in Int /\ h \in Int
    BY <1>1, <2>1, EvidenceRank
  <2>4. K[h] = <<u, v, z, h>>
    BY <1>4, <2>1
  <2> QED
    BY <1>5, <2>2, <2>4
<1>8. \A h \in H : B[h] = LessThan(h) /\ B[h] = {y \in H : Before(K[y], K[h])}
  <2>1. \A h \in H : B[h] = LessThan(h)
    BY <1>B
  <2> HIDE DEF Key
  <2>2. \A h \in H : LessThan(h) = {y \in H : Before(K[y], K[h])}
    BY <1>4
  <2> QED
    BY <2>1, <2>2
<1> HIDE DEF Key, Row
<1>9. Places(q, H, B)
  <2> HIDE DEF LessThan
  <2>1. q = [k \in 1 .. Cardinality(H) |-> q[k]]
    BY <1>q
  <2>2. ASSUME NEW k \in 1 .. Cardinality(H), NEW x \in H, Cardinality(B[x]) = k - 1
        PROVE  q[k] \in H /\ Cardinality(B[q[k]]) = k - 1
    <3>1. Cardinality(LessThan(x)) = k - 1
      BY <1>8, <2>2
    <3>2. q[k] = CHOOSE z \in H : Cardinality(LessThan(z)) = k - 1
      BY <1>q
    <3>3. q[k] \in H /\ Cardinality(LessThan(q[k])) = k - 1
      BY <3>1, <3>2, Zenon
    <3> QED
      BY <1>8, <3>3
  <2> QED
    BY <2>1, <2>2 DEF Places
<1>10. Lists(q, H)
  <2>1. \A h \in H : K[h] \in Seq(Int) /\ Len(K[h]) = w
    BY <1>6
  <2>2. KeyedBelow(H, K, B)
    BY <1>8, Zenon DEF KeyedBelow
  <2>4. \A x, y \in H : (\A i \in 1 .. w : K[x][i] = K[y][i]) => x = y
    BY <1>5, <1>6
  <2>5. Keyed(w, H, K)
    BY <2>1, <2>4, Zenon DEF Keyed
  <2> HIDE DEF LessThan
  <2> QED
    BY <1>2, <1>9, <2>2, <2>5, KeysPicked, Zenon
<1>11. \A k \in DOMAIN q : q[k] \in H
  BY <1>10 DEF Lists
<1>12. ASSUME NEW h \in H
       PROVE  b[h] = Row(h) /\ b[h].session = h /\ b[h].session \in Sessions /\ b[h].at \in Int
  <2>1. b[h] = Row(h)
    BY <1>b
  <2>2. PICK o : o = Of(h).at
    OBVIOUS
  <2>3. o \in Nat /\ o # None
    BY <1>3, <2>2, NoneApart
  <2>4. Row(h).session = h /\ Row(h).at = IF o = None THEN db.row[h].updated ELSE o
    BY <2>2 DEF Row, BlameRow
  <2> QED
    BY <1>1, <2>1, <2>3, <2>4
<1>13. rows = [k \in DOMAIN q |-> b[q[k]]]
  BY <1>r, <1>11, <1>12
<1>a. PICK ans : ans = QueryTextMatch(db, path, text, repo, limit)
  OBVIOUS
<1>14. ans = Take(rows, limit)
  <2>1. PICK order : order = Sorted(H, LAMBDA x, y : Before(Key(x), Key(y)))
    OBVIOUS
  <2>2. order = q
    BY <1>q, <2>1, Zenon DEF Sorted
  <2>3. ans = Take([k \in DOMAIN order |-> BlameRow(db, order[k], Of(order[k]).at, Kind(order[k]))], limit)
    BY <1>H, <1>a, <2>1, Zenon DEF QueryTextMatch, Key
  <2> QED
    BY <1>r, <2>2, <2>3 DEF Row
<1>15. RowsOk(ans) /\ (H # {} => Len(ans) >= 1) /\ \A k \in 1 .. Len(ans) : \E h \in H : ans[k] = b[h]
  <2>1. \A h \in H : b[h].session \in Sessions /\ b[h].at \in Int
    BY <1>12
  <2> HIDE DEF LessThan
  <2>2. RowsOk(Take(rows, limit)) /\ (H # {} => Len(Take(rows, limit)) >= 1)
    BY <1>10, <1>13, <2>1, RowsTaken, SMTT(60)
  <2>3. \A k \in 1 .. Len(Take(rows, limit)) : \E h \in H : Take(rows, limit)[k] = b[h]
    BY <1>10, <1>13, <2>1, RowsTaken, SMTT(60)
  <2> QED
    BY <1>14, <2>2, <2>3
<1>16. \A k \in 1 .. Len(ans) : HasLine(log[ans[k].session], ToSet(text))
  BY <1>3, <1>12, <1>15
<1>17. Evident(ans, ToSet(text))
  BY <1>15, <1>16 DEF Evident
<1>18. ASSUME NEW s \in SessionsTouching(db, path), NEW n, Shows(db.chunks[s], n, text)
       PROVE  Len(ans) >= 1
  <2>1. s \in Sessions /\ IsSeq(db.chunks[s])
    BY DEF SessionsTouching, MemoryInv, DbInv, Stored
  <2>2. TextMatchChunk(db.chunks[s], text) # None
    BY <1>18, <2>1, TextMatchOk
  <2>3. s \in H
    BY <1>H, <2>2
  <2> QED
    BY <1>15, <2>3
<1> QED
  BY <1>a, <1>17, <1>18

-----------------------------------------------------------------------------
(* Steps an explain begins with, and sessions in the order of a listing.    *)

LEMMA StepsTaken ==
    ASSUME NEW H, NEW q, Lists(q, H), NEW b,
           \A h \in H : "session" \in DOMAIN b[h] /\ b[h].session \in Sessions /\ b[h].at \in Int,
           \A g, h \in H : b[g].session = b[h].session => g = h,
           NEW t, t = [k \in DOMAIN q |-> b[q[k]]], NEW limit \in Nat
    PROVE  StepsOk(Take(t, limit))
<1>1. Picked(t, b, H, q)
  BY ListPicks
<1>2. /\ IsSeq(t) /\ \A k \in 1 .. Len(t) : q[k] \in H /\ t[k] = b[q[k]]
      /\ \A j, k \in 1 .. Len(t) : q[j] = q[k] => j = k
  BY <1>1 DEF Picked
<1>u. PICK u : u = Take(t, limit)
  OBVIOUS
<1>3. /\ IsSeq(u) /\ Len(u) \in Nat
      /\ \A k \in 1 .. Len(u) : k \in 1 .. Len(t) /\ u[k] = t[k]
  BY <1>2, <1>u, TakeOk
<1>4. \A k \in 1 .. Len(u) : k \in 1 .. Len(t) /\ q[k] \in H /\ u[k] = b[q[k]]
  BY <1>2, <1>3
<1>5. \A j, k \in 1 .. Len(u) : j # k => u[j].session # u[k].session
  <2> SUFFICES ASSUME NEW j \in 1 .. Len(u), NEW k \in 1 .. Len(u), u[j].session = u[k].session
               PROVE  j = k
    OBVIOUS
  <2>1. q[j] = q[k]
    BY <1>4
  <2> QED
    BY <1>2, <1>4, <2>1
<1>6. \A k \in 1 .. Len(u) : "session" \in DOMAIN u[k] /\ u[k].session \in Sessions /\ u[k].at \in Int
  BY <1>4
<1>7. StepsOk(u)
  BY <1>3, <1>5, <1>6 DEF StepsOk
<1> QED
  BY <1>u, <1>7

\* An event for each session and version.
EventOk(e) ==
    /\ "id" \in DOMAIN e /\ "updated" \in DOMAIN e /\ e.id = <<e.id[1], e.id[2]>>
    /\ e.id[1] \in Sessions /\ e.id[2] \in Nat /\ e.updated \in Nat
EventsOk(events) ==
    /\ IsFiniteSet(events) /\ \A e \in events : EventOk(e)
    /\ \A d, e \in events : d.id = e.id => d = e
EvInv == EventsOk(ev)

LEMMA FileStepsOk == ASSUME EvInv, NEW rel, NEW depth \in Nat PROVE StepsOk(FileSteps(rel, depth))
<1>h. PICK hits : hits = {e \in ev : \E f \in e.touched : PathMatchesRel(f, rel)}
  OBVIOUS
<1>D. PICK D : D = {e \in hits : \A d \in hits : d.id[1] = e.id[1] => d.id[2] <= e.id[2]}
  OBVIOUS
<1> DEFINE Less(a, c) == \/ a.updated > c.updated
                         \/ a.updated = c.updated /\ a.id[1] < c.id[1]
           R == {p \in D \X D : Less(p[1], p[2])}
           LessThan(x) == {y \in D : Less(y, x)}
           g(k) == CHOOSE x \in D : Cardinality({y \in D : Less(y, x)}) = k - 1
           Step(e) == [event |-> 1, session |-> e.id[1], title |-> None, at |-> e.updated]
<1>q. PICK q : q = [k \in 1 .. Cardinality(D) |-> g(k)]
  OBVIOUS
<1>B. PICK B : B = [x \in D |-> LessThan(x)]
  OBVIOUS
<1>b. PICK b : b = [e \in D |-> Step(e)]
  OBVIOUS
<1>t. PICK t : t = [k \in DOMAIN q |-> Step(q[k])]
  OBVIOUS
<1>1. IsFiniteSet(D) /\ D \subseteq ev
  <2>1. D \subseteq ev
    BY <1>h, <1>D
  <2> QED
    BY <2>1, FS_Subset DEF EvInv, EventsOk, EventOk
<1>2. \A e \in D : e.id[1] \in Int /\ e.id[1] \in Sessions /\ e.updated \in Int
  <2> TAKE e \in D
  <2>1. e \in ev
    BY <1>1
  <2>2. e.id[1] \in Sessions /\ e.updated \in Nat
    BY <2>1, Zenon DEF EvInv, EventsOk, EventOk
  <2>3. PICK s \in Sessions, u \in Nat : s = e.id[1] /\ u = e.updated
    BY <2>2
  <2>4. s \in Int /\ u \in Int
    BY NoneApart
  <2> QED
    BY <2>3, <2>4
<1>3. \A d, e \in D : d.id[1] = e.id[1] => d = e
  <2> SUFFICES ASSUME NEW d \in D, NEW e \in D, d.id[1] = e.id[1] PROVE d = e
    OBVIOUS
  <2>1. d.id[2] <= e.id[2] /\ e.id[2] <= d.id[2]
    BY <1>D
  <2>2. /\ d.id = <<d.id[1], d.id[2]>> /\ e.id = <<e.id[1], e.id[2]>>
        /\ d.id[2] \in Nat /\ e.id[2] \in Nat
    BY <1>1 DEF EvInv, EventsOk, EventOk
  <2>3. d.id[2] = e.id[2]
    BY <2>1, <2>2
  <2>4. d.id = e.id
    BY <2>2, <2>3
  <2> QED
    BY <1>1, <2>4 DEF EvInv, EventsOk, EventOk
<1>4. \A x, y \in D : <<x, y>> \in R <=> Less(x, y)
  OBVIOUS
<1>5. IsOrder(R, D)
  <2>1. \A x \in D : ~Less(x, x)
    BY <1>2
  <2>2. \A x, y \in D : x # y => Less(x, y) \/ Less(y, x)
    <3> SUFFICES ASSUME NEW x \in D, NEW y \in D, x # y PROVE Less(x, y) \/ Less(y, x)
      OBVIOUS
    <3>1. x.id[1] # y.id[1]
      BY <1>3
    <3>2. x.id[1] \in Int /\ y.id[1] \in Int /\ x.updated \in Int /\ y.updated \in Int
      BY <1>2
    <3> QED
      BY <3>1, <3>2
  <2>3. ASSUME NEW x \in D, NEW y \in D, NEW z \in D, Less(x, y), Less(y, z) PROVE Less(x, z)
    <3>1. /\ x.id[1] \in Int /\ y.id[1] \in Int /\ z.id[1] \in Int
          /\ x.updated \in Int /\ y.updated \in Int /\ z.updated \in Int
      BY <1>2
    <3> QED
      BY <2>3, <3>1
  <2> HIDE DEF R, Less
  <2> QED
    BY <1>4, <2>1, <2>2, <2>3, Zenon DEF IsOrder
<1>6. \A x \in D : B[x] = LessThan(x) /\ B[x] = Below(R, D, x)
  <2>1. \A x \in D : B[x] = LessThan(x)
    BY <1>B
  <2> HIDE DEF R, Less
  <2>2. \A x \in D : LessThan(x) = Below(R, D, x)
    BY <1>4, Zenon DEF Below
  <2> QED
    BY <2>1, <2>2
<1>7. Places(q, D, B)
  <2>1. q = [k \in 1 .. Cardinality(D) |-> q[k]]
    <3> HIDE DEF g
    <3> QED
      BY <1>q
  <2>2. ASSUME NEW k \in 1 .. Cardinality(D), NEW x \in D, Cardinality(B[x]) = k - 1
        PROVE  q[k] \in D /\ Cardinality(B[q[k]]) = k - 1
    <3>1. Cardinality(LessThan(x)) = k - 1
      BY <1>6, <2>2
    <3>2. q[k] = CHOOSE z \in D : Cardinality(LessThan(z)) = k - 1
      BY <1>q
    <3> HIDE DEF LessThan
    <3>3. q[k] \in D /\ Cardinality(LessThan(q[k])) = k - 1
      BY <3>1, <3>2, Zenon
    <3> QED
      BY <1>6, <3>3
  <2> QED
    BY <2>1, <2>2 DEF Places
<1>8. Lists(q, D)
  <2> HIDE DEF R
  <2> QED
    BY <1>1, <1>5, <1>6, <1>7, PlacesList
<1>9. t = [k \in DOMAIN q |-> b[q[k]]]
  <2>1. \A k \in DOMAIN q : q[k] \in D
    BY <1>8 DEF Lists
  <2> HIDE DEF Step
  <2> QED
    BY <1>t, <1>b, <2>1
<1>10. \A e \in D : b[e] = Step(e)
  BY <1>b
<1>11. \A e \in D : "session" \in DOMAIN b[e] /\ b[e].session = e.id[1] /\ b[e].at = e.updated
  <2> TAKE e \in D
  <2>1. PICK s, u : s = e.id[1] /\ u = e.updated
    OBVIOUS
  <2>2. b[e] = [event |-> 1, session |-> s, title |-> None, at |-> u]
    BY <1>10, <2>1
  <2> QED
    BY <2>1, <2>2
<1>12. FileSteps(rel, depth) = Take(t, depth + 1)
  <2>1. PICK order : order = Sorted(D, LAMBDA x, y : \/ x.updated > y.updated
                                                     \/ x.updated = y.updated /\ x.id[1] < y.id[1])
    OBVIOUS
  <2>2. order = q
    BY <1>q, <2>1 DEF Sorted
  <2>3. FileSteps(rel, depth) = Take([k \in DOMAIN order |-> Step(order[k])], depth + 1)
    BY <1>h, <1>D, <2>1, Zenon DEF FileSteps
  <2> QED
    BY <1>t, <2>2, <2>3
<1>13. StepsOk(Take(t, depth + 1))
  <2>1. \A e \in D : "session" \in DOMAIN b[e] /\ b[e].session \in Sessions /\ b[e].at \in Int
    BY <1>2, <1>11
  <2>2. \A d, e \in D : b[d].session = b[e].session => d = e
    BY <1>3, <1>11
  <2>3. PICK n \in Nat : n = depth + 1
    OBVIOUS
  <2>4. StepsOk(Take(t, n))
    <3> HIDE DEF Less, LessThan, R, g, Step
    <3> QED
      BY <1>8, <1>9, <2>1, <2>2, StepsTaken
  <2> QED
    BY <2>3, <2>4
<1> QED
  BY <1>12, <1>13

LEMMA IdStepsOk == ASSUME IsSeq(ledger), NEW repo, NEW id PROVE StepsOk(IdSteps(repo, id))
<1>I. PICK I : I = {i \in DOMAIN ledger : ledger[i].store = repo /\ id \in {ledger[i].entity, ledger[i].mission}}
  OBVIOUS
<1>q. PICK q : q = InOrder(I)
  OBVIOUS
<1>h. PICK hits : hits = [k \in DOMAIN q |-> ledger[q[k]]]
  OBVIOUS
<1>t. PICK t : t = [k \in DOMAIN hits |-> [event |-> 1, session |-> None, title |-> None, at |-> 0]]
  OBVIOUS
<1>1. Lists(q, I)
  BY <1>I, <1>q, PlacesFinite, InOrderLists
<1>n. PICK n : n = Cardinality(I)
  OBVIOUS
<1>2. n \in Nat /\ DOMAIN t = 1 .. n
  BY <1>1, <1>n, <1>h, <1>t DEF Lists
<1> DEFINE e == [event |-> 1, session |-> None, title |-> None, at |-> 0]
<1>3. t = [k \in 1 .. n |-> e]
  BY <1>2, <1>t
<1>4. "session" \in DOMAIN e /\ e.session = None /\ e.at = 0
  OBVIOUS
<1> HIDE DEF e
<1>5. t \in Seq({e}) /\ Len(t) = n /\ \A k \in 1 .. n : t[k] = e
  BY <1>2, <1>3
<1>6. StepsOk(t)
  BY <1>2, <1>4, <1>5 DEF StepsOk, IsSeq
<1>7. IdSteps(repo, id) = t
  BY <1>I, <1>q, <1>h, <1>t, Zenon DEF IdSteps, Select
<1> QED
  BY <1>6, <1>7

LEMMA OrderLists ==
    ASSUME NEW S, S \subseteq Sessions, \A s \in Sessions : Modified(s) \in Nat
    PROVE  Lists(Order(S), S)
<1> DEFINE Less(a, c) == \/ Modified(a) > Modified(c)
                         \/ Modified(a) = Modified(c) /\ a < c
           R == {p \in S \X S : Less(p[1], p[2])}
           LessThan(x) == {y \in S : Less(y, x)}
           g(k) == CHOOSE x \in S : Cardinality({y \in S : Less(y, x)}) = k - 1
<1>q. PICK q : q = [k \in 1 .. Cardinality(S) |-> g(k)]
  OBVIOUS
<1>B. PICK B : B = [x \in S |-> LessThan(x)]
  OBVIOUS
<1>1. IsFiniteSet(S)
  BY NoneApart, FS_Subset
<1>2. \A x \in S : x \in Int /\ Modified(x) \in Int
  BY NoneApart
<1>4. \A x, y \in S : <<x, y>> \in R <=> Less(x, y)
  OBVIOUS
<1>5. IsOrder(R, S)
  <2>1. \A x \in S : ~Less(x, x)
    BY <1>2
  <2>2. \A x, y \in S : x # y => Less(x, y) \/ Less(y, x)
    BY <1>2
  <2>3. ASSUME NEW x \in S, NEW y \in S, NEW z \in S, Less(x, y), Less(y, z) PROVE Less(x, z)
    <3>1. /\ x \in Int /\ y \in Int /\ z \in Int
          /\ Modified(x) \in Int /\ Modified(y) \in Int /\ Modified(z) \in Int
      BY <1>2
    <3> QED
      BY <2>3, <3>1
  <2> HIDE DEF R, Less
  <2> QED
    BY <1>4, <2>1, <2>2, <2>3, Zenon DEF IsOrder
<1>6. \A x \in S : B[x] = LessThan(x) /\ B[x] = Below(R, S, x)
  <2>1. \A x \in S : B[x] = LessThan(x)
    BY <1>B
  <2> HIDE DEF R, Less
  <2>2. \A x \in S : LessThan(x) = Below(R, S, x)
    BY <1>4, Zenon DEF Below
  <2> QED
    BY <2>1, <2>2
<1>7. Places(q, S, B)
  <2>1. q = [k \in 1 .. Cardinality(S) |-> q[k]]
    <3> HIDE DEF g
    <3> QED
      BY <1>q
  <2>2. ASSUME NEW k \in 1 .. Cardinality(S), NEW x \in S, Cardinality(B[x]) = k - 1
        PROVE  q[k] \in S /\ Cardinality(B[q[k]]) = k - 1
    <3>1. Cardinality(LessThan(x)) = k - 1
      BY <1>6, <2>2
    <3>2. q[k] = CHOOSE z \in S : Cardinality(LessThan(z)) = k - 1
      BY <1>q
    <3> HIDE DEF LessThan
    <3>3. q[k] \in S /\ Cardinality(LessThan(q[k])) = k - 1
      BY <3>1, <3>2, Zenon
    <3> QED
      BY <1>6, <3>3
  <2> QED
    BY <2>1, <2>2 DEF Places
<1>8. Lists(q, S)
  <2> HIDE DEF R
  <2> QED
    BY <1>1, <1>5, <1>6, <1>7, PlacesList
<1>9. Order(S) = q
  BY <1>q DEF Order, Sorted
<1> QED
  BY <1>8, <1>9

-----------------------------------------------------------------------------
(* What a refresh stores of the sessions it lists.                          *)

\* A session as it is listed: its transcript may have grown, its stored row
\* is not newer.
Listing(h) ==
    /\ h.session \in Sessions /\ RowOk(h.session, RowOf(h), log[h.session])
    /\ db.row[h.session] # None => db.row[h.session].version <= h.version
ListInv ==
    job # None =>
      /\ job = [source |-> job.source, listed |-> job.listed, stage |-> job.stage]
      /\ IsSeq(job.listed) /\ \A k \in 1 .. Len(job.listed) : Listing(job.listed[k])
      /\ \A j, k \in 1 .. Len(job.listed) : job.listed[j].session = job.listed[k].session => j = k
      /\ job.stage \in {"chunks", "emit"} =>
           Len(job.listed) >= 1 /\ db.row[job.listed[1].session] # None
RefreshInv == TimeInv /\ RowsInv /\ ListInv /\ EvInv

LEMMA ClockNumber == ASSUME MemoryInv PROVE Clock \in Nat
<1>F. PICK F : F = [s \in Sessions |-> {s} \X DOMAIN log[s]]
  OBVIOUS
<1>1. \A s \in Sessions : IsFiniteSet(F[s])
  <2> TAKE s \in Sessions
  <2>1. IsSeq(log[s])
    BY DEF MemoryInv, LogInv, Recording
  <2>2. IsFiniteSet(DOMAIN log[s])
    BY <2>1, PlacesFinite
  <2>3. IsFiniteSet({s})
    BY FS_Singleton
  <2>4. IsFiniteSet({s} \X DOMAIN log[s])
    BY <2>2, <2>3, FS_Product
  <2> QED
    BY <1>F, <2>4
<1>2. IsFiniteSet({F[s] : s \in Sessions})
  BY NoneApart, ImageFinite
<1>U. PICK U : U = UNION {F[s] : s \in Sessions}
  OBVIOUS
<1>3. IsFiniteSet(U)
  <2>1. \A T \in {F[s] : s \in Sessions} : IsFiniteSet(T)
    BY <1>1
  <2>2. IsFiniteSet(UNION {F[s] : s \in Sessions})
    BY <1>2, <2>1, FS_UNION
  <2> QED
    BY <1>U, <2>2
<1>4. {{s} \X DOMAIN log[s] : s \in Sessions} = {F[s] : s \in Sessions}
  BY <1>F
<1>5. Clock = Cardinality(U)
  BY <1>4, <1>U DEF Clock
<1> QED
  BY <1>3, <1>5, FS_CardinalityType

LEMMA RowGrows ==
    ASSUME NEW s, NEW row, NEW rs, IsSeq(rs), RowOk(s, row, rs), NEW r
    PROVE  RowOk(s, row, Append(rs, r))
<1>t. PICK ts : ts = Append(rs, r)
  OBVIOUS
<1>1. Len(rs) \in Nat /\ Len(ts) = Len(rs) + 1 /\ \A k \in 1 .. Len(rs) : ts[k] = rs[k]
  BY <1>t, AppendSeq, SeqLength DEF IsAppended
<1>2. row.version \in 0 .. Len(rs) /\ row.version \in 0 .. Len(ts)
  BY <1>1 DEF RowOk
<1>3. \A k \in 1 .. row.version : ts[k] = rs[k]
  BY <1>1, <1>2
<1>4. RowOk(s, row, ts)
  BY <1>2, <1>3 DEF RowOk
<1> QED
  BY <1>t, <1>4

\* No step but a refresh's own touches what these are about.
LEMMA RefreshFrame ==
    ASSUME RefreshInv, UNCHANGED <<log, ev>>, db'.row = db.row, job' = None \/ job' = job
    PROVE  RefreshInv'
<1>1. TimeInv' /\ RowsInv' /\ EvInv'
  BY DEF RefreshInv, TimeInv, RowsInv, EvInv
<1>2. CASE job' = None
  BY <1>1, <1>2 DEF RefreshInv, ListInv
<1>3. CASE job' = job
  <2>1. \A h : Listing(h) <=> Listing(h)'
    BY DEF Listing
  <2>2. ListInv'
    BY <1>3, <2>1 DEF RefreshInv, ListInv
  <2> QED
    BY <1>1, <2>2 DEF RefreshInv
<1> QED
  BY <1>2, <1>3

LEMMA RefreshInit == Init => RefreshInv
<1> SUFFICES ASSUME Init PROVE RefreshInv
  OBVIOUS
<1>1. /\ log = [s \in Sessions |-> <<>>] /\ job = None /\ ev = {}
      /\ db = [row |-> [s \in Sessions |-> None], chunks |-> [s \in Sessions |-> <<>>],
               prov |-> [s \in Sessions |-> {}], plan |-> {}]
  BY DEF Init, EmptyDb
<1>2. TimeInv
  BY <1>1 DEF TimeInv
<1>3. RowsInv
  BY <1>1 DEF RowsInv
<1>4. ListInv
  BY <1>1 DEF ListInv
<1>5. EvInv
  BY <1>1, FS_EmptySet DEF EvInv, EventsOk
<1> QED
  BY <1>2, <1>3, <1>4, <1>5 DEF RefreshInv

LEMMA WriteKeepsRefresh ==
    ASSUME MemoryInv, RefreshInv, NEW s \in Sessions, NEW q \in Records[s], Write(s, q)
    PROVE  RefreshInv'
<1>r. PICK r : r = [at |-> Clock + 1, role |-> q.role, items |-> q.items]
  OBVIOUS
<1>1. log' = [log EXCEPT ![s] = Append(log[s], r)] /\ UNCHANGED <<db, ev, job>>
  BY <1>r DEF Write
<1>2. log'[s] = Append(log[s], r) /\ \A x \in Sessions : IsSeq(log[x]) /\ (x # s => log'[x] = log[x])
  BY <1>1 DEF MemoryInv, LogInv, Recording
<1>3. r.at \in Nat
  BY <1>r, ClockNumber
<1>4. TimeInv'
  <2> SUFFICES ASSUME NEW x \in Sessions, NEW k \in 1 .. Len(log'[x]) PROVE log'[x][k].at \in Nat
    BY DEF TimeInv
  <2>1. CASE x # s
    BY <1>2, <2>1 DEF RefreshInv, TimeInv
  <2>2. CASE x = s
    <3>1. PICK rs, ts : rs = log[s] /\ ts = log'[s]
      OBVIOUS
    <3>2. Len(rs) \in Nat /\ Len(ts) = Len(rs) + 1 /\ ts[Len(ts)] = r /\ \A i \in 1 .. Len(rs) : ts[i] = rs[i]
      BY <1>2, <3>1, AppendSeq, SeqLength DEF IsAppended
    <3>3. \A i \in 1 .. Len(rs) : rs[i].at \in Nat
      BY <3>1 DEF RefreshInv, TimeInv
    <3>4. k \in 1 .. Len(rs) \/ k = Len(ts)
      BY <2>2, <3>1, <3>2
    <3> QED
      BY <1>3, <2>2, <3>1, <3>2, <3>3, <3>4
  <2> QED
    BY <2>1, <2>2
<1>5. \A x \in Sessions : \A row : RowOk(x, row, log[x]) => RowOk(x, row, log'[x])
  <2> TAKE x \in Sessions
  <2> TAKE row
  <2>1. CASE x # s
    BY <1>2, <2>1
  <2>2. CASE x = s
    BY <1>2, <2>2, RowGrows
  <2> QED
    BY <2>1, <2>2
<1>6. RowsInv'
  BY <1>1, <1>5 DEF RefreshInv, RowsInv
<1>7. \A h : Listing(h) => Listing(h)'
  BY <1>1, <1>5 DEF Listing, RowOf
<1>8. ListInv'
  BY <1>1, <1>7 DEF RefreshInv, ListInv
<1>9. EvInv'
  BY <1>1 DEF RefreshInv, EvInv
<1> QED
  BY <1>4, <1>6, <1>8, <1>9 DEF RefreshInv

\* A transcript read for a listing.
LEMMA ExtractOk ==
    ASSUME MemoryInv, TimeInv, NEW s \in Sessions, NEW h,
           h = [session |-> s, version |-> Len(log[s]), found |-> ExtractMetadata(SourceOf[s], log[s])]
    PROVE  RowOk(s, RowOf(h), log[s])
<1>s. PICK rs, row : rs = log[s] /\ row = RowOf(h)
  OBVIOUS
<1>1. Recording(s, rs) /\ IsSeq(rs) /\ DOMAIN rs = 1 .. Len(rs) /\ Len(rs) \in Nat
  BY <1>s DEF MemoryInv, LogInv, Recording, IsSeq
<1> DEFINE Touched == UNION {UNION {ItemTouches(SourceOf[s], i) : i \in ToSet(rs[k].items)} : k \in DOMAIN rs}
<1>2. row.touched = Touched /\ row.updated = UpdatedAt(rs) /\ row.version = Len(rs)
      /\ row = [touched |-> row.touched, updated |-> row.updated, version |-> row.version]
  BY <1>s DEF RowOf, ExtractMetadata
<1>3. ASSUME NEW k \in 1 .. Len(rs), NEW j \in DOMAIN rs[k].items
      PROVE  ItemTouches(SourceOf[s], rs[k].items[j]) \subseteq Touched
  <2>1. rs[k].items[j] \in ToSet(rs[k].items)
    BY <1>3 DEF ToSet
  <2> QED
    BY <1>1, <2>1
<1>4. Touched \subseteq Touchable
  <2> SUFFICES ASSUME NEW k \in DOMAIN rs, NEW i \in ToSet(rs[k].items)
               PROVE  ItemTouches(SourceOf[s], i) \subseteq Touchable
    OBVIOUS
  <2>1. PICK r \in Records[s] : rs[k].items = r.items
    BY <1>1 DEF Recording, Recorded
  <2>2. i \in ToSet(r.items)
    BY <2>1
  <2>3. ASSUME NEW f \in ItemTouches(SourceOf[s], i) PROVE f \in Touchable
    <3>1. f \in UNION {ItemTouches(SourceOf[s], j) : j \in ToSet(r.items)}
      BY <2>2
    <3> DEFINE Of(c) == UNION {ItemTouches(SourceOf[s], j) : j \in ToSet(c.items)}
    <3>2. f \in UNION {Of(c) : c \in Records[s]}
      <4>1. f \in Of(r)
        BY <3>1
      <4> HIDE DEF Of
      <4> QED
        BY <4>1
    <3> DEFINE All(x) == UNION {UNION {ItemTouches(SourceOf[x], j) : j \in ToSet(c.items)} : c \in Records[x]}
    <3>3. f \in All(s)
      BY <3>2
    <3>4. f \in UNION {All(x) : x \in Sessions}
      <4> HIDE DEF All
      <4> QED
        BY <3>3
    <3> QED
      BY <3>4, Zenon DEF Touchable
  <2> QED
    BY <2>3
<1>5. UpdatedAt(rs) \in Nat
  <2>1. CASE rs = <<>>
    BY <2>1 DEF UpdatedAt
  <2>2. CASE rs # <<>>
    <3>f. PICK f : f = [k \in DOMAIN rs |-> rs[k].at]
      OBVIOUS
    <3>T. PICK T : T = {rs[k].at : k \in DOMAIN rs}
      OBVIOUS
    <3>1. T = {f[k] : k \in DOMAIN rs}
      BY <3>f, <3>T
    <3>2. IsFiniteSet(T)
      BY <1>1, <3>1, ImageFinite, PlacesFinite
    <3>3. \A k \in DOMAIN rs : rs[k].at \in Nat
      BY <1>s, <1>1 DEF TimeInv
    <3>4. T \subseteq Nat /\ T \subseteq Int
      BY <3>3, <3>T
    <3>5. T # {}
      <4>1. DOMAIN rs # {}
        <5>1. Len(rs) # 0
          BY <1>1, <2>2, EmptySeq
        <5>2. 1 \in 1 .. Len(rs)
          BY <1>1, <5>1
        <5> QED
          BY <1>1, <5>2
      <4> QED
        BY <3>T, <4>1
    <3>6. PICK m \in T : \A t \in T : t <= m
      BY <3>2, <3>4, <3>5, GreatestElement
    <3>7. \A k \in DOMAIN rs : rs[k].at <= m
      BY <3>6, <3>T
    <3>u. PICK u : u = UpdatedAt(rs)
      OBVIOUS
    <3>8. u = CHOOSE t \in T : \A k \in DOMAIN rs : rs[k].at <= t
      BY <2>2, <3>T, <3>u, Zenon DEF UpdatedAt
    <3>9. u \in T
      BY <3>6, <3>7, <3>8, Zenon
    <3> QED
      BY <3>4, <3>9, <3>u
  <2> QED
    BY <2>1, <2>2
<1> HIDE DEF Touched
<1>6. RowOk(s, row, rs)
  BY <1>1, <1>2, <1>3, <1>4, <1>5 DEF RowOk
<1> QED
  BY <1>s, <1>6

LEMMA ListKeepsRefresh == ASSUME MemoryInv, RefreshInv, RefreshList PROVE RefreshInv'
<1>S. PICK S : S = InSource(job.source)
  OBVIOUS
<1>q. PICK q : q = Order(S)
  OBVIOUS
<1> DEFINE Of(s) == [session |-> s, version |-> Len(log[s]), found |-> ExtractMetadata(SourceOf[s], log[s])]
<1>b. PICK b : b = [s \in S |-> Of(s)]
  OBVIOUS
<1>l. PICK l : l = [k \in 1 .. Cardinality(S) |-> Of(q[k])]
  OBVIOUS
<1>1. UNCHANGED <<log, db, ev>> /\ (job' = None \/ job' = [job EXCEPT !.stage = "row", !.listed = l])
  <2>1. UNCHANGED <<log, db, ev>>
    BY DEF RefreshList, agentVars
  <2>2. job' = IF S \cap torn # {} THEN None ELSE [job EXCEPT !.stage = "row", !.listed = l]
    BY <1>S, <1>q, <1>l DEF RefreshList
  <2> QED
    BY <2>1, <2>2
<1>2. CASE job' = None
  BY <1>1, <1>2, RefreshFrame
<1>3. CASE job' = [job EXCEPT !.stage = "row", !.listed = l]
  <2>1. S \subseteq Sessions
    BY <1>S DEF InSource
  <2>2. \A s \in Sessions : Len(log[s]) \in Nat
    BY SeqLength DEF MemoryInv, LogInv, Recording
  <2>m. \A s \in Sessions : Modified(s) \in Nat
    <3> TAKE s \in Sessions
    <3>1. PICK rs : rs = log[s]
      OBVIOUS
    <3>2. IsSeq(rs) /\ Len(rs) \in Nat
      BY <2>2, <3>1 DEF MemoryInv, LogInv, Recording
    <3>3. rs # <<>> => Len(rs) \in 1 .. Len(rs)
      <4>1. Len(rs) = 0 => rs = <<>>
        BY <3>2, EmptySeq DEF IsSeq
      <4> QED
        BY <3>2, <4>1
    <3>4. rs # <<>> => rs[Len(rs)].at \in Nat
      BY <3>1, <3>3 DEF RefreshInv, TimeInv
    <3> QED
      BY <3>1, <3>4 DEF Modified
  <2>3. Lists(q, S)
    BY <1>q, <2>1, <2>m, OrderLists
  <2>4. DOMAIN q = 1 .. Cardinality(S) /\ \A k \in DOMAIN q : q[k] \in S
    BY <2>3 DEF Lists
  <2>5. \A s \in S : b[s] = Of(s)
    BY <1>b
  <2>6. l = [k \in DOMAIN q |-> b[q[k]]]
    <3> HIDE DEF Of
    <3> QED
      BY <1>l, <2>4, <2>5
  <2>7. Picked(l, b, S, q)
    BY <2>3, <2>6, ListPicks
  <2>8. /\ IsSeq(l) /\ Len(l) \in Nat /\ \A k \in 1 .. Len(l) : q[k] \in S /\ l[k] = b[q[k]]
        /\ \A j, k \in 1 .. Len(l) : q[j] = q[k] => j = k
    BY <2>7 DEF Picked
  <2>9. ASSUME NEW s \in S PROVE Listing(b[s])' /\ b[s].session = s
    <3>1. PICK h : h = Of(s)
      OBVIOUS
    <3>2. RowOk(s, RowOf(h), log[s])
      BY <2>1, <3>1, ExtractOk DEF RefreshInv
    <3>3. h.session = s /\ h.version = Len(log[s])
      BY <3>1
    <3>4. db.row[s] # None => db.row[s].version \in 0 .. Len(log[s])
      BY <2>1 DEF RefreshInv, RowsInv, RowOk
    <3>5. db.row[s] # None => db.row[s].version <= h.version
      BY <2>1, <2>2, <3>3, <3>4
    <3>6. Listing(h)'
      BY <1>1, <2>1, <3>2, <3>3, <3>5 DEF Listing, RowOf
    <3> QED
      BY <2>5, <3>1, <3>3, <3>6
  <2>10. /\ \A k \in 1 .. Len(l) : Listing(l[k])'
         /\ \A j, k \in 1 .. Len(l) : l[j].session = l[k].session => j = k
    BY <2>8, <2>9
  <2>11. job' = [source |-> job'.source, listed |-> job'.listed, stage |-> job'.stage]
         /\ job'.listed = l /\ job'.stage = "row"
    <3>1. job = [source |-> job.source, listed |-> job.listed, stage |-> job.stage]
      BY DEF RefreshList, RefreshInv, ListInv
    <3> HIDE DEF Of
    <3> QED
      BY <1>3, <3>1
  <2>12. ListInv'
    BY <2>8, <2>10, <2>11 DEF ListInv
  <2>13. TimeInv' /\ RowsInv' /\ EvInv'
    BY <1>1 DEF RefreshInv, TimeInv, RowsInv, EvInv
  <2> QED
    BY <2>12, <2>13 DEF RefreshInv
<1> QED
  BY <1>1, <1>2, <1>3

LEMMA RowIsNotNone ==
    ASSUME NEW s, NEW row, NEW rs, RowOk(s, row, rs), Len(rs) \in Nat
    PROVE  row # None /\ row.version \in Nat /\ row.updated \in Nat
<1>1. /\ row = [touched |-> row.touched, updated |-> row.updated, version |-> row.version]
      /\ row.touched \in SUBSET Touchable /\ row.updated \in Nat /\ row.version \in Nat
  BY DEF RowOk
<1>2. row \in [touched : SUBSET Touchable, updated : Nat, version : Nat]
  BY <1>1
<1>3. None \notin [touched : SUBSET Touchable, updated : Nat, version : Nat]
  BY SessionsAssumption, Zenon
<1> QED
  BY <1>1, <1>2, <1>3

LEMMA RowKeepsRefresh == ASSUME MemoryInv, RefreshInv, RefreshRow PROVE RefreshInv'
<1>h. PICK h, s, r : h = job.listed[1] /\ s = h.session /\ r = RowOf(h)
  OBVIOUS
<1>u. PICK unchanged \in BOOLEAN : unchanged <=> db.row[s] # None /\ db.row[s].version = h.version
  OBVIOUS
<1>1. /\ UNCHANGED <<log, ev>> /\ job # None /\ job.stage = "row" /\ job.listed # <<>>
      /\ db' = IF unchanged THEN db ELSE [db EXCEPT !.row[s] = r]
      /\ \E stage \in {"emit", "chunks"} : job' = [job EXCEPT !.stage = stage]
  <2>1. UNCHANGED <<log, ev>> /\ job # None /\ job.stage = "row" /\ job.listed # <<>>
    BY DEF RefreshRow, agentVars
  <2>2. db' = IF unchanged THEN db ELSE [db EXCEPT !.row[s] = r]
    BY <1>h, <1>u DEF RefreshRow, Head1, UpsertSourceSession
  <2>3. \E stage \in {"emit", "chunks"} : job' = [job EXCEPT !.stage = stage]
    BY DEF RefreshRow
  <2> QED
    BY <2>1, <2>2, <2>3
<1>2. /\ job = [source |-> job.source, listed |-> job.listed, stage |-> job.stage]
      /\ IsSeq(job.listed) /\ \A k \in 1 .. Len(job.listed) : Listing(job.listed[k])
      /\ \A j, k \in 1 .. Len(job.listed) : job.listed[j].session = job.listed[k].session => j = k
  BY <1>1 DEF RefreshInv, ListInv
<1>3. Len(job.listed) \in Nat /\ Len(job.listed) >= 1
  <2>1. Len(job.listed) \in Nat
    BY <1>2, SeqLength
  <2>2. Len(job.listed) # 0
    BY <1>1, <1>2, EmptySeq DEF IsSeq
  <2> QED
    BY <2>1, <2>2
<1>4. Listing(h)
  BY <1>2, <1>3, <1>h
<1>5. s \in Sessions /\ RowOk(s, r, log[s]) /\ (db.row[s] # None => db.row[s].version <= h.version)
  BY <1>4, <1>h DEF Listing
<1>6. Len(log[s]) \in Nat
  BY <1>5, SeqLength DEF MemoryInv, LogInv, Recording
<1>7. r # None /\ r.version \in Nat /\ r.version = h.version
  BY <1>5, <1>6, <1>h, RowIsNotNone DEF RowOf
<1>8. db'.row = [x \in Sessions |-> db'.row[x]]
      /\ db'.row[s] # None /\ db'.row[s].version = h.version /\ (db.row[s] # None => RowOk(s, db.row[s], log[s]))
      /\ (db'.row[s] = db.row[s] \/ db'.row[s] = r)
      /\ \A x \in Sessions : x # s => db'.row[x] = db.row[x]
  <2>1. db.row = [x \in Sessions |-> db.row[x]] /\ (db.row[s] # None => RowOk(s, db.row[s], log[s]))
    BY <1>5 DEF RefreshInv, RowsInv
  <2>2. CASE unchanged
    BY <1>1, <1>u, <2>1, <2>2
  <2>3. CASE ~unchanged
    <3>1. db = [row |-> db.row, chunks |-> db.chunks, prov |-> db.prov, plan |-> db.plan]
      BY DEF MemoryInv, DbInv
    <3>2. db' = [db EXCEPT !.row[s] = r]
      BY <1>1, <2>3
    <3>3. db'.row = [db.row EXCEPT ![s] = r]
      BY <3>1, <3>2
    <3> QED
      BY <1>5, <1>7, <2>1, <3>3
  <2> QED
    BY <2>2, <2>3
<1>9. RowsInv'
  <2>1. ASSUME NEW x \in Sessions, db'.row[x] # None PROVE RowOk(x, db'.row[x], log[x])
    <3>1. CASE x = s
      BY <1>5, <1>8, <2>1, <3>1
    <3>2. CASE x # s
      BY <1>8, <2>1, <3>2 DEF RefreshInv, RowsInv
    <3> QED
      BY <3>1, <3>2
  <2> QED
    BY <1>1, <1>8, <2>1 DEF RowsInv
<1>l. PICK l : l = job.listed
  OBVIOUS
<1>10. ASSUME NEW k \in 1 .. Len(l) PROVE Listing(l[k])'
  <2>x. PICK x : x = l[k]
    OBVIOUS
  <2>1. x.session \in Sessions /\ RowOk(x.session, RowOf(x), log[x.session])
        /\ (db.row[x.session] # None => db.row[x.session].version <= x.version)
    BY <1>2, <1>l, <2>x DEF Listing
  <2>2. db'.row[x.session] # None => db'.row[x.session].version <= x.version
    <3>1. CASE k = 1
      <4>1. x = h /\ x.session = s
        BY <1>h, <1>l, <2>x, <3>1
      <4>2. h.version \in Nat
        BY <1>7
      <4> QED
        BY <1>8, <4>1, <4>2
    <3>2. CASE k # 1
      <4>1. x.session # s
        BY <1>2, <1>3, <1>h, <1>l, <2>x, <3>2
      <4> QED
        BY <1>8, <2>1, <4>1
    <3> QED
      BY <3>1, <3>2
  <2>3. Listing(x)'
    BY <1>1, <2>1, <2>2 DEF Listing, RowOf
  <2> QED
    BY <2>3, <2>x
<1>11. ListInv'
  <2>1. PICK stage \in {"emit", "chunks"} : job' = [job EXCEPT !.stage = stage]
    BY <1>1
  <2>2. job' = [source |-> job'.source, listed |-> job'.listed, stage |-> job'.stage] /\ job'.listed = l
    BY <1>2, <1>l, <2>1
  <2>4. /\ Len(l) >= 1 /\ db'.row[l[1].session] # None /\ IsSeq(l)
        /\ \A j, k \in 1 .. Len(l) : l[j].session = l[k].session => j = k
    BY <1>2, <1>3, <1>8, <1>h, <1>l
  <2> QED
    BY <1>10, <2>2, <2>4 DEF ListInv
<1> QED
  BY <1>1, <1>9, <1>11 DEF RefreshInv, TimeInv, EvInv

\* A move of the job to another stage, for the same sessions.
LEMMA StageKeepsRefresh ==
    ASSUME RefreshInv, job # None, UNCHANGED <<log, ev>>, db'.row = db.row,
           NEW stage, NEW source, job' = [job EXCEPT !.source = source, !.stage = stage],
           stage \in {"chunks", "emit"} => job.stage \in {"chunks", "emit"}
    PROVE  RefreshInv'
<1>1. job = [source |-> job.source, listed |-> job.listed, stage |-> job.stage]
  BY DEF RefreshInv, ListInv
<1>2. job' = [source |-> source, listed |-> job.listed, stage |-> stage]
  BY <1>1
<1>3. \A h : Listing(h) => Listing(h)'
  BY DEF Listing, RowOf
<1>l. PICK l : l = job.listed
  OBVIOUS
<1>4. /\ IsSeq(l) /\ \A k \in 1 .. Len(l) : Listing(l[k])
      /\ \A j, k \in 1 .. Len(l) : l[j].session = l[k].session => j = k
      /\ job.stage \in {"chunks", "emit"} => Len(l) >= 1 /\ db.row[l[1].session] # None
  BY <1>l DEF RefreshInv, ListInv
<1>5. job'.listed = l /\ job'.stage = stage
      /\ job' = [source |-> job'.source, listed |-> job'.listed, stage |-> job'.stage]
  BY <1>2, <1>l
<1>6. \A k \in 1 .. Len(l) : Listing(l[k])'
  BY <1>3, <1>4
<1>7. stage \in {"chunks", "emit"} => Len(l) >= 1 /\ db'.row[l[1].session] # None
  BY <1>4
<1>8. ListInv'
  BY <1>4, <1>5, <1>6, <1>7 DEF ListInv
<1> QED
  BY <1>8 DEF RefreshInv, TimeInv, RowsInv, EvInv

-----------------------------------------------------------------------------
(* Events of sessions.                                                      *)

\* Of a session and version there is one event, new or with new chunks.
OneOf(events, s, row, chunks) ==
    \E x : /\ EventOk(x) /\ x.id = <<s, row.version>>
           /\ AppendEvent(events, s, row, chunks) = {e \in events : e.id # <<s, row.version>>} \cup {x}

LEMMA Appended ==
    ASSUME NEW events, EventsOk(events), NEW s \in Sessions, NEW row, row.version \in Nat, row.updated \in Nat,
           NEW chunks
    PROVE  OneOf(events, s, row, chunks)
<1>i. PICK id : id = <<s, row.version>>
  OBVIOUS
<1>o. PICK old : old = {e \in events : e.id = id}
  OBVIOUS
<1>a. PICK a : a = AppendEvent(events, s, row, chunks)
  OBVIOUS
<1> DEFINE New == [id |-> id, touched |-> row.touched, updated |-> row.updated, chunks |-> chunks]
           With(e) == [e EXCEPT !.chunks = chunks]
<1>1. a = (events \ old) \cup IF old = {} THEN {New} ELSE {With(e) : e \in old}
  BY <1>i, <1>o, <1>a DEF AppendEvent
<1>2. events \ old = {e \in events : e.id # id}
  BY <1>o
<1>3. id = <<id[1], id[2]>> /\ id[1] \in Sessions /\ id[2] \in Nat
  BY <1>i
<1>4. CASE old = {}
  <2>1. PICK x : x = New
    OBVIOUS
  <2>2. x.id = id /\ "id" \in DOMAIN x /\ "updated" \in DOMAIN x /\ x.updated \in Nat
    BY <2>1
  <2>3. EventOk(x)
    BY <1>3, <2>2 DEF EventOk
  <2>4. a = {e \in events : e.id # id} \cup {x}
    BY <1>1, <1>2, <1>4, <2>1
  <2> QED
    BY <1>i, <1>a, <2>2, <2>3, <2>4 DEF OneOf
<1>5. CASE old # {}
  <2>1. PICK e \in old : TRUE
    BY <1>5
  <2>2. old = {e}
    BY <1>o, <2>1 DEF EventsOk
  <2>3. PICK x : x = With(e)
    OBVIOUS
  <2>4. EventOk(e) /\ e.id = id
    BY <1>o, <2>1 DEF EventsOk
  <2>5. DOMAIN x = DOMAIN e /\ x.id = e.id /\ x.updated = e.updated
    BY <2>3, <2>4 DEF EventOk
  <2>6. EventOk(x)
    BY <2>4, <2>5 DEF EventOk
  <2>7. {With(d) : d \in old} = {x}
    BY <2>2, <2>3
  <2> HIDE DEF New, With
  <2>8. a = {d \in events : d.id # id} \cup {x}
    BY <1>1, <1>2, <1>5, <2>7
  <2> QED
    BY <1>i, <1>a, <2>4, <2>5, <2>6, <2>8 DEF OneOf
<1> QED
  BY <1>4, <1>5

LEMMA AppendKeeps ==
    ASSUME NEW events, EventsOk(events), NEW s \in Sessions, NEW row, row.version \in Nat, row.updated \in Nat,
           NEW chunks
    PROVE  EventsOk(AppendEvent(events, s, row, chunks))
<1>o. OneOf(events, s, row, chunks)
  BY Appended, Zenon
<1>1. PICK x : /\ EventOk(x) /\ x.id = <<s, row.version>>
               /\ AppendEvent(events, s, row, chunks) = {e \in events : e.id # <<s, row.version>>} \cup {x}
  BY <1>o DEF OneOf
<1>K. PICK kept : kept = {e \in events : e.id # <<s, row.version>>}
  OBVIOUS
<1>a. PICK a : a = kept \cup {x}
  OBVIOUS
<1>2. IsFiniteSet(kept) /\ kept \subseteq events
  <2>1. kept \subseteq events
    BY <1>K
  <2> QED
    BY <2>1, FS_Subset DEF EventsOk
<1>3. IsFiniteSet(a)
  BY <1>2, <1>a, FS_AddElement
<1>4. \A e \in a : EventOk(e)
  BY <1>1, <1>2, <1>a DEF EventsOk
<1>5. \A d, e \in a : d.id = e.id => d = e
  BY <1>1, <1>2, <1>K, <1>a DEF EventsOk
<1>6. EventsOk(a)
  BY <1>3, <1>4, <1>5 DEF EventsOk
<1> QED
  BY <1>1, <1>6, <1>K, <1>a

\* Healing replaces events, and leaves one for each session and version.
LEMMA HealKeeps ==
    ASSUME MemoryInv, RefreshInv, NEW need, need \subseteq {s \in Sessions : db.row[s] # None}
    PROVE  EventsOk(HealMissing(ev, need))
<1>E. PICK events : events = ev
  OBVIOUS
<1>v. PICK v : v = [s \in Sessions |-> db.row[s].version]
  OBVIOUS
<1> DEFINE Part(s) == {e \in AppendEvent(events, s, db.row[s], db.chunks[s]) : e.id = <<s, db.row[s].version>>}
<1>X. PICK X : X = [s \in need |-> Part(s)]
  OBVIOUS
<1>K. PICK kept : kept = {e \in events : ~(e.id[1] \in need /\ e.id[2] = db.row[e.id[1]].version)}
  OBVIOUS
<1>H. PICK heal : heal = HealMissing(events, need)
  OBVIOUS
<1>1. heal = kept \cup UNION {X[s] : s \in need}
  <2>1. heal = kept \cup UNION {Part(s) : s \in need}
    BY <1>K, <1>H DEF HealMissing
  <2>2. {Part(s) : s \in need} = {X[s] : s \in need}
    <3> HIDE DEF Part
    <3> QED
      BY <1>X
  <2> QED
    BY <2>1, <2>2
<1>2. need \subseteq Sessions /\ \A s \in need : db.row[s] # None
  OBVIOUS
<1>3. EventsOk(events)
  BY <1>E DEF RefreshInv, EvInv
<1>4. ASSUME NEW s \in need PROVE \E x : X[s] = {x} /\ EventOk(x) /\ x.id = <<s, v[s]>>
  <2>1. s \in Sessions /\ RowOk(s, db.row[s], log[s])
    BY <1>2 DEF RefreshInv, RowsInv
  <2>2. Len(log[s]) \in Nat
    BY <2>1, SeqLength DEF MemoryInv, LogInv, Recording
  <2>3. PICK row, chunks, rs : row = db.row[s] /\ chunks = db.chunks[s] /\ rs = log[s]
    OBVIOUS
  <2>4. row.version \in Nat /\ row.updated \in Nat
    BY <2>1, <2>2, <2>3, RowIsNotNone
  <2>5. PICK x : /\ EventOk(x) /\ x.id = <<s, row.version>>
                 /\ AppendEvent(events, s, row, chunks) = {e \in events : e.id # <<s, row.version>>} \cup {x}
    <3>1. OneOf(events, s, row, chunks)
      BY <1>3, <2>1, <2>4, Appended, Zenon
    <3> QED
      BY <3>1 DEF OneOf
  <2>6. {e \in AppendEvent(events, s, row, chunks) : e.id = <<s, row.version>>} = {x}
    BY <2>5
  <2>7. X[s] = {x}
    BY <1>X, <2>3, <2>6
  <2>8. v[s] = row.version
    BY <1>v, <2>1, <2>3
  <2> QED
    BY <2>5, <2>7, <2>8
<1>5. IsFiniteSet(heal)
  <2>1. IsFiniteSet(need)
    BY <1>2, NoneApart, FS_Subset
  <2>2. IsFiniteSet({X[s] : s \in need})
    BY <2>1, ImageFinite
  <2>3. \A T \in {X[s] : s \in need} : IsFiniteSet(T)
    <3> SUFFICES ASSUME NEW s \in need PROVE IsFiniteSet(X[s])
      OBVIOUS
    <3>1. PICK x : X[s] = {x}
      BY <1>4
    <3>2. IsFiniteSet({x})
      BY FS_Singleton, Zenon
    <3> QED
      BY <3>1, <3>2
  <2>U. PICK U : U = UNION {X[s] : s \in need}
    OBVIOUS
  <2>4. IsFiniteSet(UNION {X[s] : s \in need})
    BY <2>2, <2>3, FS_UNION
  <2>5. kept \subseteq events
    BY <1>K
  <2>6. IsFiniteSet(kept)
    BY <1>3, <2>5, FS_Subset DEF EventsOk
  <2>7. IsFiniteSet(kept \cup U)
    BY <2>4, <2>6, <2>U, FS_Union
  <2> QED
    BY <1>1, <2>7, <2>U
<1>6. \A e \in heal : e \in kept \/ \E s \in need : e \in X[s]
  BY <1>1
<1>7. \A e \in heal : EventOk(e)
  BY <1>3, <1>4, <1>6, <1>K DEF EventsOk
<1>8. ASSUME NEW d \in heal, NEW e \in heal, d.id = e.id PROVE d = e
  <2>1. ASSUME NEW c \in kept, NEW s \in need, NEW x \in X[s], c.id = x.id PROVE FALSE
    <3>1. c.id = <<s, v[s]>>
      BY <1>4, <2>1
    <3>2. c.id[1] = s /\ c.id[2] = v[s]
      BY <3>1
    <3>3. c.id[1] \in need /\ c.id[2] = db.row[c.id[1]].version
      BY <1>2, <1>v, <3>2
    <3> QED
      BY <1>K, <3>3
  <2>2. CASE d \in kept
    <3>1. e \in kept
      BY <1>6, <1>8, <2>1, <2>2
    <3> QED
      BY <1>3, <1>8, <1>K, <2>2, <3>1 DEF EventsOk
  <2>3. CASE d \notin kept
    <3>1. PICK s \in need : d \in X[s]
      BY <1>6, <2>3
    <3>2. e \notin kept
      BY <1>8, <2>1, <3>1
    <3>3. PICK t \in need : e \in X[t]
      BY <1>6, <3>2
    <3>4. PICK x : X[s] = {x} /\ x.id = <<s, v[s]>>
      BY <1>4
    <3>5. PICK y : X[t] = {y} /\ y.id = <<t, v[t]>>
      BY <1>4
    <3>6. d = x /\ e = y
      BY <3>1, <3>3, <3>4, <3>5
    <3>7. s = t
      BY <1>8, <3>4, <3>5, <3>6
    <3> QED
      BY <3>4, <3>5, <3>6, <3>7
  <2> QED
    BY <2>2, <2>3
<1>9. EventsOk(heal)
  BY <1>5, <1>7, <1>8 DEF EventsOk
<1> QED
  BY <1>9, <1>E, <1>H

LEMMA EmitKeepsRefresh == ASSUME MemoryInv, RefreshInv, RefreshEmit PROVE RefreshInv'
<1>l. PICK l, s, m : l = job.listed /\ s = job.listed[1].session /\ m = Tail(job.listed)
  OBVIOUS
<1>1. /\ UNCHANGED <<log, db>> /\ job # None /\ job.stage = "emit"
      /\ ev' = AppendEvent(ev, s, db.row[s], db.chunks[s])
      /\ job' = [job EXCEPT !.stage = "row", !.listed = Tail(@)]
  BY <1>l DEF RefreshEmit, Head1, agentVars
<1>2. /\ job = [source |-> job.source, listed |-> l, stage |-> job.stage]
      /\ IsSeq(l) /\ \A k \in 1 .. Len(l) : Listing(l[k])
      /\ \A j, k \in 1 .. Len(l) : l[j].session = l[k].session => j = k
      /\ Len(l) >= 1 /\ db.row[s] # None /\ Len(l) \in Nat
  BY <1>1, <1>l, SeqLength DEF RefreshInv, ListInv
<1>3. s \in Sessions /\ RowOk(s, db.row[s], log[s])
  <2>1. 1 \in 1 .. Len(l)
    BY <1>2
  <2>2. Listing(l[1])
    BY <1>2, <2>1, Zenon
  <2>3. s = l[1].session
    BY <1>l
  <2>4. s \in Sessions
    BY <2>2, <2>3 DEF Listing
  <2> QED
    BY <1>2, <2>4 DEF RefreshInv, RowsInv
<1>4. EvInv'
  <2>1. Len(log[s]) \in Nat
    BY <1>3, SeqLength DEF MemoryInv, LogInv, Recording
  <2>2. PICK row, chunks, events, rs : row = db.row[s] /\ chunks = db.chunks[s] /\ events = ev /\ rs = log[s]
    OBVIOUS
  <2>3. row.version \in Nat /\ row.updated \in Nat
    BY <1>3, <2>1, <2>2, RowIsNotNone
  <2>4. EventsOk(events)
    BY <2>2 DEF RefreshInv, EvInv
  <2>5. EventsOk(AppendEvent(events, s, row, chunks))
    BY <1>3, <2>3, <2>4, AppendKeeps
  <2> QED
    BY <1>1, <2>2, <2>5 DEF EvInv
<1>5. IsSeq(m) /\ Len(m) \in Nat /\ Len(m) = Len(l) - 1 /\ \A k \in 1 .. Len(m) : k + 1 \in 1 .. Len(l) /\ m[k] = l[k + 1]
  <2>1. PICK S : l \in Seq(S)
    BY <1>2 DEF IsSeq
  <2>2. m = Tail(l) /\ l # <<>>
    BY <1>2, <1>l
  <2>3. m \in Seq(S) /\ Len(m) = Len(l) - 1 /\ \A k \in 1 .. Len(m) : m[k] = l[k + 1]
    BY <2>1, <2>2
  <2>4. Len(m) \in Nat /\ \A k \in 1 .. Len(m) : k + 1 \in 1 .. Len(l)
    BY <1>2, <2>3
  <2> QED
    BY <2>3, <2>4 DEF IsSeq
<1>6. job' = [source |-> job'.source, listed |-> job'.listed, stage |-> job'.stage]
      /\ job'.listed = m /\ job'.stage = "row"
  BY <1>1, <1>2, <1>l
<1>7. ASSUME NEW k \in 1 .. Len(m) PROVE Listing(m[k])'
  <2>1. PICK h : h = m[k]
    OBVIOUS
  <2>2. Listing(h)
    BY <1>2, <1>5, <2>1
  <2>3. Listing(h)'
    BY <1>1, <2>2 DEF Listing, RowOf
  <2> QED
    BY <2>1, <2>3
<1>8. \A j, k \in 1 .. Len(m) : m[j].session = m[k].session => j = k
  <2> SUFFICES ASSUME NEW j \in 1 .. Len(m), NEW k \in 1 .. Len(m), m[j].session = m[k].session PROVE j = k
    OBVIOUS
  <2>1. j + 1 = k + 1
    BY <1>2, <1>5
  <2> QED
    BY <1>5, <2>1
<1>9. ListInv'
  BY <1>5, <1>6, <1>7, <1>8 DEF ListInv
<1> QED
  BY <1>1, <1>4, <1>9 DEF RefreshInv, TimeInv, RowsInv

-----------------------------------------------------------------------------
(* The explain under way.                                                   *)

\* The session wrote the selected lines, and could have been found.
Had(s, c) ==
    /\ s \in Sessions /\ c.q.anchor.text # <<>> /\ ToSet(c.q.anchor.text) \cap ShortLines = {}
    /\ WroteText(s, JoinRepoPath(c.repo, c.rel), c.q.anchor.text)
\* Every step is of a session that has one of the lines.
Evidenced(c) ==
    /\ c.hint = None /\ Len(c.steps) >= 1
    /\ \A k \in 1 .. Len(c.steps) : /\ c.steps[k].session \in Sessions
                                    /\ HasLine(log[c.steps[k].session], ToSet(c.q.anchor.text))
CallShape(c) ==
    c = [q |-> c.q, repo |-> c.repo, rel |-> c.rel, stage |-> c.stage, steps |-> c.steps,
         hint |-> c.hint, strength |-> c.strength, had |-> c.had, events |-> c.events, told |-> c.told]
Searching == {"line", "text", "file"}
Telling == {"refine", "heal", "events", "enrich"}
\* A query that finds nothing of a text found no session that wrote it.
ByStage(c) ==
    /\ c.stage \in Searching \cup Telling
    /\ c.stage \in Searching => c.strength = None /\ c.hint = None /\ StepsOk(c.steps)
    /\ c.stage \in {"line", "text"} => c.steps = <<>>
    /\ c.stage = "file" => c.had = {}
    /\ c.stage \in Telling /\ c.strength = None => c.had = {}
    /\ c.stage \in Telling /\ c.strength # None => Evidenced(c)
    /\ c.stage # "enrich" => c.told = <<>>
\* A session comes once, whatever the times.
SessionsOnce(steps) ==
    /\ IsSeq(steps) /\ Len(steps) \in Nat
    /\ \A k \in 1 .. Len(steps) : "session" \in DOMAIN steps[k] /\ steps[k].session \in Sessions \cup {None}
    /\ \A j, k \in 1 .. Len(steps) :
          j # k => steps[j].session = None \/ steps[j].session # steps[k].session
\* Of the first steps is told what is so of them.
ToldOf(told, steps) ==
    /\ IsSeq(told) /\ Len(told) \in Nat
    /\ \A k \in 1 .. Len(told) : /\ told[k].session = steps[k].session
                                 /\ told[k].note # None => told[k].note <= told[k].at
CallOk(c) ==
    /\ CallShape(c)
    /\ c.q \in Requests /\ c.q.anchor # None /\ SessionsOnce(c.steps) /\ ToldOf(c.told, c.steps)
    /\ \A s \in c.had : Had(s, c)
    /\ ByStage(c)
ExplainInv == call # Idle => CallOk(call)

LEMMA StepsOnce == ASSUME NEW steps, StepsOk(steps) PROVE SessionsOnce(steps)
BY DEF StepsOk, SessionsOnce

LEMMA NothingTold == ASSUME NEW told, told = <<>>, NEW steps PROVE ToldOf(told, steps)
<1>1. IsSeq(told) /\ Len(told) = 0
  BY DEF IsSeq
<1> QED
  BY <1>1 DEF ToldOf

\* Refined steps are of the same sessions.
Refined(r, steps) ==
    /\ IsSeq(r) /\ Len(r) = Len(steps) /\ DOMAIN r = DOMAIN steps /\ DOMAIN r = 1 .. Len(steps)
    /\ \A k \in 1 .. Len(steps) : r[k].session = steps[k].session

LEMMA RefineOk ==
    ASSUME NEW steps, SessionsOnce(steps)
    PROVE  /\ Refined(RefineSourceSessionTimes(steps), steps)
           /\ \A k \in 1 .. Len(steps) : "session" \in DOMAIN RefineSourceSessionTimes(steps)[k]
<1>r. PICK r : r = RefineSourceSessionTimes(steps)
  OBVIOUS
<1>1. IsSeq(steps) /\ Len(steps) \in Nat /\ DOMAIN steps = 1 .. Len(steps)
      /\ \A k \in 1 .. Len(steps) : "session" \in DOMAIN steps[k]
  BY DEF SessionsOnce, IsSeq
<1>2. CASE r = steps
  BY <1>1, <1>2, <1>r DEF Refined
<1>3. CASE r # steps
  <2>R. PICK rows : rows = QueryFileBlame(db, call.rel, call.repo, MaxExplainDepth + 1)
    OBVIOUS
  <2> DEFINE Row(s) == SelectInSeq(rows, LAMBDA x : x.session = s /\ x.occurred # None)
  <2>0. r = [k \in DOMAIN steps |->
               IF steps[k].session = None \/ Row(steps[k].session) = 0 THEN steps[k]
               ELSE [steps[k] EXCEPT !.at = rows[Row(steps[k].session)].occurred]]
    BY <1>3, <1>r, <2>R DEF RefineSourceSessionTimes
  <2> HIDE DEF Row
  <2>1. DOMAIN r = DOMAIN steps
        /\ \A k \in DOMAIN steps :
             \/ r[k] = steps[k]
             \/ r[k] = [steps[k] EXCEPT !.at = rows[Row(steps[k].session)].occurred]
    BY <2>0
  <2>2. DOMAIN r = 1 .. Len(steps) /\ r = [k \in 1 .. Len(steps) |-> r[k]]
    <3>1. r = [k \in DOMAIN steps |-> r[k]]
      BY <2>0, Zenon
    <3> QED
      BY <1>1, <2>1, <3>1
  <2>3. \A k \in 1 .. Len(steps) : r[k].session = steps[k].session /\ "session" \in DOMAIN r[k]
    <3> TAKE k \in 1 .. Len(steps)
    <3>1. r[k] = steps[k] \/ r[k] = [steps[k] EXCEPT !.at = rows[Row(steps[k].session)].occurred]
      BY <1>1, <2>1
    <3>2. "session" \in DOMAIN steps[k]
      BY <1>1
    <3> QED
      BY <3>1, <3>2
  <2>4. IsSeq(r) /\ Len(r) = Len(steps)
    <3>1. PICK n \in Nat : n = Len(steps)
      BY <1>1
    <3>2. r = [k \in 1 .. n |-> r[k]]
      BY <1>1, <2>1, <2>2, <3>1
    <3>3. r \in Seq({r[k] : k \in 1 .. n}) /\ Len(r) = n
      BY <3>1, <3>2
    <3> QED
      BY <3>1, <3>3 DEF IsSeq
  <2> QED
    BY <1>1, <1>r, <2>2, <2>3, <2>4 DEF Refined
<1> QED
  BY <1>2, <1>3

LEMMA HealKeepsRefresh == ASSUME MemoryInv, RefreshInv, ExplainInv, ExplainHeal PROVE RefreshInv'
<1>1. UNCHANGED <<log, db, job>> /\ call # Idle
  BY DEF ExplainHeal, ExplainIn, agentVars, Idle
<1>2. SessionsOnce(call.steps)
  BY <1>1 DEF ExplainInv, CallOk
<1>3. PICK need : need \subseteq Healable(call.steps) /\ ev' = HealMissing(ev, need)
  <2>1. PICK unread, failed \in SUBSET Healable(call.steps) :
          ev' = HealMissing(ev, (WithoutChunks(call.steps) \cup unread) \ failed)
    BY Zenon DEF ExplainHeal
  <2>2. WithoutChunks(call.steps) \subseteq Healable(call.steps)
    BY DEF WithoutChunks
  <2> QED
    BY <2>1, <2>2
<1>4. need \subseteq {s \in Sessions : db.row[s] # None}
  <2> SUFFICES ASSUME NEW s \in need PROVE s \in Sessions /\ db.row[s] # None
    OBVIOUS
  <2>1. PICK steps : steps = call.steps
    OBVIOUS
  <2>2. db.row[s] # None /\ s # None /\ \E k \in DOMAIN steps : s = steps[k].session
    BY <1>3, <2>1 DEF Healable
  <2>3. DOMAIN steps = 1 .. Len(steps)
    BY <1>2, <2>1 DEF SessionsOnce, IsSeq
  <2> QED
    BY <1>2, <2>1, <2>2, <2>3 DEF SessionsOnce
<1>5. EventsOk(HealMissing(ev, need))
  BY <1>4, HealKeeps
<1>6. EvInv'
  BY <1>3, <1>5 DEF EvInv
<1>7. \A h : Listing(h) <=> Listing(h)'
  BY <1>1 DEF Listing, RowOf
<1>8. ListInv'
  BY <1>1, <1>7 DEF RefreshInv, ListInv
<1> QED
  BY <1>1, <1>6, <1>8 DEF RefreshInv, TimeInv, RowsInv

\* A transcript is parsed and its chunks stored, or the refresh fails.
LEMMA ChunksKeepRefresh == ASSUME MemoryInv, RefreshInv, RefreshChunks PROVE RefreshInv'
<1>1. UNCHANGED <<log, ev>> /\ job # None /\ job.stage = "chunks"
  BY DEF RefreshChunks, agentVars
<1>2. PICK s, c : db' = db \/ db' = [db EXCEPT !.chunks[s] = c, !.prov[s] = ProvenanceOf(s, c)]
  <2>1. PICK s : \/ db' = db
                 \/ \E c : LET new == UpsertSourceSessionChunks(db, s, c)
                           IN db' = IF new = None THEN db ELSE new
    BY Zenon DEF RefreshChunks
  <2>2. CASE db' = db
    BY <2>2
  <2>3. CASE db' # db
    <3>1. PICK c : LET new == UpsertSourceSessionChunks(db, s, c)
                   IN db' = IF new = None THEN db ELSE new
      BY <2>1, <2>3, Zenon
    <3>2. db' = UpsertSourceSessionChunks(db, s, c) /\ UpsertSourceSessionChunks(db, s, c) # None
      BY <2>3, <3>1
    <3> QED
      BY <3>2, Zenon DEF UpsertSourceSessionChunks
  <2> QED
    BY <2>2, <2>3
<1>3. db'.row = db.row
  <2>1. db = [row |-> db.row, chunks |-> db.chunks, prov |-> db.prov, plan |-> db.plan]
    BY DEF MemoryInv, DbInv
  <2>2. CASE db' = db
    BY <2>2
  <2>3. CASE db' # db
    <3>1. db' = [db EXCEPT !.chunks[s] = c, !.prov[s] = ProvenanceOf(s, c)]
      BY <1>2, <2>3
    <3> QED
      BY <2>1, <3>1
  <2> QED
    BY <2>2, <2>3
<1>4. job' = None \/ job' = [job EXCEPT !.stage = "emit"]
  BY DEF RefreshChunks
<1>5. CASE job' = None
  BY <1>1, <1>3, <1>5, RefreshFrame
<1>6. CASE job' = [job EXCEPT !.stage = "emit"]
  <2>1. job = [source |-> job.source, listed |-> job.listed, stage |-> job.stage]
    BY <1>1 DEF RefreshInv, ListInv
  <2>2. PICK source, stage : source = job.source /\ stage = "emit"
    OBVIOUS
  <2>3. job' = [job EXCEPT !.source = source, !.stage = stage]
    BY <1>6, <2>1, <2>2
  <2> QED
    BY <1>1, <1>3, <2>2, <2>3, StageKeepsRefresh
<1> QED
  BY <1>4, <1>5, <1>6

LEMMA PlansKeepRefresh == ASSUME MemoryInv, RefreshInv, RefreshPlans PROVE RefreshInv'
<1>1. UNCHANGED <<log, ev>> /\ job # None
  BY DEF RefreshPlans, agentVars
<1>2. db'.row = db.row
  <2>1. db = [row |-> db.row, chunks |-> db.chunks, prov |-> db.prov, plan |-> db.plan]
    BY DEF MemoryInv, DbInv
  <2>2. db' = db \/ (db' = UpsertSourcePlanWithEdges(db, planFile) /\ db' # None)
    BY Zenon DEF RefreshPlans
  <2>3. CASE db' = db
    BY <2>3
  <2>4. CASE db' = UpsertSourcePlanWithEdges(db, planFile) /\ db' # None
    <3>1. db' = [db EXCEPT !.plan = ToSet(planFile)]
      BY <2>4, Zenon DEF UpsertSourcePlanWithEdges
    <3> QED
      BY <2>1, <3>1
  <2> QED
    BY <2>2, <2>3, <2>4
<1>3. job' = None \/ job' = [job EXCEPT !.source = job.source + 1, !.stage = "list"]
  BY DEF RefreshPlans
<1>4. CASE job' = None
  BY <1>1, <1>2, <1>4, RefreshFrame
<1>5. CASE job' = [job EXCEPT !.source = job.source + 1, !.stage = "list"]
  <2>1. PICK source, stage : source = job.source + 1 /\ stage = "list"
    OBVIOUS
  <2>2. job' = [job EXCEPT !.source = source, !.stage = stage]
    BY <1>5, <2>1
  <2> QED
    BY <1>1, <1>2, <2>1, <2>2, StageKeepsRefresh
<1> QED
  BY <1>3, <1>4, <1>5

LEMMA BeginKeepsRefresh == ASSUME RefreshInv, RefreshBegin PROVE RefreshInv'
<1>l. PICK l : l = <<>>
  OBVIOUS
<1>1. UNCHANGED <<log, ev, db>> /\ job' = [source |-> 1, listed |-> l, stage |-> "list"]
  BY <1>l DEF RefreshBegin, agentVars
<1>2. IsSeq(l) /\ Len(l) = 0
  BY <1>l DEF IsSeq
<1>3. job'.listed = l /\ job'.stage = "list"
      /\ job' = [source |-> job'.source, listed |-> job'.listed, stage |-> job'.stage]
  BY <1>1
<1>4. ListInv'
  BY <1>2, <1>3 DEF ListInv
<1> QED
  BY <1>1, <1>4 DEF RefreshInv, TimeInv, RowsInv, EvInv

\* What does not touch what a refresh reads and writes.
LEMMA StutterKeepsRefresh == ASSUME RefreshInv, UNCHANGED <<log, db, ev, job>> PROVE RefreshInv'
BY RefreshFrame

LEMMA RefreshNext == ASSUME MemoryInv, RefreshInv, ExplainInv, [Next]_vars PROVE RefreshInv'
<1>1. ASSUME NEW s \in Sessions, Tear(s) PROVE RefreshInv'
  BY <1>1, StutterKeepsRefresh DEF Tear
<1>2. ASSUME NEW s \in Sessions, NEW r \in Records[s], Write(s, r) PROVE RefreshInv'
  BY <1>2, WriteKeepsRefresh
<1>3. ASSUME NEW p \in PlanFiles, WritePlan(p) PROVE RefreshInv'
  BY <1>3, StutterKeepsRefresh DEF WritePlan
<1>4. CASE RefreshBegin
  BY <1>4, BeginKeepsRefresh
<1>5. CASE RefreshList
  BY <1>5, ListKeepsRefresh
<1>6. CASE RefreshRow
  BY <1>6, RowKeepsRefresh
<1>7. CASE RefreshChunks
  BY <1>7, ChunksKeepRefresh
<1>8. CASE RefreshEmit
  BY <1>8, EmitKeepsRefresh
<1>9. CASE RefreshPlans
  BY <1>9, PlansKeepRefresh
<1>10. CASE RefreshCrash
  <2>1. UNCHANGED <<log, db, ev>> /\ job' = None
    BY <1>10 DEF RefreshCrash, agentVars
  <2> QED
    BY <2>1, RefreshFrame
<1>11. ASSUME NEW q \in Requests, Send(q) PROVE RefreshInv'
  BY <1>11, StutterKeepsRefresh DEF Send, agentVars
<1>12. ASSUME NEW x \in Surfaces, Receive(x) PROVE RefreshInv'
  <2>1. UNCHANGED <<log, db, ev, job>>
    BY <1>12, Zenon DEF Receive, agentVars
  <2> QED
    BY <2>1, StutterKeepsRefresh
<1>13. CASE ExplainLine \/ ExplainText \/ ExplainFile \/ ExplainRefine \/ ExplainEvents \/ ExplainEnrich
             \/ ExplainFinish
  <2>1. UNCHANGED <<log, db, ev, job>>
    BY <1>13 DEF ExplainLine, ExplainText, ExplainFile, ExplainRefine, ExplainEvents, ExplainEnrich,
                 ExplainFinish, ExplainQueryFrame, agentVars
  <2> QED
    BY <2>1, StutterKeepsRefresh
<1>14. CASE ExplainHeal
  BY <1>14, HealKeepsRefresh
<1>15. CASE UNCHANGED vars
  BY <1>15, StutterKeepsRefresh DEF vars
<1> QED
  BY <1>1, <1>2, <1>3, <1>4, <1>5, <1>6, <1>7, <1>8, <1>9, <1>10, <1>11, <1>12, <1>13, <1>14, <1>15
     DEF Next

-----------------------------------------------------------------------------
(* What grows with every step.                                              *)

\* The transcript of s may have one more record.
LogGrows(s) == log'[s] = log[s] \/ \E r : log'[s] = Append(log[s], r)
\* The stored row of s stays, or is of a later version.
VersionGrows(s) ==
    db.row[s] # None => db'.row[s] # None /\ db'.row[s].version >= db.row[s].version
\* The stored chunks of s stay, or are those of its transcript.
ChunksRenewed(s) ==
    db'.chunks[s] = db.chunks[s] \/ (log'[s] = log[s] /\ db'.chunks[s] \in FormatChunks(SourceOf[s], log[s]))
Grows(s) == LogGrows(s) /\ VersionGrows(s) /\ ChunksRenewed(s)

LEMMA NothingGrows ==
    ASSUME MemoryInv, RefreshInv, NEW s \in Sessions, log'[s] = log[s], db'.row[s] = db.row[s], db'.chunks[s] = db.chunks[s]
    PROVE  Grows(s)
<1>1. db.row[s] # None => db.row[s].version \in Nat
  <2>1. Len(log[s]) \in Nat
    BY SeqLength DEF MemoryInv, LogInv, Recording
  <2> QED
    BY <2>1, RowIsNotNone DEF RefreshInv, RowsInv
<1> QED
  BY <1>1 DEF Grows, LogGrows, VersionGrows, ChunksRenewed

LEMMA WriteGrows ==
    ASSUME MemoryInv, RefreshInv, NEW s \in Sessions, NEW x \in Sessions, NEW q \in Records[x], Write(x, q)
    PROVE  Grows(s)
<1>r. PICK r : r = [at |-> Clock + 1, role |-> q.role, items |-> q.items]
  OBVIOUS
<1>1. log' = [log EXCEPT ![x] = Append(log[x], r)] /\ UNCHANGED db
  BY <1>r DEF Write
<1>2. log = [y \in Sessions |-> log[y]]
  BY DEF MemoryInv, LogInv
<1>3. CASE s = x
  <2>1. log'[s] = Append(log[s], r)
    BY <1>1, <1>2, <1>3
  <2>2. VersionGrows(s) /\ ChunksRenewed(s)
    <3>1. db.row[s] # None => db.row[s].version \in Nat
      <4>1. Len(log[s]) \in Nat
        BY SeqLength DEF MemoryInv, LogInv, Recording
      <4> QED
        BY <4>1, RowIsNotNone DEF RefreshInv, RowsInv
    <3> QED
      BY <1>1, <3>1 DEF VersionGrows, ChunksRenewed
  <2> QED
    BY <2>1, <2>2 DEF Grows, LogGrows
<1>4. CASE s # x
  BY <1>1, <1>2, <1>4, NothingGrows
<1> QED
  BY <1>3, <1>4

LEMMA RowStepGrows ==
    ASSUME MemoryInv, RefreshInv, NEW s \in Sessions, RefreshRow
    PROVE  Grows(s)
<1>h. PICK h, x, r : h = job.listed[1] /\ x = h.session /\ r = RowOf(h)
  OBVIOUS
<1>1. /\ UNCHANGED log /\ job # None /\ job.listed # <<>>
      /\ db' = db \/ db' = [db EXCEPT !.row[x] = r]
  BY <1>h DEF RefreshRow, Head1, UpsertSourceSession, agentVars
<1>2. Listing(h)
  <2>1. IsSeq(job.listed) /\ \A k \in 1 .. Len(job.listed) : Listing(job.listed[k])
    BY <1>1 DEF RefreshInv, ListInv
  <2>2. Len(job.listed) \in Nat /\ Len(job.listed) # 0
    BY <1>1, <2>1, SeqLength, EmptySeq DEF IsSeq
  <2>3. 1 \in 1 .. Len(job.listed)
    BY <2>2
  <2> QED
    BY <1>h, <2>1, <2>3
<1>3. x \in Sessions /\ RowOk(x, r, log[x]) /\ (db.row[x] # None => db.row[x].version <= h.version)
  BY <1>2, <1>h DEF Listing
<1>4. Len(log[x]) \in Nat
  BY <1>3, SeqLength DEF MemoryInv, LogInv, Recording
<1>5. r # None /\ r.version = h.version
  BY <1>3, <1>4, <1>h, RowIsNotNone DEF RowOf
<1>6. db = [row |-> db.row, chunks |-> db.chunks, prov |-> db.prov, plan |-> db.plan]
      /\ db.row = [y \in Sessions |-> db.row[y]]
  BY DEF MemoryInv, DbInv, RefreshInv, RowsInv
<1>7. CASE db' = db
  BY <1>1, <1>7, NothingGrows
<1>8. CASE db' = [db EXCEPT !.row[x] = r]
  <2>1. db'.row = [db.row EXCEPT ![x] = r] /\ db'.chunks = db.chunks
    BY <1>6, <1>8
  <2>2. CASE s = x
    <3>1. db'.row[s] = r
      BY <1>6, <2>1, <2>2
    <3>2. VersionGrows(s)
      BY <1>3, <1>5, <2>2, <3>1 DEF VersionGrows
    <3> QED
      BY <1>1, <2>1, <3>2 DEF Grows, LogGrows, ChunksRenewed
  <2>3. CASE s # x
    <3>1. db'.row[s] = db.row[s]
      BY <1>6, <2>1, <2>3
    <3> QED
      BY <1>1, <2>1, <3>1, NothingGrows
  <2> QED
    BY <2>2, <2>3
<1> QED
  BY <1>1, <1>7, <1>8

LEMMA ChunksStepGrows ==
    ASSUME MemoryInv, RefreshInv, NEW s \in Sessions, RefreshChunks
    PROVE  Grows(s)
<1>1. UNCHANGED log
  BY DEF RefreshChunks, agentVars
<1>x. PICK x : x = Head1.session
  OBVIOUS
<1>2. db = [row |-> db.row, chunks |-> db.chunks, prov |-> db.prov, plan |-> db.plan]
      /\ db.chunks = [y \in Sessions |-> db.chunks[y]]
  BY DEF MemoryInv, DbInv
<1>3. CASE db' = db
  BY <1>1, <1>3, NothingGrows
<1>4. CASE db' # db
  <2>1. PICK c \in Parse(x) : LET new == UpsertSourceSessionChunks(db, x, c)
                              IN db' = IF new = None THEN db ELSE new
    BY <1>4, <1>x, Zenon DEF RefreshChunks
  <2>2. c \in FormatChunks(SourceOf[x], log[x])
    BY <2>1, Zenon DEF Parse
  <2>3. db' = [db EXCEPT !.chunks[x] = c, !.prov[x] = ProvenanceOf(x, c)]
    BY <1>4, <2>1, Zenon DEF UpsertSourceSessionChunks
  <2>4. db'.row = db.row /\ db'.chunks = [db.chunks EXCEPT ![x] = c]
    <3>p. PICK p : p = ProvenanceOf(x, c)
      OBVIOUS
    <3>1. db' = [db EXCEPT !.chunks[x] = c, !.prov[x] = p]
      BY <2>3, <3>p
    <3> QED
      BY <1>2, <3>1
  <2>5. CASE s = x
    <3>1. db'.chunks[s] = c
      BY <1>2, <2>4, <2>5
    <3>2. db.row[s] # None => db.row[s].version \in Nat
      <4>1. Len(log[s]) \in Nat
        BY SeqLength DEF MemoryInv, LogInv, Recording
      <4> QED
        BY <4>1, RowIsNotNone DEF RefreshInv, RowsInv
    <3>3. VersionGrows(s)
      BY <2>4, <3>2 DEF VersionGrows
    <3>4. ChunksRenewed(s)
      BY <1>1, <2>2, <2>5, <3>1 DEF ChunksRenewed
    <3> QED
      BY <1>1, <3>3, <3>4 DEF Grows, LogGrows
  <2>6. CASE s # x
    <3>1. db'.chunks[s] = db.chunks[s]
      BY <1>2, <2>4, <2>6
    <3> QED
      BY <1>1, <2>4, <3>1, NothingGrows
  <2> QED
    BY <2>5, <2>6
<1> QED
  BY <1>3, <1>4

LEMMA StepGrows ==
    ASSUME MemoryInv, RefreshInv, [Next]_vars, NEW s \in Sessions
    PROVE  Grows(s)
<1>1. ASSUME UNCHANGED <<log, db>> PROVE Grows(s)
  BY <1>1, NothingGrows
<1>2. ASSUME NEW x \in Sessions, Tear(x) PROVE Grows(s)
  BY <1>1, <1>2 DEF Tear
<1>3. ASSUME NEW x \in Sessions, NEW r \in Records[x], Write(x, r) PROVE Grows(s)
  BY <1>3, WriteGrows
<1>4. ASSUME NEW p \in PlanFiles, WritePlan(p) PROVE Grows(s)
  BY <1>1, <1>4 DEF WritePlan
<1>5. CASE RefreshBegin \/ RefreshList \/ RefreshEmit \/ RefreshCrash
  BY <1>1, <1>5 DEF RefreshBegin, RefreshList, RefreshEmit, RefreshCrash, agentVars
<1>6. CASE RefreshRow
  BY <1>6, RowStepGrows
<1>7. CASE RefreshChunks
  BY <1>7, ChunksStepGrows
<1>8. CASE RefreshPlans
  <2>1. UNCHANGED log
    BY <1>8 DEF RefreshPlans, agentVars
  <2>2. db = [row |-> db.row, chunks |-> db.chunks, prov |-> db.prov, plan |-> db.plan]
    BY DEF MemoryInv, DbInv
  <2>3. db' = db \/ (db' = UpsertSourcePlanWithEdges(db, planFile) /\ db' # None)
    BY <1>8, Zenon DEF RefreshPlans
  <2>4. CASE db' = db
    BY <1>1, <2>1, <2>4
  <2>5. CASE db' = UpsertSourcePlanWithEdges(db, planFile) /\ db' # None
    <3>1. db' = [db EXCEPT !.plan = ToSet(planFile)]
      BY <2>5, Zenon DEF UpsertSourcePlanWithEdges
    <3>2. db'.row = db.row /\ db'.chunks = db.chunks
      BY <2>2, <3>1
    <3> QED
      BY <2>1, <3>2, NothingGrows
  <2> QED
    BY <2>3, <2>4, <2>5
<1>9. ASSUME NEW q \in Requests, Send(q) PROVE Grows(s)
  BY <1>1, <1>9 DEF Send, agentVars
<1>10. ASSUME NEW x \in Surfaces, Receive(x) PROVE Grows(s)
  <2>1. UNCHANGED <<log, db>>
    BY <1>10, Zenon DEF Receive, agentVars
  <2> QED
    BY <1>1, <2>1
<1>11. CASE ExplainGoesOn
  BY <1>1, <1>11, GoingOnFrame
<1>12. CASE ExplainFinish
  BY <1>1, <1>12 DEF ExplainFinish, agentVars
<1>13. CASE UNCHANGED vars
  BY <1>1, <1>13 DEF vars
<1> QED
  BY <1>2, <1>3, <1>4, <1>5, <1>6, <1>7, <1>8, <1>9, <1>10, <1>11, <1>12, <1>13 DEF Next, ExplainGoesOn

LEMMA HasLineKept ==
    ASSUME MemoryInv, MemoryInv', NEW s \in Sessions, LogGrows(s), NEW lines, HasLine(log[s], lines)
    PROVE  HasLine(log'[s], lines)
<1>t. PICK rs, ts : rs = log[s] /\ ts = log'[s]
  OBVIOUS
<1>1. IsSeq(rs) /\ Recording(s, ts)
  BY <1>t DEF MemoryInv, LogInv, Recording
<1>2. HasLine(rs, lines) /\ (ts = rs \/ \E r : ts = Append(rs, r))
  BY <1>t DEF LogGrows
<1>3. ASSUME NEW r, ts = Append(rs, r) PROVE HasLine(ts, lines)
  <2>1. Recording(s, Append(rs, r))
    BY <1>1, <1>3
  <2>2. HasLine(Append(rs, r), lines)
    BY <1>1, <1>2, <2>1, HasLineNext, Zenon
  <2> QED
    BY <1>3, <2>2
<1>4. HasLine(ts, lines)
  BY <1>2, <1>3
<1> QED
  BY <1>4, <1>t

\* The item is an edit of the session that writes the text.
Edited(s, i, path) == \E f \in ItemTouches(SourceOf[s], i) :
                         (RepoOf[s] # None \/ IsAbsolute(f)) /\ path = JoinRepoPath(RepoOf[s], f)
WritesText(s, i, path, text) ==
    /\ i.kind = "call" /\ i.tool \in {"Edit", "apply_patch"}
    /\ Edited(s, i, path)
    /\ \A m \in DOMAIN text : \E n \in DOMAIN i.new : i.new[n].of = text[m] /\ i.new[n].mark # "-"
HasChunk(c, id) == \E n \in DOMAIN c : c[n].id[3] = id
WroteAt(s, rs, k, j, path, text) ==
    k \in DOMAIN rs /\ j \in DOMAIN rs[k].items /\ WritesText(s, rs[k].items[j], path, text)

WroteSome(s, path, text) ==
    \E k, j : /\ WroteAt(s, log[s], k, j, path, text)
              /\ HasChunk(db.chunks[s], log[s][k].items[j].call)
              /\ db.row[s] # None /\ k <= db.row[s].version

LEMMA WroteTextMeans ==
    ASSUME NEW s, NEW path, NEW text
    PROVE  WroteText(s, path, text) <=> WroteSome(s, path, text)
<1>1. ASSUME WroteText(s, path, text)
      PROVE  \E k, j : /\ WroteAt(s, log[s], k, j, path, text)
                       /\ HasChunk(db.chunks[s], log[s][k].items[j].call)
                       /\ db.row[s] # None /\ k <= db.row[s].version
  <2>1. PICK k \in DOMAIN log[s] : \E j \in DOMAIN log[s][k].items :
          /\ log[s][k].items[j].kind = "call" /\ log[s][k].items[j].tool \in {"Edit", "apply_patch"}
          /\ Edited(s, log[s][k].items[j], path)
          /\ \A m \in DOMAIN text : \E n \in DOMAIN log[s][k].items[j].new :
               log[s][k].items[j].new[n].of = text[m] /\ log[s][k].items[j].new[n].mark # "-"
          /\ \E n \in DOMAIN db.chunks[s] : db.chunks[s][n].id[3] = log[s][k].items[j].call
          /\ db.row[s] # None /\ k <= db.row[s].version
    BY <1>1, Zenon DEF WroteText, Edited
  <2>2. PICK j \in DOMAIN log[s][k].items :
          /\ log[s][k].items[j].kind = "call" /\ log[s][k].items[j].tool \in {"Edit", "apply_patch"}
          /\ Edited(s, log[s][k].items[j], path)
          /\ \A m \in DOMAIN text : \E n \in DOMAIN log[s][k].items[j].new :
               log[s][k].items[j].new[n].of = text[m] /\ log[s][k].items[j].new[n].mark # "-"
          /\ \E n \in DOMAIN db.chunks[s] : db.chunks[s][n].id[3] = log[s][k].items[j].call
          /\ db.row[s] # None /\ k <= db.row[s].version
    BY <2>1, Zenon
  <2>3. WroteAt(s, log[s], k, j, path, text)
    BY <2>2, Zenon DEF WroteAt, WritesText
  <2>4. HasChunk(db.chunks[s], log[s][k].items[j].call)
    BY <2>2, Zenon DEF HasChunk
  <2> QED
    BY <2>2, <2>3, <2>4, Zenon
<1>2. ASSUME NEW k, NEW j, WroteAt(s, log[s], k, j, path, text),
             HasChunk(db.chunks[s], log[s][k].items[j].call), db.row[s] # None, k <= db.row[s].version
      PROVE  WroteText(s, path, text)
  <2>1. k \in DOMAIN log[s] /\ j \in DOMAIN log[s][k].items
    BY <1>2, Zenon DEF WroteAt
  <2>2. /\ log[s][k].items[j].kind = "call" /\ log[s][k].items[j].tool \in {"Edit", "apply_patch"}
        /\ Edited(s, log[s][k].items[j], path)
        /\ \A m \in DOMAIN text : \E n \in DOMAIN log[s][k].items[j].new :
               log[s][k].items[j].new[n].of = text[m] /\ log[s][k].items[j].new[n].mark # "-"
    BY <1>2, Zenon DEF WroteAt, WritesText
  <2>3. \E n \in DOMAIN db.chunks[s] : db.chunks[s][n].id[3] = log[s][k].items[j].call
    BY <1>2, Zenon DEF HasChunk
  <2> QED
    BY <1>2, <2>1, <2>2, <2>3, Zenon DEF WroteText, Edited
<1> QED
  BY <1>1, <1>2, Zenon DEF WroteSome

LEMMA WroteTextThen ==
    ASSUME NEW s, NEW path, NEW text
    PROVE  WroteText(s, path, text)' <=> WroteSome(s, path, text)'
<1>1. WroteText(s, path, text) <=> WroteSome(s, path, text)
  BY WroteTextMeans
<1> QED
  BY <1>1, PTL

\* The chunks of a transcript have every call of it.
LEMMA ChunkOfCall ==
    ASSUME NEW s \in Sessions, NEW rs, Recording(s, rs), ReadAs(s, rs, ReadTranscript(SourceOf[s], rs)),
           NEW c \in FormatChunks(SourceOf[s], rs), NEW q \in CallsIn(rs)
    PROVE  HasChunk(c, CallAt(rs, q).call)
<1>1. IsSeq(c)
  BY Formatted
<1>2. PICK n : IsChunkOf(s, c, n, rs, q)
  BY FormattedCalls
<1>3. n \in 1 .. Len(c) /\ c[n] = ChunkOf(s, n, rs, q)
  BY <1>2 DEF IsChunkOf
<1>4. c[n].id[3] = CallAt(rs, q).call
  BY <1>3, ChunkShape
<1>5. n \in DOMAIN c
  BY <1>1, <1>3 DEF IsSeq
<1> QED
  BY <1>4, <1>5 DEF HasChunk

LEMMA WroteTextKept ==
    ASSUME MemoryInv, MemoryInv', RefreshInv, RefreshInv', NEW s \in Sessions, Grows(s),
           NEW path, NEW text, WroteText(s, path, text)
    PROVE  WroteText(s, path, text)'
<1>t. PICK rs, ts : rs = log[s] /\ ts = log'[s]
  OBVIOUS
<1>c. PICK c, d : c = db.chunks[s] /\ d = db'.chunks[s]
  OBVIOUS
<1>1. PICK k, j : /\ WroteAt(s, rs, k, j, path, text)
                  /\ HasChunk(c, rs[k].items[j].call)
                  /\ db.row[s] # None /\ k <= db.row[s].version
  <2>1. WroteSome(s, path, text)
    BY WroteTextMeans
  <2> QED
    BY <2>1, <1>t, <1>c, Zenon DEF WroteSome
<1>2. Recording(s, rs) /\ IsSeq(rs) /\ Len(rs) \in Nat /\ DOMAIN rs = 1 .. Len(rs)
      /\ ReadAs(s, rs, ReadTranscript(SourceOf[s], rs))
  BY <1>t DEF MemoryInv, LogInv, Recording, IsSeq
<1>3. k \in 1 .. Len(rs) /\ j \in DOMAIN rs[k].items /\ WritesText(s, rs[k].items[j], path, text)
  BY <1>1, <1>2 DEF WroteAt
<1>4. DOMAIN rs[k].items = 1 .. Len(rs[k].items)
  BY <1>2, <1>3, RecordShape DEF Recording
<1>q. PICK q : q = <<k, j>>
  OBVIOUS
<1>5. q \in CallsIn(rs) /\ CallAt(rs, q) = rs[k].items[j]
  <2>1. rs[k].items[j].kind = "call"
    BY <1>3 DEF WritesText
  <2>2. j \in 1 .. Len(rs[k].items)
    BY <1>3, <1>4
  <2>3. q \in CallsIn(rs)
    BY <1>2, <1>3, <1>q, <2>1, <2>2, CallKnown
  <2> QED
    BY <1>q, <2>3 DEF CallAt
<1>6. ts[k] = rs[k] /\ k \in DOMAIN ts
  <2>1. ts = rs \/ \E r : ts = Append(rs, r)
    BY <1>t DEF Grows, LogGrows
  <2>2. CASE ts = rs
    BY <1>2, <1>3, <2>2
  <2>3. ASSUME NEW r, ts = Append(rs, r) PROVE ts[k] = rs[k] /\ k \in DOMAIN ts
    <3>1. IsSeq(ts) /\ IsAppended(ts, rs, r)
      BY <1>2, <2>3, AppendSeq
    <3> QED
      BY <1>2, <1>3, <3>1 DEF IsAppended, IsSeq
  <2> QED
    BY <2>1, <2>2, <2>3
<1>7. HasChunk(d, ts[k].items[j].call)
  <2>1. CASE d = c
    BY <1>1, <1>6, <2>1
  <2>2. CASE d \in FormatChunks(SourceOf[s], rs)
    <3>1. HasChunk(d, CallAt(rs, q).call)
      BY <1>2, <1>5, <2>2, ChunkOfCall
    <3> QED
      BY <1>5, <1>6, <3>1
  <2> QED
    BY <1>t, <1>c, <2>1, <2>2 DEF Grows, ChunksRenewed
<1>8. WroteAt(s, ts, k, j, path, text)
  BY <1>1, <1>6 DEF WroteAt
<1>9. db'.row[s] # None /\ k <= db'.row[s].version
  <2>v. PICK v, w : v = db.row[s].version /\ w = db'.row[s].version
    OBVIOUS
  <2>1. db'.row[s] # None /\ w >= v
    BY <1>1, <2>v DEF Grows, VersionGrows
  <2>2. v \in Nat
    BY <1>1, <1>2, <1>t, <2>v, RowIsNotNone DEF RefreshInv, RowsInv
  <2>3. w \in Nat
    <3>1. Len(ts) \in Nat
      BY <1>t, SeqLength DEF MemoryInv, LogInv, Recording
    <3>2. PICK row : row = db'.row[s]
      OBVIOUS
    <3>3. RowOk(s, row, ts)
      BY <1>t, <2>1, <3>2 DEF RefreshInv, RowsInv
    <3> QED
      BY <2>v, <3>1, <3>2, <3>3, RowIsNotNone
  <2> QED
    BY <1>1, <1>2, <1>3, <2>v, <2>1, <2>2, <2>3
<1>10. \E a, b : /\ WroteAt(s, log'[s], a, b, path, text)
                 /\ HasChunk(db'.chunks[s], log'[s][a].items[b].call)
                 /\ db'.row[s] # None /\ a <= db'.row[s].version
  BY <1>7, <1>8, <1>9, <1>c, <1>t, Zenon
<1>11. WroteSome(s, path, text)'
  BY <1>10, Zenon DEF WroteSome
<1> QED
  BY <1>11, WroteTextThen

\* What is right of an explain stays so, whatever others do.
LEMMA CallKept ==
    ASSUME MemoryInv, MemoryInv', RefreshInv, RefreshInv', \A s \in Sessions : Grows(s),
           NEW c, CallOk(c)
    PROVE  CallOk(c)'
<1>1. \A s \in c.had : Had(s, c)'
  <2> TAKE s \in c.had
  <2>1. PICK path, text : path = JoinRepoPath(c.repo, c.rel) /\ text = c.q.anchor.text
    OBVIOUS
  <2>2. s \in Sessions /\ text # <<>> /\ ToSet(text) \cap ShortLines = {} /\ WroteText(s, path, text)
    BY <2>1 DEF CallOk, Had
  <2>3. WroteText(s, path, text)'
    BY <2>2, WroteTextKept
  <2> QED
    BY <2>1, <2>2, <2>3 DEF Had
<1>2. Evidenced(c) => Evidenced(c)'
  <2> SUFFICES ASSUME Evidenced(c), NEW k \in 1 .. Len(c.steps)
               PROVE  HasLine(log'[c.steps[k].session], ToSet(c.q.anchor.text))
    BY DEF Evidenced
  <2>1. PICK s, lines : s = c.steps[k].session /\ lines = ToSet(c.q.anchor.text)
    OBVIOUS
  <2>2. s \in Sessions /\ HasLine(log[s], lines)
    BY <2>1 DEF Evidenced
  <2>3. HasLine(log'[s], lines)
    BY <2>2, HasLineKept DEF Grows
  <2> QED
    BY <2>1, <2>3
<1>3. ByStage(c)'
  BY <1>2 DEF CallOk, ByStage
<1> QED
  BY <1>1, <1>3 DEF CallOk

\* Only an edit of the session's own agent touches a file by one of those tools.
LEMMA EditTouches ==
    ASSUME NEW source, NEW i, i.kind = "call", i.tool \in {"Edit", "apply_patch"},
           NEW f, f \in ItemTouches(source, i)
    PROVE  \/ source = "claude_code" /\ i.tool = "Edit"
           \/ source = "codex_app" /\ i.tool = "apply_patch"
BY DEF ItemTouches

\* A session that wrote the lines is found by their text.
LEMMA HadIsFound ==
    ASSUME MemoryInv, RefreshInv, NEW s, NEW c, Had(s, c), IsLines(c.q.anchor.text)
    PROVE  /\ s \in SessionsTouching(db, JoinRepoPath(c.repo, c.rel))
           /\ \E n : Shows(db.chunks[s], n, c.q.anchor.text)
<1>p. PICK path, text : path = JoinRepoPath(c.repo, c.rel) /\ text = c.q.anchor.text
  OBVIOUS
<1>1. s \in Sessions /\ text # <<>> /\ ToSet(text) \cap ShortLines = {} /\ WroteText(s, path, text) /\ IsLines(text)
  BY <1>p DEF Had
<1>t. PICK rs, chunks, row : rs = log[s] /\ chunks = db.chunks[s] /\ row = db.row[s]
  OBVIOUS
<1>2. PICK k, j : /\ WroteAt(s, rs, k, j, path, text) /\ HasChunk(chunks, rs[k].items[j].call)
                  /\ row # None /\ k <= row.version
  <2>1. WroteSome(s, path, text)
    BY <1>1, WroteTextMeans
  <2> QED
    BY <2>1, <1>t, Zenon DEF WroteSome
<1>3. Recording(s, rs) /\ IsSeq(rs) /\ Len(rs) \in Nat /\ DOMAIN rs = 1 .. Len(rs)
  BY <1>1, <1>t DEF MemoryInv, LogInv, Recording, IsSeq
<1>4. k \in 1 .. Len(rs) /\ j \in DOMAIN rs[k].items /\ WritesText(s, rs[k].items[j], path, text)
  BY <1>2, <1>3 DEF WroteAt
<1>i. PICK i, q : i = rs[k].items[j] /\ q = <<k, j>>
  OBVIOUS
<1>5. i.kind = "call" /\ i.tool \in {"Edit", "apply_patch"}
      /\ \A m \in DOMAIN text : \E n \in DOMAIN i.new : i.new[n].of = text[m]
  BY <1>4, <1>i DEF WritesText
<1>6. PICK f \in ItemTouches(SourceOf[s], i) :
         (RepoOf[s] # None \/ IsAbsolute(f)) /\ path = JoinRepoPath(RepoOf[s], f)
  BY <1>4, <1>i, Zenon DEF WritesText, Edited
<1>7. q \in CallsIn(rs) /\ CallAt(rs, q) = i
  <2>1. DOMAIN rs[k].items = 1 .. Len(rs[k].items)
    BY <1>3, <1>4, <1>1, RecordShape DEF Recording
  <2>2. j \in 1 .. Len(rs[k].items)
    BY <1>4, <2>1
  <2>3. q \in CallsIn(rs)
    BY <1>1, <1>3, <1>4, <1>5, <1>i, <2>2, CallKnown
  <2> QED
    BY <1>i, <2>3 DEF CallAt
<1>8. s \in SessionsTouching(db, path)
  <2>1. RowOk(s, row, rs)
    BY <1>1, <1>2, <1>t DEF RefreshInv, RowsInv
  <2>2. row.version \in Nat
    BY <1>3, <2>1, RowIsNotNone
  <2>3. k \in 1 .. row.version
    BY <1>2, <1>3, <1>4, <2>2
  <2>4. f \in row.touched
    BY <1>4, <1>6, <1>i, <2>1, <2>3 DEF RowOk
  <2>5. BlamePathMatches(path, f, RepoOf[s])
    <3>1. CASE RepoOf[s] # None
      BY <1>6, <3>1, Zenon DEF BlamePathMatches
    <3>2. CASE IsAbsolute(f)
      BY <1>6, <3>2, Zenon DEF BlamePathMatches, JoinRepoPath
    <3> QED
      BY <1>6, <3>1, <3>2
  <2> QED
    BY <1>1, <1>2, <1>t, <2>4, <2>5, Zenon DEF SessionsTouching
<1>9. \E n : Shows(chunks, n, text)
  <2>1. IsSeq(chunks) /\ FromCalls(s, rs, chunks)
    BY <1>1, <1>t DEF MemoryInv, DbInv, Stored
  <2>2. PICK n \in DOMAIN chunks : chunks[n].id[3] = i.call
    BY <1>2, <1>i DEF HasChunk
  <2>3. n \in 1 .. Len(chunks)
    BY <2>1, <2>2 DEF IsSeq
  <2>4. i.call # None
    BY <1>1, <1>3, <1>7, CallKnown
  <2>5. ~IsText(chunks[n])
    BY <2>2, <2>4, ChunkShape
  <2>6. PICK p \in CallsIn(rs) : \E out \in {<<>>, OutputAt(rs, p)} :
          chunks[n] = ToolCallChunk(SourceOf[s], n - 1, WaitingAt(rs, p), out)
    BY <2>1, <2>3, <2>5 DEF FromCalls
  <2>7. PICK out : chunks[n] = ToolCallChunk(SourceOf[s], n - 1, WaitingAt(rs, p), out)
    BY <2>6
  <2>8. CallAt(rs, p).call = i.call
    BY <2>2, <2>7, ChunkShape
  <2>9. p = q
    BY <1>1, <1>3, <1>7, <2>8, CallsApart
  <2>10. OfCall(SourceOf[s], chunks[n], i, out)
    <3>1. PICK source, m, at : source = SourceOf[s] /\ m = n - 1 /\ at = rs[q[1]].at
      OBVIOUS
    <3>2. chunks[n] = ToolCallChunk(source, m, Waiting(i, at), out)
      BY <1>7, <2>7, <2>9, <3>1 DEF WaitingAt
    <3>3. OfCall(source, ToolCallChunk(source, m, Waiting(i, at), out), i, out)
      BY CallChunk
    <3> QED
      BY <3>1, <3>2, <3>3
  <2>11. IsLines(i.new) /\ i.new # None
    BY <1>1, <1>3, <1>7, CallTexts
  <2>s. PICK source, x : source = SourceOf[s] /\ x = chunks[n]
    OBVIOUS
  <2>12. \/ source = "claude_code" /\ i.tool = "Edit"
         \/ source = "codex_app" /\ i.tool = "apply_patch"
    BY <1>5, <1>6, <2>s, EditTouches
  <2>13. IsFileMutationTool(x.function) /\ ChunkTextEvidence(x, text) # None
    BY <1>1, <1>5, <2>10, <2>11, <2>12, <2>s, EditEvident
  <2>14. chunks[n].kind = "tool_call"
    BY <2>10 DEF OfCall
  <2> QED
    BY <2>3, <2>13, <2>14, <2>s DEF Shows
<1> QED
  BY <1>8, <1>9, <1>p, <1>t

LEMMA NoStepsOk == StepsOk(<<>>)
<1>t. PICK t : t = <<>>
  OBVIOUS
<1>1. IsSeq(t) /\ Len(t) = 0
  BY <1>t DEF IsSeq
<1>2. StepsOk(t)
  BY <1>1 DEF StepsOk
<1> QED
  BY <1>2, <1>t

\* The lines asked about, and how much of an answer.
LEMMA AnchorOk ==
    ASSUME NEW q \in Requests, q.anchor # None
    PROVE  /\ IsLines(q.anchor.text) /\ q.depth \in Nat
           /\ q.anchor.kind # "line" => q.anchor.text = <<>>
BY AnchorsAssumption

LEMMA BeginIsOk ==
    ASSUME AnswerInv, MemoryInv, RefreshInv, NEW q \in Requests, BeginsExplain(q), NEW repo, NEW rel, NEW c,
           c = [q |-> q, repo |-> repo, rel |-> rel,
                stage |-> IF q.anchor.kind = "line" THEN "line" ELSE "file",
                steps |-> IF q.anchor.kind = "file" THEN FileSteps(rel, q.depth)
                          ELSE IF q.anchor.kind = "id" THEN IdSteps(repo, q.anchor.id)
                          ELSE <<>>,
                hint |-> None, strength |-> None, events |-> <<>>, told |-> <<>>,
                had |-> {s \in Sessions : /\ q.anchor.text # <<>>
                                          /\ ToSet(q.anchor.text) \cap ShortLines = {}
                                          /\ WroteText(s, JoinRepoPath(repo, rel), q.anchor.text)}]
    PROVE  CallOk(c)
<1>a. PICK a, kind, depth : a = q.anchor /\ kind = q.anchor.kind /\ depth = q.depth
  OBVIOUS
<1>1. a # None /\ depth \in Nat /\ (kind # "line" => a.text = <<>>)
  BY <1>a, AnchorOk DEF BeginsExplain
<1>f. PICK fs, is : fs = FileSteps(rel, depth) /\ is = IdSteps(repo, a.id)
  OBVIOUS
<1>2. StepsOk(fs) /\ StepsOk(is)
  <2>1. StepsOk(FileSteps(rel, depth))
    BY <1>1, FileStepsOk DEF RefreshInv
  <2>2. IsSeq(ledger)
    BY DEF AnswerInv
  <2>3. PICK id : id = a.id
    OBVIOUS
  <2>4. StepsOk(IdSteps(repo, id))
    BY <2>2, IdStepsOk
  <2> QED
    BY <1>f, <2>1, <2>3, <2>4
<1>h. PICK had : had = {s \in Sessions : /\ a.text # <<>> /\ ToSet(a.text) \cap ShortLines = {}
                                         /\ WroteText(s, JoinRepoPath(repo, rel), a.text)}
  OBVIOUS
<1>3. c = [q |-> q, repo |-> repo, rel |-> rel, stage |-> IF kind = "line" THEN "line" ELSE "file",
           steps |-> IF kind = "file" THEN fs ELSE IF kind = "id" THEN is ELSE <<>>,
           hint |-> None, strength |-> None, events |-> <<>>, told |-> <<>>, had |-> had]
  BY <1>a, <1>f, <1>h
<1>4. /\ c.q = q /\ c.repo = repo /\ c.rel = rel /\ c.had = had /\ c.hint = None /\ c.strength = None
      /\ c.stage = (IF kind = "line" THEN "line" ELSE "file")
      /\ c.steps = (IF kind = "file" THEN fs ELSE IF kind = "id" THEN is ELSE <<>>)
      /\ c.told = <<>> /\ CallShape(c)
  <2>1. /\ c.q = q /\ c.repo = repo /\ c.rel = rel /\ c.had = had /\ c.hint = None /\ c.strength = None
        /\ c.stage = (IF kind = "line" THEN "line" ELSE "file")
        /\ c.steps = (IF kind = "file" THEN fs ELSE IF kind = "id" THEN is ELSE <<>>)
        /\ c.told = <<>> /\ c.events = <<>>
    BY <1>3
  <2>2. CallShape(c)
    BY <1>3, <2>1 DEF CallShape
  <2> QED
    BY <2>1, <2>2
<1>5. StepsOk(c.steps)
  BY <1>2, <1>4, NoStepsOk
<1>6. \A s \in c.had : Had(s, c)
  BY <1>4, <1>a, <1>h DEF Had
<1>7. a.text = <<>> => had = {}
  BY <1>h
<1>8. ByStage(c)
  BY <1>1, <1>4, <1>5, <1>7 DEF ByStage, Searching, Telling
<1>9. SessionsOnce(c.steps) /\ ToldOf(c.told, c.steps)
  BY <1>4, <1>5, StepsOnce, NothingTold
<1> QED
  BY <1>1, <1>4, <1>6, <1>8, <1>9, <1>a DEF CallOk

LEMMA ReceiveKeepsExplain ==
    ASSUME AnswerInv, MemoryInv, RefreshInv, ExplainInv, NEW x \in Surfaces, Receive(x)
    PROVE  call' = call \/ CallOk(call')
<1>q. PICK q : q = sent[x][served[x] + 1]
  OBVIOUS
<1>1. q \in Requests
  BY <1>q, TakenNext
<1>2. CASE ~BeginsExplain(q)
  BY <1>2, <1>q, Zenon DEF Receive
<1>3. CASE BeginsExplain(q) /\ call' # call
  <2>1. PICK repo, rel :
          call' = [q |-> q, repo |-> repo, rel |-> rel,
                   stage |-> IF q.anchor.kind = "line" THEN "line" ELSE "file",
                   steps |-> IF q.anchor.kind = "file" THEN FileSteps(rel, q.depth)
                             ELSE IF q.anchor.kind = "id" THEN IdSteps(repo, q.anchor.id)
                             ELSE <<>>,
                   hint |-> None, strength |-> None, events |-> <<>>, told |-> <<>>,
                   had |-> {s \in Sessions : /\ q.anchor.text # <<>>
                                             /\ ToSet(q.anchor.text) \cap ShortLines = {}
                                             /\ WroteText(s, JoinRepoPath(repo, rel), q.anchor.text)}]
    BY <1>3, <1>q, Zenon DEF Receive
  <2>2. PICK c : c = call'
    OBVIOUS
  <2>3. CallOk(c)
    BY <1>1, <1>3, <2>1, <2>2, BeginIsOk, Zenon
  <2> QED
    BY <2>2, <2>3
<1> QED
  BY <1>2, <1>3

-----------------------------------------------------------------------------
(* The queries of an explain. *)

LEMMA LimitOk == ASSUME NEW c, c = call, c.q.depth \in Nat PROVE Limit \in Nat
BY DEF Limit

LEMMA StrongestIsSome == ASSUME NEW rows PROVE Strongest(rows) # None
BY HunkKinds DEF Strongest

\* d is c with those, and nothing told yet.
Ended(d, c, strength, hint, out) ==
    /\ d.q = c.q /\ d.repo = c.repo /\ d.rel = c.rel /\ d.had = c.had /\ d.hint = hint
    /\ d.stage = "refine" /\ d.steps = out /\ d.strength = strength /\ d.told = c.told /\ CallShape(d)

LEMMA EndedShape ==
    ASSUME NEW c, CallShape(c), NEW strength, NEW hint, NEW out,
           NEW d, d = [c EXCEPT !.stage = "refine", !.strength = strength, !.hint = hint, !.steps = out]
    PROVE  Ended(d, c, strength, hint, out)
<1>1. d = [q |-> c.q, repo |-> c.repo, rel |-> c.rel, stage |-> "refine", steps |-> out,
           hint |-> hint, strength |-> strength, had |-> c.had, events |-> c.events, told |-> c.told]
  BY DEF CallShape
<1>e. PICK e : e = [q |-> c.q, repo |-> c.repo, rel |-> c.rel, stage |-> "refine", steps |-> out,
                    hint |-> hint, strength |-> strength, had |-> c.had, events |-> c.events, told |-> c.told]
  OBVIOUS
<1>2. /\ e.q = c.q /\ e.repo = c.repo /\ e.rel = c.rel /\ e.had = c.had /\ e.hint = hint
      /\ e.stage = "refine" /\ e.steps = out /\ e.strength = strength /\ e.events = c.events /\ e.told = c.told
  BY <1>e
<1>3. CallShape(e)
  BY <1>e, <1>2 DEF CallShape
<1>4. Ended(e, c, strength, hint, out)
  BY <1>2, <1>3 DEF Ended
<1> QED
  BY <1>1, <1>4, <1>e, Zenon

\* Rows found about the lines end the search.
LEMMA FoundIsOk ==
    ASSUME MemoryInv, NEW c, CallOk(c), c.stage \in {"line", "text"}, NEW rows, rows # <<>>,
           Evident(rows, ToSet(c.q.anchor.text)), NEW d,
           d = [c EXCEPT !.stage = "refine", !.strength = Strongest(rows),
                  !.steps = MergeSourceStepsInto(@, SourceSessionsToSteps(rows))]
    PROVE  CallOk(d)
<1>o. PICK out, strength : out = MergeSourceStepsInto(c.steps, SourceSessionsToSteps(rows)) /\ strength = Strongest(rows)
  OBVIOUS
<1>1. StepsOk(c.steps) /\ c.steps = <<>> /\ c.hint = None /\ c.told = <<>>
  BY DEF CallOk, ByStage, Searching
<1>2. RowsOk(rows) /\ \A k \in 1 .. Len(rows) : HasLine(log[rows[k].session], ToSet(c.q.anchor.text))
  BY DEF Evident
<1>3. StepsOk(out) /\ MergedOf(out, c.steps, rows)
  <2>1. PICK steps : steps = c.steps
    OBVIOUS
  <2>2. StepsOk(out) /\ MergedOf(out, steps, rows)
    BY <1>1, <1>2, <1>o, <2>1, MergeOk
  <2> QED
    BY <2>1, <2>2
<1>4. /\ d.q = c.q /\ d.repo = c.repo /\ d.rel = c.rel /\ d.had = c.had /\ d.hint = c.hint
      /\ d.stage = "refine" /\ d.steps = out /\ d.strength = strength /\ d.told = c.told /\ CallShape(d)
  <2>1. CallShape(c)
    BY DEF CallOk
  <2>2. PICK hint : hint = c.hint
    OBVIOUS
  <2>3. d = [c EXCEPT !.stage = "refine", !.strength = strength, !.hint = hint, !.steps = out]
    BY <1>o, <2>1, <2>2 DEF CallShape
  <2>4. Ended(d, c, strength, hint, out)
    BY <2>1, <2>3, EndedShape, Zenon
  <2>5. Ended(d, c, strength, c.hint, out)
    BY <2>2, <2>4
  <2> QED
    BY <2>5, Zenon DEF Ended
<1>5. Len(out) >= 1
  <2>1. Len(rows) \in Nat /\ Len(rows) >= 1
    <3>1. Len(rows) \in Nat /\ IsSeq(rows)
      BY <1>2 DEF RowsOk
    <3>2. Len(rows) # 0
      BY <3>1, EmptySeq DEF IsSeq
    <3> QED
      BY <3>1, <3>2
  <2>2. Len(c.steps) = 0
    BY <1>1
  <2> QED
    BY <1>3, <2>1, <2>2 DEF MergedOf
<1>6. \A k \in 1 .. Len(out) : /\ out[k].session \in Sessions
                               /\ HasLine(log[out[k].session], ToSet(c.q.anchor.text))
  <2> TAKE k \in 1 .. Len(out)
  <2>1. Len(c.steps) = 0
    BY <1>1
  <2>2. PICK i \in 1 .. Len(rows) : out[k].session = rows[i].session
    BY <1>3, <2>1 DEF MergedOf
  <2> QED
    BY <1>2, <2>2 DEF RowsOk
<1>7. Evidenced(d)
  BY <1>1, <1>4, <1>5, <1>6 DEF Evidenced
<1>8. ByStage(d)
  <2>1. d.strength # None
    BY <1>4, <1>o, StrongestIsSome
  <2> QED
    BY <1>1, <1>4, <1>7, <2>1 DEF ByStage, Searching, Telling
<1>9. \A s \in d.had : Had(s, d)
  BY <1>4 DEF CallOk, Had
<1>10. SessionsOnce(out) /\ ToldOf(c.told, out)
  BY <1>1, <1>3, StepsOnce, NothingTold
<1> QED
  BY <1>4, <1>8, <1>9, <1>10 DEF CallOk

\* A query that found nothing, or failed, after which nothing need be found.
LEMMA MoveOnIsOk ==
    ASSUME NEW c, CallOk(c), NEW stage, NEW had, had \subseteq c.had,
           \/ c.stage = "line" /\ stage = "text"
           \/ c.stage = "text" /\ stage = "file" /\ had = {},
           NEW d, d = [c EXCEPT !.stage = stage, !.had = had]
    PROVE  CallOk(d)
<1>1. /\ d.q = c.q /\ d.repo = c.repo /\ d.rel = c.rel /\ d.had = had /\ d.hint = c.hint
      /\ d.stage = stage /\ d.steps = c.steps /\ d.strength = c.strength /\ d.told = c.told /\ CallShape(d)
  <2>1. CallShape(c)
    BY DEF CallOk
  <2>2. d = [q |-> c.q, repo |-> c.repo, rel |-> c.rel, stage |-> stage, steps |-> c.steps,
             hint |-> c.hint, strength |-> c.strength, had |-> had, events |-> c.events, told |-> c.told]
    BY <2>1 DEF CallShape
  <2>3. /\ d.q = c.q /\ d.repo = c.repo /\ d.rel = c.rel /\ d.had = had /\ d.hint = c.hint
        /\ d.stage = stage /\ d.steps = c.steps /\ d.strength = c.strength /\ d.events = c.events
        /\ d.told = c.told
    BY <2>2
  <2>4. CallShape(d)
    BY <2>2, <2>3 DEF CallShape
  <2> QED
    BY <2>3, <2>4
<1>2. ByStage(d)
  BY <1>1 DEF CallOk, ByStage, Searching, Telling
<1>3. \A s \in d.had : Had(s, d)
  BY <1>1 DEF CallOk, Had
<1>4. SessionsOnce(d.steps) /\ ToldOf(d.told, d.steps)
  BY <1>1 DEF CallOk
<1> QED
  BY <1>1, <1>2, <1>3, <1>4 DEF CallOk

LEMMA LineKeepsExplain ==
    ASSUME MemoryInv, RefreshInv, ExplainInv, ExplainLine
    PROVE  CallOk(call')
<1>c. PICK c, d, text : c = call /\ d = call' /\ text = call.q.anchor.text
  OBVIOUS
<1>l. PICK limit, path : limit = Limit /\ path = AbsPath
  OBVIOUS
<1>r. PICK rows : rows = IF text = <<>> THEN <<>>
                         ELSE QueryLineProvenance(db, path, text[1], call.repo, limit)
  OBVIOUS
<1>1. c.stage = "line" /\ CallOk(c)
  BY <1>c DEF ExplainLine, ExplainIn, ExplainInv, Idle
<1>2. \/ d = IF rows = <<>> THEN [c EXCEPT !.stage = "text"]
             ELSE [c EXCEPT !.stage = "refine", !.strength = Strongest(rows),
                     !.steps = MergeSourceStepsInto(@, SourceSessionsToSteps(rows))]
      \/ d = [c EXCEPT !.stage = "text", !.had = {}]
  BY <1>c, <1>l, <1>r DEF ExplainLine, Found
<1>3. CASE d = [c EXCEPT !.stage = "text"] \/ d = [c EXCEPT !.stage = "text", !.had = {}]
  <2>1. PICK stage : stage = "text"
    OBVIOUS
  <2>2. PICK had \in SUBSET c.had : d = [c EXCEPT !.stage = stage, !.had = had]
    <3>1. CallShape(c)
      BY <1>1 DEF CallOk
    <3>2. CASE d = [c EXCEPT !.stage = "text"]
      <4>1. PICK had : had = c.had
        OBVIOUS
      <4>2. d = [c EXCEPT !.stage = stage, !.had = had]
        BY <2>1, <3>1, <3>2, <4>1 DEF CallShape
      <4> QED
        BY <4>1, <4>2
    <3>3. CASE d = [c EXCEPT !.stage = "text", !.had = {}]
      BY <2>1, <3>3
    <3> QED
      BY <1>3, <3>2, <3>3
  <2>3. CallOk(d)
    BY <1>1, <2>1, <2>2, MoveOnIsOk
  <2> QED
    BY <2>3, <1>c
<1>4. CASE /\ rows # <<>>
           /\ d = [c EXCEPT !.stage = "refine", !.strength = Strongest(rows),
                     !.steps = MergeSourceStepsInto(@, SourceSessionsToSteps(rows))]
  <2>1. c.q \in Requests /\ c.q.anchor # None
    BY <1>1 DEF CallOk
  <2>2. IsLines(text) /\ c.q.depth \in Nat
    BY <1>c, <2>1, AnchorOk
  <2>3. limit \in Nat
    BY <1>c, <1>l, <2>2, LimitOk
  <2>4. text # <<>>
    BY <1>4, <1>r
  <2>t. PICK line, lines, repo : line = text[1] /\ lines = ToSet(text) /\ repo = call.repo
    OBVIOUS
  <2>5. line \in lines
    <3>1. 1 \in DOMAIN text
      <4>1. Len(text) # 0
        <5>1. text # <<>> => Len(text) # 0
          <6>1. ASSUME Len(text) = 0 PROVE text = <<>>
            <7>1. \E m \in DOMAIN text : TRUE
              BY <2>4, <6>1, <2>2, <1>1, <1>r, <1>4 DEF IsLines
            <7> QED
              BY <2>2, <6>1, <7>1 DEF IsLines
          <6> QED
            BY <6>1
        <5> QED
          BY <2>4, <5>1
      <4> QED
        BY <2>2, <4>1 DEF IsLines
    <3> QED
      BY <2>t, <3>1 DEF ToSet
  <2>6. Evident(QueryLineProvenance(db, path, line, repo, limit), lines)
    BY <2>3, <2>5, LineRows DEF RefreshInv
  <2>7. rows = QueryLineProvenance(db, path, line, repo, limit)
    BY <1>r, <2>4, <2>t
  <2>8. Evident(rows, ToSet(c.q.anchor.text))
    BY <1>c, <2>6, <2>7, <2>t
  <2>10. CallOk(d)
    BY <1>1, <1>4, <2>8, FoundIsOk
  <2> QED
    BY <2>10, <1>c
<1> QED
  BY <1>2, <1>3, <1>4

LEMMA TextKeepsExplain ==
    ASSUME MemoryInv, RefreshInv, ExplainInv, ExplainText
    PROVE  CallOk(call')
<1>c. PICK c, d, text : c = call /\ d = call' /\ text = call.q.anchor.text
  OBVIOUS
<1>l. PICK limit, path, repo : limit = Limit /\ path = AbsPath /\ repo = call.repo
  OBVIOUS
<1>r. PICK rows : rows = IF text = <<>> THEN <<>> ELSE QueryTextMatch(db, path, text, repo, limit)
  OBVIOUS
<1>1. c.stage = "text" /\ CallOk(c)
  BY <1>c DEF ExplainText, ExplainIn, ExplainInv, Idle
<1>2. \/ d = IF rows = <<>> THEN [c EXCEPT !.stage = "file"]
             ELSE [c EXCEPT !.stage = "refine", !.strength = Strongest(rows),
                     !.steps = MergeSourceStepsInto(@, SourceSessionsToSteps(rows))]
      \/ d = [c EXCEPT !.stage = "file", !.had = {}]
  BY <1>c, <1>l, <1>r DEF ExplainText, Found
<1>3. c.q \in Requests /\ c.q.anchor # None
  BY <1>1 DEF CallOk
<1>4. IsLines(text) /\ c.q.depth \in Nat
  BY <1>c, <1>3, AnchorOk
<1>5. limit \in Nat
  BY <1>c, <1>l, <1>4, LimitOk
<1>6. text # <<>> =>
        /\ Evident(rows, ToSet(text))
        /\ \A s \in SessionsTouching(db, path) : \A n : Shows(db.chunks[s], n, text) => Len(rows) >= 1
  <2> SUFFICES ASSUME text # <<>>
               PROVE  /\ Evident(rows, ToSet(text))
                      /\ \A s \in SessionsTouching(db, path) : \A n : Shows(db.chunks[s], n, text) => Len(rows) >= 1
    OBVIOUS
  <2>1. rows = QueryTextMatch(db, path, text, repo, limit)
    BY <1>r
  <2>2. TimeInv /\ RowsInv
    BY DEF RefreshInv
  <2> QED
    BY <1>4, <1>5, <2>1, <2>2, TextRows
<1>7. CASE (rows = <<>> /\ d = [c EXCEPT !.stage = "file"]) \/ d = [c EXCEPT !.stage = "file", !.had = {}]
  <2>1. PICK stage, had : stage = "file" /\ had = {}
    OBVIOUS
  <2>3. ASSUME rows = <<>> PROVE c.had = {}
    <3> SUFFICES ASSUME NEW s \in c.had PROVE FALSE
      OBVIOUS
    <3>1. Had(s, c)
      BY <1>1 DEF CallOk
    <3>2. text # <<>>
      BY <1>c, <3>1 DEF Had
    <3>3. IsLines(c.q.anchor.text)
      BY <1>c, <1>4
    <3>4. /\ s \in SessionsTouching(db, JoinRepoPath(c.repo, c.rel))
          /\ \E n : Shows(db.chunks[s], n, c.q.anchor.text)
      BY <3>1, <3>3, HadIsFound
    <3>5. path = JoinRepoPath(c.repo, c.rel)
      BY <1>c, <1>l DEF AbsPath
    <3>6. Len(rows) >= 1
      BY <1>6, <1>c, <3>2, <3>4, <3>5
    <3> QED
      BY <2>3, <3>6
  <2>2. d = [c EXCEPT !.stage = stage, !.had = had]
    <3>1. CallShape(c)
      BY <1>1 DEF CallOk
    <3>2. CASE rows = <<>> /\ d = [c EXCEPT !.stage = "file"]
      BY <2>1, <2>3, <3>1, <3>2 DEF CallShape
    <3> QED
      BY <1>7, <2>1, <3>2
  <2>4. CallOk(d)
    BY <1>1, <2>1, <2>2, MoveOnIsOk
  <2> QED
    BY <2>4, <1>c
<1>8. CASE /\ rows # <<>>
           /\ d = [c EXCEPT !.stage = "refine", !.strength = Strongest(rows),
                     !.steps = MergeSourceStepsInto(@, SourceSessionsToSteps(rows))]
  <2>1. text # <<>>
    BY <1>8, <1>r
  <2>2. Evident(rows, ToSet(c.q.anchor.text))
    BY <1>6, <1>c, <2>1
  <2>4. CallOk(d)
    BY <1>1, <1>8, <2>2, FoundIsOk
  <2> QED
    BY <2>4, <1>c
<1> QED
  BY <1>2, <1>7, <1>8

LEMMA FileKeepsExplain ==
    ASSUME MemoryInv, RefreshInv, ExplainInv, ExplainFile
    PROVE  CallOk(call')
<1>c. PICK c, d, steps : c = call /\ d = call' /\ steps = call.steps
  OBVIOUS
<1>l. PICK limit, path, repo : limit = Limit /\ path = AbsPath /\ repo = call.repo
  OBVIOUS
<1>r. PICK rows : rows = IF call.q.anchor.kind = "id" THEN <<>> ELSE QueryFileBlame(db, path, repo, limit)
  OBVIOUS
<1>m. PICK merged : merged = IF rows = <<>> THEN steps ELSE MergeSourceStepsInto(steps, SourceSessionsToSteps(rows))
  OBVIOUS
<1>1. c.stage = "file" /\ CallOk(c)
  BY <1>c DEF ExplainFile, ExplainIn, ExplainInv, Idle
<1>2. /\ CallShape(c) /\ c.had = {} /\ c.strength = None /\ c.hint = None /\ StepsOk(steps)
      /\ c.told = <<>> /\ steps = c.steps
  BY <1>c, <1>1 DEF CallOk, ByStage, Searching
<1>3. PICK hint, out : d = [c EXCEPT !.stage = "refine", !.hint = hint, !.steps = out] /\ out \in {steps, merged}
  <2>1. CASE d = [c EXCEPT !.stage = "refine"]
    <3>1. PICK hint, out : hint = c.hint /\ out = c.steps
      OBVIOUS
    <3>2. d = [c EXCEPT !.stage = "refine", !.hint = hint, !.steps = out]
      BY <1>2, <2>1, <3>1 DEF CallShape
    <3> QED
      BY <1>2, <3>1, <3>2
  <2>2. CASE d # [c EXCEPT !.stage = "refine"]
    <3>1. PICK hint : d = [c EXCEPT !.stage = "refine", !.hint = hint,
                             !.steps = IF rows = <<>> THEN @ ELSE MergeSourceStepsInto(@, SourceSessionsToSteps(rows))]
      BY <1>c, <1>l, <1>r, <2>2 DEF ExplainFile
    <3>2. d = [c EXCEPT !.stage = "refine", !.hint = hint, !.steps = merged]
      BY <1>2, <1>m, <3>1 DEF CallShape
    <3> QED
      BY <3>2
  <2> QED
    BY <2>1, <2>2
<1>4. StepsOk(out)
  <2>1. CASE out = steps
    BY <1>2, <2>1
  <2>2. CASE out = merged /\ rows # <<>>
    <3>1. c.q.depth \in Nat
      BY <1>1, AnchorOk DEF CallOk
    <3>2. limit \in Nat
      BY <1>c, <1>l, <3>1, LimitOk
    <3>3. RowsOk(QueryFileBlame(db, path, repo, limit))
      BY <3>2, FileRows DEF RefreshInv
    <3>4. RowsOk(rows)
      BY <1>r, <2>2, <3>3
    <3>m. PICK m : m = MergeSourceStepsInto(steps, SourceSessionsToSteps(rows))
      OBVIOUS
    <3>5. StepsOk(m)
      BY <1>2, <3>4, <3>m, MergeOk
    <3> QED
      BY <1>m, <2>2, <3>5, <3>m
  <2> QED
    BY <1>3, <1>m, <2>1, <2>2
<1>5. Ended(d, c, c.strength, hint, out)
  <2>1. PICK strength : strength = c.strength
    OBVIOUS
  <2>2. d = [c EXCEPT !.stage = "refine", !.strength = strength, !.hint = hint, !.steps = out]
    BY <1>2, <1>3, <2>1 DEF CallShape
  <2>3. Ended(d, c, strength, hint, out)
    BY <1>2, <2>2, EndedShape, Zenon
  <2> QED
    BY <2>1, <2>3
<1>6. ByStage(d) /\ d.had = {} /\ d.steps = out /\ d.told = <<>> /\ d.q = c.q /\ CallShape(d)
  BY <1>2, <1>5 DEF Ended, ByStage, Searching, Telling
<1>7. SessionsOnce(d.steps) /\ ToldOf(d.told, d.steps)
  BY <1>4, <1>6, StepsOnce, NothingTold
<1>8. CallOk(d)
  BY <1>1, <1>6, <1>7 DEF CallOk
<1> QED
  BY <1>8, <1>c

-----------------------------------------------------------------------------
(* What is made of the answer once its steps are known.                     *)

LEMMA RefineKeepsExplain ==
    ASSUME ExplainInv, ExplainRefine
    PROVE  CallOk(call')
<1>c. PICK c, d, steps : c = call /\ d = call' /\ steps = call.steps
  OBVIOUS
<1>1. c.stage = "refine" /\ CallOk(c)
  BY <1>c DEF ExplainRefine, ExplainIn, ExplainInv, Idle
<1>2. CallShape(c) /\ SessionsOnce(steps) /\ steps = c.steps /\ c.told = <<>>
  BY <1>c, <1>1 DEF CallOk, ByStage
<1>3. PICK r : d = [c EXCEPT !.stage = "heal", !.steps = r] /\ r \in {steps, RefineSourceSessionTimes(steps)}
  BY <1>c, Zenon DEF ExplainRefine
<1>4. Refined(r, steps) /\ \A k \in 1 .. Len(steps) : "session" \in DOMAIN r[k]
  <2>1. Refined(steps, steps) /\ \A k \in 1 .. Len(steps) : "session" \in DOMAIN steps[k]
    BY <1>2 DEF Refined, SessionsOnce, IsSeq
  <2>2. /\ Refined(RefineSourceSessionTimes(steps), steps)
        /\ \A k \in 1 .. Len(steps) : "session" \in DOMAIN RefineSourceSessionTimes(steps)[k]
    BY <1>2, RefineOk
  <2> QED
    BY <1>3, <2>1, <2>2
<1>5. SessionsOnce(r) /\ Len(r) = Len(steps)
  BY <1>2, <1>4 DEF Refined, SessionsOnce
<1>6. /\ d.q = c.q /\ d.repo = c.repo /\ d.rel = c.rel /\ d.had = c.had /\ d.hint = c.hint
      /\ d.stage = "heal" /\ d.steps = r /\ d.strength = c.strength /\ d.told = c.told /\ CallShape(d)
  <2>1. d = [q |-> c.q, repo |-> c.repo, rel |-> c.rel, stage |-> "heal", steps |-> r,
             hint |-> c.hint, strength |-> c.strength, had |-> c.had, events |-> c.events, told |-> c.told]
    BY <1>2, <1>3 DEF CallShape
  <2>2. /\ d.q = c.q /\ d.repo = c.repo /\ d.rel = c.rel /\ d.had = c.had /\ d.hint = c.hint
        /\ d.stage = "heal" /\ d.steps = r /\ d.strength = c.strength /\ d.events = c.events
        /\ d.told = c.told
    BY <2>1
  <2>3. CallShape(d)
    BY <2>1, <2>2 DEF CallShape
  <2> QED
    BY <2>2, <2>3
<1>7. Evidenced(c) => Evidenced(d)
  BY <1>2, <1>4, <1>6 DEF Evidenced, Refined
<1>8. ByStage(d)
  BY <1>1, <1>6, <1>7 DEF CallOk, ByStage, Searching, Telling
<1>9. \A s \in d.had : Had(s, d)
  BY <1>1, <1>6 DEF CallOk, Had
<1>10. ToldOf(d.told, d.steps)
  BY <1>2, <1>6, NothingTold
<1>11. CallOk(d)
  BY <1>1, <1>5, <1>6, <1>8, <1>9, <1>10 DEF CallOk
<1> QED
  BY <1>11, <1>c

\* Healing, and reading the events again, change nothing of it but the stage.
LEMMA HealKeepsExplain ==
    ASSUME ExplainInv, ExplainHeal \/ ExplainEvents
    PROVE  CallOk(call')
<1>c. PICK c, d : c = call /\ d = call'
  OBVIOUS
<1>1. c.stage \in {"heal", "events"} /\ CallOk(c)
  BY <1>c DEF ExplainHeal, ExplainEvents, ExplainIn, ExplainInv, Idle
<1>2. CallShape(c)
  BY <1>1 DEF CallOk
<1>3. /\ d.stage \in {"events", "enrich"}
      /\ d = [q |-> c.q, repo |-> c.repo, rel |-> c.rel, stage |-> d.stage, steps |-> c.steps,
              hint |-> c.hint, strength |-> c.strength, had |-> c.had, events |-> d.events, told |-> c.told]
  <2>1. CASE ExplainHeal
    <3>1. d = [c EXCEPT !.stage = "events"]
      BY <1>c, <2>1, Zenon DEF ExplainHeal
    <3>2. d = [q |-> c.q, repo |-> c.repo, rel |-> c.rel, stage |-> "events", steps |-> c.steps,
               hint |-> c.hint, strength |-> c.strength, had |-> c.had, events |-> c.events, told |-> c.told]
      BY <1>2, <3>1 DEF CallShape
    <3> QED
      BY <3>2
  <2>2. CASE ExplainEvents
    <3>1. PICK events : d = [c EXCEPT !.stage = "enrich", !.events = events]
      BY <1>c, <2>2, Zenon DEF ExplainEvents
    <3>2. d = [q |-> c.q, repo |-> c.repo, rel |-> c.rel, stage |-> "enrich", steps |-> c.steps,
               hint |-> c.hint, strength |-> c.strength, had |-> c.had, events |-> events, told |-> c.told]
      BY <1>2, <3>1 DEF CallShape
    <3> QED
      BY <3>2
  <2> QED
    BY <2>1, <2>2
<1>4. /\ d.q = c.q /\ d.repo = c.repo /\ d.rel = c.rel /\ d.had = c.had /\ d.hint = c.hint
      /\ d.steps = c.steps /\ d.strength = c.strength /\ d.told = c.told
      /\ CallShape(d)
  BY <1>3 DEF CallShape
<1>5. Evidenced(c) => Evidenced(d)
  BY <1>4 DEF Evidenced
<1>6. ByStage(d)
  BY <1>1, <1>3, <1>4, <1>5 DEF CallOk, ByStage, Searching, Telling
<1>7. \A s \in d.had : Had(s, d)
  BY <1>1, <1>4 DEF CallOk, Had
<1>8. CallOk(d)
  BY <1>1, <1>4, <1>6, <1>7 DEF CallOk
<1> QED
  BY <1>8, <1>c

-----------------------------------------------------------------------------
(* The message that explains a step, and the answer.                        *)

NotLater(m, at) == m # None => m.at <= at

\* The greatest place of some, and the least.
LEMMA PlaceFound ==
    ASSUME NEW n \in Nat, NEW I, I \subseteq 1 .. n
    PROVE  /\ (IF I # {} THEN Max(I) ELSE 0) \in I \cup {0}
           /\ (IF I # {} THEN Min(I) ELSE 0) \in I \cup {0}
<1>1. IsFiniteSet(I) /\ I \subseteq Int /\ I \in SUBSET Nat
  <2>1. IsFiniteSet(1 .. n)
    BY FS_Interval
  <2>2. IsFiniteSet(I)
    BY <2>1, FS_Subset
  <2> QED
    BY <2>2
<1>2. I # {} => Max(I) \in I
  BY <1>1, GreatestElement
<1>3. I # {} => Min(I) \in I
  BY <1>1, LeastElement, Zenon DEF Min
<1> QED
  BY <1>2, <1>3

\* No message of the future is chosen.
LEMMA TurnMessage ==
    ASSUME NEW chunks, IsSeq(chunks), NEW at
    PROVE  NotLater(SelectTurnFinalMessage(chunks, at), at)
<1> DEFINE Fits(c) == IsAssistantText(c) /\ c.at <= at
           Start == SelectLastInSeq(chunks, LAMBDA c : IsUser(c) /\ c.at <= at)
           After == SelectInSeq(SubSeq(chunks, Start + 1, Len(chunks)), IsUser)
           Turn == SubSeq(chunks, Start, IF After = 0 THEN Len(chunks) ELSE Start + After - 1)
           InTurn == IF Start = 0 THEN 0 ELSE SelectLastInSeq(Turn, Fits)
           Whole == SelectLastInSeq(chunks, Fits)
<1>m. PICK m : m = SelectTurnFinalMessage(chunks, at)
  OBVIOUS
<1>1. m = IF InTurn # 0 THEN Turn[InTurn] ELSE IF Whole # 0 THEN chunks[Whole] ELSE None
  BY <1>m, Zenon DEF SelectTurnFinalMessage
<1>2. Len(chunks) \in Nat
  BY SeqLength
<1>3. Start \in Int
  <2>I. PICK I : I = {i \in 1 .. Len(chunks) : IsUser(chunks[i]) /\ chunks[i].at <= at}
    OBVIOUS
  <2>1. Start = IF I # {} THEN Max(I) ELSE 0
    BY <2>I, Zenon DEF SelectLastInSeq
  <2>2. I \subseteq 1 .. Len(chunks)
    BY <2>I
  <2>3. (IF I # {} THEN Max(I) ELSE 0) \in I \cup {0}
    BY <1>2, <2>2, PlaceFound
  <2>4. \A x \in I \cup {0} : x \in Int
    BY <2>2
  <2> HIDE DEF Start
  <2> QED
    BY <2>1, <2>3, <2>4, Zenon
<1>4. After \in Int
  <2>r. PICK rest : rest = SubSeq(chunks, Start + 1, Len(chunks))
    OBVIOUS
  <2>J. PICK J : J = {i \in 1 .. Len(rest) : IsUser(rest[i])}
    OBVIOUS
  <2>1. After = IF J # {} THEN Min(J) ELSE 0
    BY <2>r, <2>J, Zenon DEF SelectInSeq
  <2> HIDE DEF Start, After
  <2>2. Len(rest) \in Nat
    <3>S. PICK S : S = {chunks[i] : i \in (Start + 1) .. Len(chunks)}
      OBVIOUS
    <3>1. \A i \in (Start + 1) .. Len(chunks) : chunks[i] \in S
      BY <3>S
    <3>2. PICK a \in Int, b \in Int : a = Start + 1 /\ b = Len(chunks)
      BY <1>2, <1>3
    <3>3. SubSeq(chunks, a, b) \in Seq(S)
      BY <3>1, <3>2, SubSeqProperties
    <3> QED
      BY <2>r, <3>2, <3>3
  <2>3. J \subseteq 1 .. Len(rest)
    BY <2>J
  <2>4. (IF J # {} THEN Min(J) ELSE 0) \in J \cup {0}
    BY <2>2, <2>3, PlaceFound
  <2>5. \A x \in J \cup {0} : x \in Int
    BY <2>3
  <2> QED
    BY <2>1, <2>4, <2>5, Zenon
<1>t. PICK turn : turn = Turn
  OBVIOUS
<1>5. Len(turn) \in Nat
  <2> HIDE DEF Start, After
  <2>1. PICK a \in Int, b \in Int : a = Start /\ b = IF After = 0 THEN Len(chunks) ELSE Start + After - 1
    BY <1>2, <1>3, <1>4
  <2>S. PICK S : S = {chunks[i] : i \in a .. b}
    OBVIOUS
  <2>2. \A i \in a .. b : chunks[i] \in S
    BY <2>S
  <2>3. SubSeq(chunks, a, b) \in Seq(S)
    BY <2>2, SubSeqProperties
  <2>4. turn = SubSeq(chunks, a, b)
    BY <1>t, <2>1
  <2> QED
    BY <2>3, <2>4
<1>6. ASSUME NEW s, Len(s) \in Nat, SelectLastInSeq(s, Fits) # 0
      PROVE  s[SelectLastInSeq(s, Fits)].at <= at
  <2>K. PICK K : K = {i \in 1 .. Len(s) : Fits(s[i])}
    OBVIOUS
  <2>1. SelectLastInSeq(s, Fits) = IF K # {} THEN Max(K) ELSE 0
    BY <2>K, Zenon DEF SelectLastInSeq
  <2>n. PICK n : n = IF K # {} THEN Max(K) ELSE 0
    OBVIOUS
  <2>2. K \subseteq 1 .. Len(s)
    BY <2>K
  <2>3. n \in K \cup {0}
    BY <1>6, <2>2, <2>n, PlaceFound
  <2>4. n # 0
    BY <1>6, <2>1, <2>n, Zenon
  <2>5. s[n].at <= at
    BY <2>3, <2>4, <2>K
  <2> QED
    BY <2>1, <2>5, <2>n, Zenon
<1>7. InTurn # 0 => turn[InTurn].at <= at
  <2>1. SelectLastInSeq(turn, Fits) # 0 => turn[SelectLastInSeq(turn, Fits)].at <= at
    BY <1>5, <1>6, Zenon
  <2>2. InTurn # 0 => InTurn = SelectLastInSeq(turn, Fits)
    BY <1>t, Zenon
  <2> HIDE DEF InTurn, Fits
  <2> QED
    BY <2>1, <2>2, Zenon
<1>8. Whole # 0 => chunks[Whole].at <= at
  BY <1>2, <1>6, Zenon
<1>9. m = IF InTurn # 0 THEN turn[InTurn] ELSE IF Whole # 0 THEN chunks[Whole] ELSE None
  <2> HIDE DEF InTurn, Whole, Turn
  <2> QED
    BY <1>1, <1>t
<1>10. NotLater(m, at)
  <2> HIDE DEF InTurn, Whole, Turn
  <2> QED
    BY <1>7, <1>8, <1>9 DEF NotLater
<1> QED
  BY <1>10, <1>m

LEMMA StepChunksSeq ==
    ASSUME MemoryInv, NEW s \in Sessions \cup {None}, NEW c \in StepChunks(s)
    PROVE  IsSeq(c)
<1>1. IsSeq(<<>>)
  BY DEF IsSeq
<1>2. CASE s = None
  <2>1. c = <<>>
    BY <1>2, Zenon DEF StepChunks
  <2> QED
    BY <1>1, <2>1
<1>3. CASE s # None
  <2>1. s \in Sessions
    BY <1>3
  <2>2. IsSeq(db.chunks[s]) /\ Recording(s, log[s]) /\ ReadAs(s, log[s], ReadTranscript(SourceOf[s], log[s]))
    BY <2>1 DEF MemoryInv, DbInv, Stored, LogInv
  <2>3. c \in Parse(s) => IsSeq(c)
    <3> SUFFICES ASSUME c \in Parse(s) PROVE IsSeq(c)
      OBVIOUS
    <3>1. PICK rs : rs = log[s]
      OBVIOUS
    <3>2. c \in FormatChunks(SourceOf[s], log[s])
      BY Zenon DEF Parse
    <3>3. c \in FormatChunks(SourceOf[s], rs)
      BY <3>1, <3>2
    <3>4. Recording(s, rs) /\ ReadAs(s, rs, ReadTranscript(SourceOf[s], rs))
      BY <2>2, <3>1
    <3> QED
      BY <2>1, <3>3, <3>4, Formatted
  <2>4. c = db.chunks[s] \/ c = <<>> \/ c \in Parse(s)
    BY <1>3, Zenon DEF StepChunks
  <2> QED
    BY <1>1, <2>2, <2>3, <2>4
<1> QED
  BY <1>2, <1>3

\* The step as it is answered: of the same session and time, its note not later.
LEMMA Enriched ==
    ASSUME NEW step, NEW chunks, step.session # None => IsSeq(chunks), NEW e,
           e = EnrichObservedRationale(step, chunks)
    PROVE  /\ e.session = step.session /\ e.at = step.at
           /\ e.note # None => e.note <= e.at
<1>m. PICK m : m = IF step.session = None THEN None ELSE SelectTurnFinalMessage(chunks, step.at)
  OBVIOUS
<1>1. PICK x : e = [session |-> step.session, at |-> step.at,
                    note |-> IF m = None THEN None ELSE m.at, relation |-> x]
  BY <1>m, Zenon DEF EnrichObservedRationale
<1>2. m # None => m.at <= step.at
  <2>1. PICK at : at = step.at
    OBVIOUS
  <2>2. step.session # None => NotLater(SelectTurnFinalMessage(chunks, at), at)
    BY TurnMessage
  <2> QED
    BY <1>m, <2>1, <2>2 DEF NotLater
<1>3. e.session = step.session /\ e.at = step.at /\ e.note = IF m = None THEN None ELSE m.at
  BY <1>1
<1> QED
  BY <1>2, <1>3

LEMMA EnrichKeepsExplain ==
    ASSUME MemoryInv, ExplainInv, ExplainEnrich
    PROVE  CallOk(call')
<1>c. PICK c, d : c = call /\ d = call'
  OBVIOUS
<1>1. c.stage = "enrich" /\ CallOk(c) /\ Len(c.told) < Len(c.steps)
  BY <1>c DEF ExplainEnrich, ExplainIn, ExplainInv, Idle
<1>2. CallShape(c) /\ SessionsOnce(c.steps) /\ ToldOf(c.told, c.steps)
  BY <1>1 DEF CallOk
<1>s. PICK step, told : step = c.steps[Len(c.told) + 1] /\ told = c.told
  OBVIOUS
<1>3. PICK chunks \in StepChunks(step.session) :
        d = [c EXCEPT !.told = Append(@, EnrichObservedRationale(step, chunks))]
  BY <1>c, <1>s, Zenon DEF ExplainEnrich
<1>e. PICK e : e = EnrichObservedRationale(step, chunks)
  OBVIOUS
<1>a. PICK a : a = Append(told, e)
  OBVIOUS
<1>4. step.session \in Sessions \cup {None}
  BY <1>1, <1>2, <1>s DEF SessionsOnce, ToldOf
<1>5. e.session = step.session /\ (e.note # None => e.note <= e.at)
  <2>1. PICK s \in Sessions \cup {None} : s = step.session
    BY <1>4
  <2>2. IsSeq(chunks)
    BY <1>3, <2>1, StepChunksSeq
  <2> QED
    BY <1>e, <2>2, Enriched
<1>6. IsSeq(told) /\ Len(told) \in Nat
  BY <1>2, <1>s DEF ToldOf
<1>7. IsSeq(a) /\ IsAppended(a, told, e)
  BY <1>6, <1>a, AppendSeq
<1>8. ToldOf(a, c.steps)
  <2>1. Len(a) = Len(told) + 1 /\ a[Len(told) + 1] = e /\ \A k \in 1 .. Len(told) : a[k] = told[k]
    BY <1>7 DEF IsAppended
  <2>2. \A k \in 1 .. Len(a) : /\ a[k].session = c.steps[k].session
                               /\ a[k].note # None => a[k].note <= a[k].at
    BY <1>2, <1>5, <1>6, <1>s, <2>1 DEF ToldOf
  <2> QED
    BY <1>6, <1>7, <2>1, <2>2 DEF ToldOf
<1>9. /\ d.q = c.q /\ d.repo = c.repo /\ d.rel = c.rel /\ d.had = c.had /\ d.hint = c.hint
      /\ d.stage = c.stage /\ d.steps = c.steps /\ d.strength = c.strength /\ d.told = a /\ CallShape(d)
  <2>1. d = [q |-> c.q, repo |-> c.repo, rel |-> c.rel, stage |-> c.stage, steps |-> c.steps,
             hint |-> c.hint, strength |-> c.strength, had |-> c.had, events |-> c.events, told |-> a]
    BY <1>2, <1>3, <1>a, <1>e, <1>s DEF CallShape
  <2>2. /\ d.q = c.q /\ d.repo = c.repo /\ d.rel = c.rel /\ d.had = c.had /\ d.hint = c.hint
        /\ d.stage = c.stage /\ d.steps = c.steps /\ d.strength = c.strength /\ d.events = c.events
        /\ d.told = a
    BY <2>1
  <2>3. CallShape(d)
    BY <2>1, <2>2 DEF CallShape
  <2> QED
    BY <2>2, <2>3
<1>10. ByStage(d)
  <2>1. Evidenced(c) => Evidenced(d)
    BY <1>9 DEF Evidenced
  <2> QED
    BY <1>1, <1>9, <2>1 DEF CallOk, ByStage, Searching, Telling
<1>11. \A s \in d.had : Had(s, d)
  BY <1>1, <1>9 DEF CallOk, Had
<1>12. CallOk(d)
  BY <1>1, <1>8, <1>9, <1>10, <1>11 DEF CallOk
<1> QED
  BY <1>12, <1>c

-----------------------------------------------------------------------------
(* The answer. *)

LEMMA GoingOnKeepsExplain ==
    ASSUME MemoryInv, RefreshInv, ExplainInv, ExplainGoesOn
    PROVE  CallOk(call')
BY LineKeepsExplain, TextKeepsExplain, FileKeepsExplain, RefineKeepsExplain, HealKeepsExplain,
   EnrichKeepsExplain DEF ExplainGoesOn

LEMMA ExplainNext ==
    ASSUME AnswerInv, MemoryInv, MemoryInv', RefreshInv, RefreshInv', ExplainInv, [Next]_vars
    PROVE  ExplainInv'
<1>c. PICK c : c = call'
  OBVIOUS
<1>1. \A s \in Sessions : Grows(s)
  BY StepGrows
<1>2. CASE CallOk(c)
  <2>1. CallOk(c)'
    BY <1>1, <1>2, CallKept
  <2> QED
    BY <2>1, <1>c DEF ExplainInv
<1>3. CASE call' = call
  <2>1. CASE call = Idle
    BY <1>3, <2>1 DEF ExplainInv
  <2>2. CASE call # Idle
    BY <1>2, <1>3, <1>c, <2>2 DEF ExplainInv
  <2> QED
    BY <2>1, <2>2
<1>4. ASSUME NEW x \in Surfaces, Receive(x) PROVE ExplainInv'
  BY <1>2, <1>3, <1>4, <1>c, ReceiveKeepsExplain
<1>5. CASE ExplainGoesOn
  BY <1>2, <1>5, <1>c, GoingOnKeepsExplain
<1>8. CASE ExplainFinish
  BY <1>8 DEF ExplainFinish, ExplainInv, Idle
<1>9. ASSUME NEW s \in Sessions, Tear(s) \/ \E r \in Records[s] : Write(s, r) PROVE ExplainInv'
  BY <1>3, <1>9 DEF Tear, Write, clientVars
<1>10. ASSUME NEW p \in PlanFiles, WritePlan(p) PROVE ExplainInv'
  BY <1>3, <1>10 DEF WritePlan, clientVars
<1>11. CASE RefreshBegin \/ RefreshList \/ RefreshRow \/ RefreshChunks \/ RefreshEmit
             \/ RefreshPlans \/ RefreshCrash
  BY <1>3, <1>11 DEF RefreshBegin, RefreshList, RefreshRow, RefreshChunks, RefreshEmit,
                     RefreshPlans, RefreshCrash, clientVars
<1>12. ASSUME NEW q \in Requests, Send(q) PROVE ExplainInv'
  BY <1>3, <1>12 DEF Send
<1>13. CASE UNCHANGED vars
  BY <1>3, <1>13 DEF vars
<1> QED
  BY <1>4, <1>5, <1>8, <1>9, <1>10, <1>11, <1>12, <1>13 DEF Next, ExplainGoesOn

LEMMA CallIsNotIdle == ASSUME NEW c, CallOk(c) PROVE c # Idle
BY DEF CallOk, CallShape, Idle

\* Only its end answers an explain.
LEMMA AnsweredByFinish ==
    ASSUME AnswerInv, MemoryInv, RefreshInv, ExplainInv, [Next]_vars, ExplainAnswered
    PROVE  ExplainFinish
<1>c. PICK c : c = call'
  OBVIOUS
<1>1. call' # call /\ ~CallOk(c)
  BY <1>c, CallIsNotIdle DEF ExplainAnswered
<1>2. ASSUME NEW x \in Surfaces, Receive(x) PROVE FALSE
  BY <1>1, <1>2, <1>c, ReceiveKeepsExplain
<1>3. ~ExplainGoesOn
  BY <1>1, <1>c, GoingOnKeepsExplain
<1>4. ASSUME NEW s \in Sessions, Tear(s) \/ \E r \in Records[s] : Write(s, r) PROVE FALSE
  BY <1>1, <1>4 DEF Tear, Write, clientVars
<1>5. ASSUME NEW p \in PlanFiles, WritePlan(p) PROVE FALSE
  BY <1>1, <1>5 DEF WritePlan, clientVars
<1>6. ~(RefreshBegin \/ RefreshList \/ RefreshRow \/ RefreshChunks \/ RefreshEmit \/ RefreshPlans \/ RefreshCrash)
  BY <1>1 DEF RefreshBegin, RefreshList, RefreshRow, RefreshChunks, RefreshEmit,
              RefreshPlans, RefreshCrash, clientVars
<1>7. ASSUME NEW q \in Requests, Send(q) PROVE FALSE
  BY <1>1, <1>7 DEF Send
<1>8. vars' # vars
  BY <1>1 DEF vars
<1> QED
  BY <1>2, <1>3, <1>4, <1>5, <1>6, <1>7, <1>8 DEF Next, ExplainGoesOn

\* The answer to an explain, made of what is told of its steps.
AnswerOf(a, c) ==
    /\ a.hint = c.hint /\ a.strength = c.strength /\ a.verdict = AgentGuidance(c.steps, c.hint)
    /\ a.steps = c.told

LEMMA FinishAnswers ==
    ASSUME AnswerInv, ExplainFinish
    PROVE  AnswerOf(LastAnswer, call)
<1>v. PICK v, q, hint, strength, told :
        /\ v = AgentGuidance(call.steps, call.hint) /\ q = call.q /\ hint = call.hint
        /\ strength = call.strength /\ told = call.told
  OBVIOUS
<1>a. PICK a : a = [Answer(q, "result") EXCEPT !.hint = hint, !.strength = strength, !.verdict = v, !.steps = told]
  OBVIOUS
<1>1. answers' = [answers EXCEPT !["coding"] = Append(answers["coding"], a)]
  <2>1. answers' = [answers EXCEPT !["coding"] = Append(@,
               [Answer(call.q, "result") EXCEPT !.hint = call.hint, !.strength = call.strength,
                  !.verdict = AgentGuidance(call.steps, call.hint), !.steps = call.told])]
    BY Zenon DEF ExplainFinish
  <2> QED
    BY <1>a, <1>v, <2>1
<1>2. a.hint = hint /\ a.strength = strength /\ a.verdict = v /\ a.steps = told
  BY <1>a DEF Answer
<1>3. LastAnswer = a
  <2>1. IsSeq(answers["coding"])
    BY DEF AnswerInv, Surfaces
  <2>2. answers'["coding"] = Append(answers["coding"], a)
    BY <1>1 DEF AnswerInv, Surfaces
  <2>3. IsAppended(answers'["coding"], answers["coding"], a)
    BY <2>1, <2>2, AppendSeq
  <2> QED
    BY <2>3 DEF LastAnswer, IsAppended
<1> QED
  BY <1>2, <1>3, <1>v DEF AnswerOf

\* A line of the text is in an edit or an output of the session.
HasText(s, text) ==
    \E q \in CallsOf(s) :
       LET r == log[s][q[1]]
           i == r.items[q[2]]
       IN \E t \in {i.old, i.new, OutputOf(s, q[1], i.call)} : \E m \in DOMAIN t : t[m].of \in ToSet(text)

LEMMA HasLineText == ASSUME NEW s, NEW text, HasLine(log[s], ToSet(text)) PROVE HasText(s, text)
BY Zenon DEF HasLine, HasText, CallsOf, CallAt, OutputAt, OutputOf

\* What an honest answer says.
HonestAs(a, had, text) ==
    /\ had # {} => a.strength # None /\ a.verdict = "useful"
    /\ a.strength # None => \A k \in DOMAIN a.steps : HasText(a.steps[k].session, text)
    /\ \A k \in DOMAIN a.steps :
         /\ a.steps[k].note # None => a.steps[k].note <= a.steps[k].at
         /\ \A j \in DOMAIN a.steps :
              j # k => a.steps[j].session = None \/ a.steps[j].session # a.steps[k].session

LEMMA AnswerIsHonest ==
    ASSUME NEW c, CallOk(c), c.stage = "enrich", Len(c.told) = Len(c.steps), NEW a, AnswerOf(a, c)
    PROVE  HonestAs(a, c.had, c.q.anchor.text)
<1>1. /\ DOMAIN a.steps = 1 .. Len(c.steps) /\ DOMAIN c.steps = 1 .. Len(c.steps) /\ Len(c.steps) \in Nat
      /\ \A k \in 1 .. Len(c.steps) : /\ a.steps[k].session = c.steps[k].session
                                      /\ a.steps[k].note # None => a.steps[k].note <= a.steps[k].at
      /\ \A j, k \in 1 .. Len(c.steps) :
            j # k => c.steps[j].session = None \/ c.steps[j].session # c.steps[k].session
  <2>1. a.steps = c.told /\ IsSeq(c.told) /\ IsSeq(c.steps) /\ Len(c.steps) \in Nat
    BY DEF CallOk, SessionsOnce, ToldOf, AnswerOf
  <2>2. DOMAIN c.told = 1 .. Len(c.steps) /\ DOMAIN c.steps = 1 .. Len(c.steps)
    BY <2>1 DEF IsSeq
  <2>3. \A k \in 1 .. Len(c.told) : /\ c.told[k].session = c.steps[k].session
                                    /\ c.told[k].note # None => c.told[k].note <= c.told[k].at
    BY Zenon DEF CallOk, ToldOf
  <2>4. \A j, k \in 1 .. Len(c.steps) :
           j # k => c.steps[j].session = None \/ c.steps[j].session # c.steps[k].session
    BY Zenon DEF CallOk, SessionsOnce
  <2> QED
    BY <2>1, <2>2, <2>3, <2>4
<1>4. c.strength # None => Evidenced(c)
  BY DEF CallOk, ByStage, Telling
<1>5. ASSUME c.had # {} PROVE a.strength # None /\ a.verdict = "useful"
  <2>1. c.strength # None
    BY <1>5 DEF CallOk, ByStage, Telling
  <2>2. c.hint = None /\ Len(c.steps) >= 1
    BY <1>4, <2>1 DEF Evidenced
  <2>3. c.steps # <<>>
    <3>1. 1 \in DOMAIN c.steps
      BY <1>1, <2>2
    <3> QED
      BY <3>1
  <2>4. AgentGuidance(c.steps, c.hint) = "useful"
    BY <2>2, <2>3 DEF AgentGuidance
  <2> QED
    BY <2>1, <2>4 DEF AnswerOf
<1>6. ASSUME a.strength # None, NEW k \in 1 .. Len(c.steps) PROVE HasText(a.steps[k].session, c.q.anchor.text)
  <2>1. Evidenced(c)
    BY <1>4, <1>6 DEF AnswerOf
  <2>2. PICK s, text : s = c.steps[k].session /\ text = c.q.anchor.text
    OBVIOUS
  <2>3. HasLine(log[s], ToSet(text))
    BY <2>1, <2>2 DEF Evidenced
  <2>4. HasText(s, text)
    BY <2>3, HasLineText
  <2> QED
    BY <1>1, <2>2, <2>4
<1>7. \A j, k \in 1 .. Len(c.steps) :
         j # k => a.steps[j].session = None \/ a.steps[j].session # a.steps[k].session
  BY <1>1
<1> QED
  BY <1>1, <1>5, <1>6, <1>7 DEF HonestAs

(***************************************************************************)
(* An explain answer about lines that a stored edit wrote is line-level    *)
(* and useful, however refreshes come between its queries, unless one that *)
(* looks for the lines fails; whatever fails, the steps of a line-level    *)
(* answer are of sessions that have one of the lines, a session comes      *)
(* once, and no note is later than its step (mcp.rs explain_tool_call,     *)
(* explain.rs, metadata_db.rs).                                            *)
(***************************************************************************)
THEOREM HonestAnswers == Spec => AnswerHonest
<1> DEFINE Inv == AnswerInv /\ MemoryInv /\ RefreshInv /\ ExplainInv
<1>1. Init => Inv
  <2>1. Init => ExplainInv
    BY DEF Init, ExplainInv
  <2> QED
    BY <2>1, AnswerInit, MemoryInit, RefreshInit
<1>2. Inv /\ [Next]_vars => Inv'
  BY AnswerNext, MemoryNext, RefreshNext, ExplainNext
<1>3. Inv /\ [Next]_vars /\ ExplainAnswered => HonestAs(LastAnswer, call.had, call.q.anchor.text)
  <2> SUFFICES ASSUME Inv, [Next]_vars, ExplainAnswered
               PROVE  HonestAs(LastAnswer, call.had, call.q.anchor.text)
    OBVIOUS
  <2>1. ExplainFinish
    BY AnsweredByFinish
  <2>2. PICK c, a : c = call /\ a = LastAnswer
    OBVIOUS
  <2>3. CallOk(c) /\ c.stage = "enrich" /\ Len(c.told) = Len(c.steps)
    BY <2>1, <2>2 DEF ExplainInv, ExplainAnswered, ExplainFinish, ExplainIn
  <2>4. AnswerOf(a, c)
    BY <2>1, <2>2, FinishAnswers
  <2>6. HonestAs(a, c.had, c.q.anchor.text)
    BY <2>3, <2>4, AnswerIsHonest
  <2> QED
    BY <2>2, <2>6
<1>4. Inv /\ [Next]_vars =>
        [ExplainAnswered =>
         LET a == LastAnswer IN
         /\ call.had # {} => a.strength # None /\ a.verdict = "useful"
         /\ a.strength # None => \A k \in DOMAIN a.steps :
              \E q \in CallsOf(a.steps[k].session) :
                 LET r == log[a.steps[k].session][q[1]]
                     i == r.items[q[2]]
                 IN \E t \in {i.old, i.new, OutputOf(a.steps[k].session, q[1], i.call)} :
                       \E m \in DOMAIN t : t[m].of \in ToSet(call.q.anchor.text)
         /\ \A k \in DOMAIN a.steps :
              /\ a.steps[k].note # None => a.steps[k].note <= a.steps[k].at
              /\ \A j \in DOMAIN a.steps :
                   j # k => a.steps[j].session = None \/ a.steps[j].session # a.steps[k].session]_vars
  BY <1>3, Zenon DEF HonestAs, HasText
<1> HIDE DEF Inv
<1>5. Spec => []Inv
  BY <1>1, <1>2, PTL DEF Spec
<1> QED
  BY <1>4, <1>5, PTL DEF Spec, AnswerHonest

=============================================================================
