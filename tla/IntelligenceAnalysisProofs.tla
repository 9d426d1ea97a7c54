---------------------- MODULE IntelligenceAnalysisProofs ----------------------
(***************************************************************************)
(* Theorems about IntelligenceAnalysis for every number of workers,        *)
(* tenants and events and every classifier.                                *)
(*                                                                         *)
(* Between the reads of a transaction and its commit other transactions    *)
(* commit.  What makes the late writes sound is that the rows they rest on *)
(* only move one way (DatabaseGrows): analysed events stay analysed and    *)
(* bound, findings stay, cases keep their id and finding.  What a worker   *)
(* has read therefore still holds when it commits (LocalStays).            *)
(***************************************************************************)
EXTENDS IntelligenceAnalysis, FiniteSetTheorems, TLAPS

\* e is evidence of tenant t: analysed and bound to a finding.
Evidence(e, t) ==
    /\ event[e].state = "analyzed"
    /\ event[e].finding # NoKey
    /\ TenantOf[e] = t

\* What a worker's local state x says of the database.
Local(x) ==
    /\ x.phase \in InTransaction =>
          /\ x.event \in Events
          /\ x.left > 0
          /\ event[x.event].state = "normalized"
          /\ ~event[x.event].purged
    /\ x.phase \in {"lookup", "insert", "case"} => x.verdict.finding
    /\ x.verdict.finding => x.verdict.key # NoKey
    /\ x.seen # {} => x.phase \in {"insert", "case", "complete"}
    /\ \A e \in x.seen : Evidence(e, TenantOf[x.event])
    /\ \A d \in Events :
          x.context[d].verdict.decision = "linkable"
             => event[d].state = "analyzed"
    /\ x.case # 0 =>
          /\ x.phase = "complete"
          /\ x.verdict.finding
          /\ \/ x.opens
             \/ \E c \in cases : /\ c.of = <<TenantOf[x.event], x.verdict.key>>
                                 /\ c.id = x.case

\* An analysis that can be linked belongs to an analysed event.
VerdictsAnalyzed ==
    \A e \in Events :
        event[e].verdict.decision = "linkable" => event[e].state = "analyzed"

IInv ==
    /\ TypeOK
    /\ OneHolder
    /\ \A w \in Workers : Local(worker[w])
    /\ VerdictsAnalyzed
    /\ PromotedTogether
    /\ CaseMatchesFinding

-----------------------------------------------------------------------------
(***************************************************************************)
(* Types of the parts.                                                     *)
(***************************************************************************)

\* The blank rows and the idle worker are well typed.
LEMMA BlankTypes ==
    /\ NoVerdict \in Verdict
    /\ BlankEvent \in EventRow
    /\ NoContext \in [Events -> EventRow]
    /\ IdleWorker \in WorkerState
<1>1. NoVerdict \in Verdict
  BY DEF NoVerdict, Verdict
<1>2. BlankEvent \in EventRow
  BY <1>1 DEF BlankEvent, EventRow
<1>3. NoContext \in [Events -> EventRow]
  BY <1>2 DEF NoContext
<1>4. IdleWorker \in WorkerState
  <2> HIDE DEF NoContext
  <2> QED
    BY <1>1, <1>3 DEF IdleWorker, WorkerState, Phase
<1>5. QED
  BY <1>1, <1>2, <1>3, <1>4

\* An idle worker says nothing of the database.
LEMMA IdleLocal == Local(IdleWorker)
  BY DEF Local, IdleWorker, NoContext, BlankEvent, NoVerdict, InTransaction

\* The database a commit may leave behind: nothing a worker has read of an
\* analysed event, a finding or a case is taken back.
DatabaseGrows ==
    /\ \A e \in Events :
          event[e].state = "analyzed" =>
             /\ event'[e].state = "analyzed"
             /\ event[e].finding # NoKey => event'[e].finding # NoKey
    /\ \A c \in cases : \E d \in cases' : d.id = c.id /\ d.of = c.of

\* What a worker has read stays true as the database grows, as long as the
\* row it has locked is left alone.
LEMMA LocalStays ==
    ASSUME NEW x \in WorkerState, Local(x), DatabaseGrows,
           x.phase \in InTransaction =>
              /\ event'[x.event].state = event[x.event].state
              /\ event'[x.event].purged = event[x.event].purged
    PROVE  Local(x)'
<1>1. x.seen \subseteq Events
  BY DEF WorkerState
<1>2. \A e \in x.seen : Evidence(e, TenantOf[x.event])'
  BY <1>1 DEF Local, DatabaseGrows, Evidence
<1>3. \A d \in Events : x.context[d].verdict.decision = "linkable"
                           => event'[d].state = "analyzed"
  BY DEF Local, DatabaseGrows
<1>4. ASSUME x.case # 0
      PROVE  /\ x.phase = "complete"
             /\ x.verdict.finding
             /\ \/ x.opens
                \/ \E c \in cases' :
                      /\ c.of = <<TenantOf[x.event], x.verdict.key>>
                      /\ c.id = x.case
  BY <1>4 DEF Local, DatabaseGrows
<1>5. x.phase \in InTransaction =>
          /\ x.event \in Events
          /\ x.left > 0
          /\ event'[x.event].state = "normalized"
          /\ ~event'[x.event].purged
  BY DEF Local
<1>6. QED
  BY <1>2, <1>3, <1>4, <1>5 DEF Local

-----------------------------------------------------------------------------
(***************************************************************************)
(* The steps of a worker that commit nothing.                              *)
(***************************************************************************)
LocalStep(w) ==
    \/ StartRun(w)
    \/ \E e \in Events : AcquireNext(w, e)
    \/ SkipTenant(w)
    \/ EndPass(w)
    \/ Classify(w)
    \/ LookUpFinding(w)
    \/ InsertFinding(w)
    \/ LookUpCase(w)
    \/ FailEvent(w)
    \/ Abort(w)

\* A worker's step is the commit of an analysis or commits nothing.
LEMMA StepCases ==
    ASSUME NEW w \in Workers, Step(w) \/ FailEvent(w) \/ Abort(w)
    PROVE  Complete(w) \/ LocalStep(w)
  BY DEF Step, LocalStep, MustFail

\* Such a step writes no row.
LEMMA LocalStepCommitsNothing ==
    ASSUME NEW w \in Workers, LocalStep(w)
    PROVE  UNCHANGED <<event, finding, cases, purge>>
<1>1. ASSUME NEW e \in Events, AcquireNext(w, e)
      PROVE  UNCHANGED <<event, finding, cases, purge>>
  <2>1. event' = event /\ finding' = finding
    BY <1>1 DEF AcquireNext
  <2>2. cases' = cases
    BY <1>1, Zenon DEF AcquireNext
  <2>3. purge' = purge
    BY <1>1, Zenon DEF AcquireNext
  <2>4. QED
    BY <2>1, <2>2, <2>3
<1>2. CASE \/ StartRun(w) \/ SkipTenant(w) \/ EndPass(w) \/ Classify(w)
           \/ LookUpFinding(w) \/ InsertFinding(w) \/ FailEvent(w) \/ Abort(w)
  BY <1>2 DEF StartRun, SkipTenant, EndPass, Classify, LookUpFinding,
              InsertFinding, FailEvent, Abort
<1>3. CASE LookUpCase(w)
  BY <1>3 DEF LookUpCase
<1>4. QED
  BY <1>1, <1>2, <1>3 DEF LocalStep

\* The worker takes local state x, which is right about the database; an
\* event it holds in x it held before, or nobody held.
Moves(w, x) ==
    /\ x \in WorkerState
    /\ worker' = [worker EXCEPT ![w] = x]
    /\ Local(x)
    /\ x.phase \in InTransaction =>
          \/ worker[w].phase \in InTransaction /\ x.event = worker[w].event
          \/ \A v \in Workers : ~Holds(v, x.event)

\* Back to idle, whatever the worker was doing.
LEMMA GoesIdle ==
    ASSUME NEW w \in Workers, worker' = [worker EXCEPT ![w] = IdleWorker]
    PROVE  Moves(w, IdleWorker)
<1>1. IdleWorker.phase \notin InTransaction
  BY DEF IdleWorker, InTransaction
<1>2. QED
  BY <1>1, BlankTypes, IdleLocal DEF Moves

\* On to the next tenant of the pass: the transaction is over.
LEMMA TurnEnds ==
    ASSUME IInv, NEW w \in Workers, worker[w].phase \in InTransaction
    PROVE  NextTurn(w) \in WorkerState /\ Local(NextTurn(w))
<1>1. /\ worker[w] \in WorkerState
      /\ worker[w].left \in Nat
      /\ worker[w].left > 0
  BY DEF IInv, TypeOK, WorkerState, Local
<1>2. worker[w].left - 1 \in Nat
  BY <1>1
<1>3. NextTurn(w) \in WorkerState
  <2>1. /\ worker[w].tenants \in SUBSET Tenants
        /\ worker[w].turn + 1 \in Nat
    BY <1>1 DEF WorkerState
  <2> HIDE DEF NoContext
  <2>2. QED
    BY <1>2, <2>1, BlankTypes DEF NextTurn, IdleWorker, WorkerState, Phase
<1>4. Local(NextTurn(w))
  BY DEF Local, NextTurn, IdleWorker, NoContext, BlankEvent, NoVerdict,
         InTransaction
<1>5. QED
  BY <1>3, <1>4

\* The scheduling steps outside a transaction.
LEMMA SchedulingMoves ==
    ASSUME IInv, NEW w \in Workers,
           \/ StartRun(w) \/ SkipTenant(w) \/ EndPass(w)
           \/ FailEvent(w) \/ Abort(w)
    PROVE  \E x \in WorkerState : Moves(w, x)
<1>1. PICK y \in WorkerState : y = worker[w]
  BY DEF IInv, TypeOK
<1>2. CASE StartRun(w)
  <2> DEFINE x == [IdleWorker EXCEPT
                     !.phase = "turn",
                     !.tenants = {TenantOf[e] : e \in
                                    {d \in Events : Ready(d)}},
                     !.left = BatchSize]
  <2>1. /\ {TenantOf[e] : e \in {d \in Events : Ready(d)}} \in SUBSET Tenants
        /\ BatchSize \in Nat
    BY ConstantsAssumption
  <2>2. x \in WorkerState
    <3> HIDE DEF NoContext
    <3> QED
      BY <2>1, BlankTypes DEF IdleWorker, WorkerState, Phase
  <2>3. Local(x) /\ x.phase \notin InTransaction
    BY DEF Local, IdleWorker, NoContext, BlankEvent, NoVerdict, InTransaction
  <2>4. worker' = [worker EXCEPT ![w] = x]
    BY <1>2 DEF StartRun
  <2> HIDE DEF x
  <2>5. QED
    BY <2>2, <2>3, <2>4 DEF Moves
<1>3. CASE SkipTenant(w)
  <2> DEFINE x == [y EXCEPT !.turn = @ + 1]
  <2>1. x \in WorkerState
    BY DEF WorkerState
  <2>2. Local(x) /\ x.phase \notin InTransaction
    <3>1. y.phase = "turn" /\ Local(y)
      BY <1>1, <1>3 DEF SkipTenant, OnTurn, IInv
    <3>2. /\ x.phase = y.phase /\ x.verdict = y.verdict /\ x.seen = y.seen
          /\ x.context = y.context /\ x.case = y.case /\ x.event = y.event
      BY DEF WorkerState
    <3> HIDE DEF x
    <3>3. QED
      BY <3>1, <3>2 DEF Local, InTransaction
  <2>3. worker' = [worker EXCEPT ![w] = x]
    BY <1>1, <1>3 DEF SkipTenant
  <2> HIDE DEF x
  <2>4. QED
    BY <2>1, <2>2, <2>3 DEF Moves
<1>4. CASE EndPass(w)
  <2>1. CASE worker[w].left > 0 /\ worker[w].progressed
    <3> DEFINE x == [y EXCEPT !.turn = 1, !.progressed = FALSE]
    <3>1. x \in WorkerState
      BY DEF WorkerState
    <3>2. Local(x) /\ x.phase \notin InTransaction
      <4>1. y.phase = "turn" /\ Local(y)
        BY <1>1, <1>4 DEF EndPass, IInv
      <4>2. /\ x.phase = y.phase /\ x.verdict = y.verdict /\ x.seen = y.seen
            /\ x.context = y.context /\ x.case = y.case /\ x.event = y.event
        BY DEF WorkerState
      <4> HIDE DEF x
      <4>3. QED
        BY <4>1, <4>2 DEF Local, InTransaction
    <3>3. worker' = [worker EXCEPT ![w] = x]
      BY <1>1, <1>4, <2>1 DEF EndPass
    <3> HIDE DEF x
    <3>4. QED
      BY <3>1, <3>2, <3>3 DEF Moves
  <2>2. CASE ~(worker[w].left > 0 /\ worker[w].progressed)
    BY <1>4, <2>2, GoesIdle, BlankTypes DEF EndPass
  <2>3. QED
    BY <2>1, <2>2
<1>5. CASE FailEvent(w)
  <2>1. NextTurn(w).phase \notin InTransaction
    BY DEF NextTurn, IdleWorker, InTransaction
  <2>2. QED
    BY <1>5, <2>1, TurnEnds DEF FailEvent, Moves
<1>6. CASE Abort(w)
  BY <1>6, GoesIdle, BlankTypes DEF Abort
<1>7. QED
  BY <1>2, <1>3, <1>4, <1>5, <1>6

\* acquire_next: the event taken is ready and locked by nobody.
LEMMA AcquireMoves ==
    ASSUME IInv, NEW w \in Workers, NEW e \in Events, AcquireNext(w, e)
    PROVE  \E x \in WorkerState : Moves(w, x)
<1>1. PICK y \in WorkerState : y = worker[w]
  BY DEF IInv, TypeOK
<1> DEFINE x == [y EXCEPT !.phase = "read", !.event = e]
<1>2. e \in Nat
  BY DEF Events
<1>3. x \in WorkerState
  BY <1>2 DEF WorkerState, Phase
<1>4. Local(x)
  <2>1. y.phase = "turn" /\ Local(y) /\ y.left > 0
    BY <1>1 DEF AcquireNext, OnTurn, IInv
  <2>2. /\ x.phase = "read" /\ x.event = e /\ x.left = y.left
        /\ x.verdict = y.verdict /\ x.seen = y.seen
        /\ x.context = y.context /\ x.case = y.case
    BY DEF WorkerState
  <2>3. event[e].state = "normalized" /\ ~event[e].purged
    BY DEF AcquireNext, Lockable, Ready
  <2> HIDE DEF x
  <2>4. QED
    BY <2>1, <2>2, <2>3 DEF Local, InTransaction
<1>5. x.event = e
  BY DEF WorkerState
<1>6. \A v \in Workers : ~Holds(v, e)
  BY DEF AcquireNext, Lockable
<1>7. worker' = [worker EXCEPT ![w] = x]
  BY <1>1 DEF AcquireNext
<1> HIDE DEF x
<1>8. QED
  BY <1>3, <1>4, <1>5, <1>6, <1>7 DEF Moves

\* Reading the context and classifying: what is read as analysed is so.
LEMMA ClassifyMoves ==
    ASSUME IInv, NEW w \in Workers, Classify(w)
    PROVE  \E x \in WorkerState : Moves(w, x)
<1>1. PICK y \in WorkerState : y = worker[w]
  BY DEF IInv, TypeOK
<1>2. PICK v \in Verdicts :
         worker' = [worker EXCEPT
            ![w].phase = IF v.finding THEN "lookup" ELSE "complete",
            ![w].verdict = v,
            ![w].context = [d \in Events |->
                               IF /\ d \in ContextOf[worker[w].event]
                                  /\ ~event[d].purged
                               THEN event[d] ELSE BlankEvent]]
  BY DEF Classify
<1> DEFINE p == IF v.finding THEN "lookup" ELSE "complete"
           c == [d \in Events |->
                    IF d \in ContextOf[worker[w].event] /\ ~event[d].purged
                    THEN event[d] ELSE BlankEvent]
           x == [y EXCEPT !.phase = p, !.verdict = v, !.context = c]
<1>3. c \in [Events -> EventRow]
  BY BlankTypes DEF IInv, TypeOK
<1>4. /\ v \in Verdict
      /\ v.finding => v.key # NoKey
      /\ v.finding \in BOOLEAN
  BY ConstantsAssumption DEF Verdict
<1>5. \A d \in Events : c[d].verdict.decision = "linkable"
                           => event[d].state = "analyzed"
  BY DEF IInv, VerdictsAnalyzed, BlankEvent, NoVerdict
<1>6. p \in {"lookup", "complete"} /\ (p = "lookup" => v.finding)
  OBVIOUS
<1>7. worker' = [worker EXCEPT ![w] = x]
  BY <1>1, <1>2
<1> HIDE DEF c, p
<1>8. x \in WorkerState
  BY <1>3, <1>4, <1>6 DEF WorkerState, Phase
<1>9. /\ x.phase = p /\ x.verdict = v /\ x.context = c /\ x.left = y.left
      /\ x.event = y.event /\ x.seen = y.seen /\ x.case = y.case
  BY DEF WorkerState
<1>10. y.phase = "read" /\ Local(y)
  BY <1>1 DEF Classify, IInv
<1> HIDE DEF x
<1>11. Local(x)
  BY <1>4, <1>5, <1>6, <1>9, <1>10 DEF Local, InTransaction
<1>12. QED
  BY <1>1, <1>7, <1>8, <1>9, <1>10, <1>11 DEF Moves, InTransaction

\* Looking the finding up: its events are evidence of the tenant.
LEMMA LookUpFindingMoves ==
    ASSUME IInv, NEW w \in Workers, LookUpFinding(w)
    PROVE  \E x \in WorkerState : Moves(w, x)
<1>1. PICK y \in WorkerState : y = worker[w]
  BY DEF IInv, TypeOK
<1> DEFINE f == <<TenantOf[y.event], y.verdict.key>>
           p == IF finding[f].exists THEN "case" ELSE "insert"
           x == [y EXCEPT !.phase = p, !.seen = finding[f].ids]
<1>2. y.phase = "lookup" /\ Local(y)
  BY <1>1 DEF LookUpFinding, IInv
<1>3. y.event \in Events /\ y.verdict.finding /\ y.verdict.key # NoKey
  BY <1>2 DEF Local, InTransaction
<1>4. f \in Tenants \X Keys
  BY <1>3, ConstantsAssumption DEF WorkerState, Verdict
<1>5. /\ finding[f].ids \in SUBSET Events
      /\ \A e \in finding[f].ids : Evidence(e, TenantOf[y.event])
  <2>1. finding[f].ids \in SUBSET Events
    BY <1>4 DEF IInv, TypeOK, FindingRow
  <2>2. f[1] = TenantOf[y.event]
    OBVIOUS
  <2> HIDE DEF f
  <2>3. QED
    BY <1>4, <2>1, <2>2 DEF IInv, PromotedTogether, Evidence
<1>6. p \in {"case", "insert"}
  OBVIOUS
<1>7. worker' = [worker EXCEPT ![w] = x]
  BY <1>1 DEF LookUpFinding, Key
<1> HIDE DEF p, f
<1>8. x \in WorkerState
  BY <1>5, <1>6 DEF WorkerState, Phase
<1>9. /\ x.phase = p /\ x.seen = finding[f].ids /\ x.verdict = y.verdict
      /\ x.context = y.context /\ x.left = y.left /\ x.event = y.event
      /\ x.case = y.case
  BY DEF WorkerState
<1> HIDE DEF x
<1>10. Local(x)
  BY <1>2, <1>3, <1>5, <1>6, <1>9 DEF Local, InTransaction
<1>11. QED
  BY <1>1, <1>2, <1>7, <1>8, <1>9, <1>10 DEF Moves, InTransaction

\* Inserting the finding: nothing read changes.
LEMMA InsertFindingMoves ==
    ASSUME IInv, NEW w \in Workers, InsertFinding(w)
    PROVE  \E x \in WorkerState : Moves(w, x)
<1>1. PICK y \in WorkerState : y = worker[w]
  BY DEF IInv, TypeOK
<1> DEFINE x == [y EXCEPT !.phase = "case", !.inserted = TRUE]
<1>2. y.phase = "insert" /\ Local(y)
  BY <1>1 DEF InsertFinding, IInv
<1>3. worker' = [worker EXCEPT ![w] = x]
  BY <1>1 DEF InsertFinding
<1>4. x \in WorkerState
  BY DEF WorkerState, Phase
<1>5. /\ x.phase = "case" /\ x.seen = y.seen /\ x.verdict = y.verdict
      /\ x.context = y.context /\ x.left = y.left /\ x.event = y.event
      /\ x.case = y.case
  BY DEF WorkerState
<1> HIDE DEF x
<1>6. Local(x)
  BY <1>2, <1>5 DEF Local, InTransaction
<1>7. QED
  BY <1>1, <1>2, <1>3, <1>4, <1>5, <1>6 DEF Moves, InTransaction

\* Looking the case up: it is one of the finding's cases, or to be opened.
LEMMA LookUpCaseMoves ==
    ASSUME IInv, NEW w \in Workers, LookUpCase(w)
    PROVE  \E x \in WorkerState : Moves(w, x)
<1>1. PICK y \in WorkerState : y = worker[w]
  BY DEF IInv, TypeOK
<1>2. y.phase = "case" /\ Local(y)
  BY <1>1 DEF LookUpCase, IInv
<1>3. y.verdict.finding /\ y.case = 0
  BY <1>2 DEF Local
<1> DEFINE
      Takes(n, o) ==
         /\ worker' = [worker EXCEPT
                         ![w] = [y EXCEPT !.phase = "complete",
                                          !.case = n, !.opens = o]]
         /\ \/ n = 0
            \/ o
            \/ \E c \in cases :
                  /\ c.of = <<TenantOf[y.event], y.verdict.key>>
                  /\ c.id = n
<1>4. PICK n \in Nat, o \in BOOLEAN : Takes(n, o)
  <2>1. ASSUME NEW c \in CasesOf(Key(w)),
               worker' = [worker EXCEPT ![w].phase = "complete",
                                        ![w].case = c.id]
        PROVE  /\ worker' = [worker EXCEPT
                               ![w] = [y EXCEPT !.phase = "complete",
                                                !.case = c.id,
                                                !.opens = y.opens]]
               /\ c \in cases /\ c.id \in Nat
               /\ c.of = <<TenantOf[y.event], y.verdict.key>>
    <3>1. c \in cases /\ c.of = <<TenantOf[y.event], y.verdict.key>>
      BY <1>1 DEF CasesOf, Key
    <3>2. c.id \in Nat
      BY <3>1 DEF IInv, TypeOK, Case
    <3>3. [y EXCEPT !.phase = "complete", !.case = c.id]
             = [y EXCEPT !.phase = "complete", !.case = c.id,
                         !.opens = y.opens]
      BY DEF WorkerState
    <3>4. worker' = [worker EXCEPT
                       ![w] = [y EXCEPT !.phase = "complete", !.case = c.id]]
      BY <1>1, <2>1
    <3>5. QED
      BY <3>1, <3>2, <3>3, <3>4
  <2>2. ASSUME NEW n \in 1..MaxCase,
               worker' = [worker EXCEPT ![w].phase = "complete",
                                        ![w].case = n,
                                        ![w].opens = TRUE]
        PROVE  worker' = [worker EXCEPT
                            ![w] = [y EXCEPT !.phase = "complete",
                                             !.case = n, !.opens = TRUE]]
    BY <1>1, <2>2
  <2>3. ASSUME worker' = [worker EXCEPT ![w].phase = "complete"]
        PROVE  worker' = [worker EXCEPT
                            ![w] = [y EXCEPT !.phase = "complete",
                                             !.case = 0,
                                             !.opens = y.opens]]
    <3>1. [y EXCEPT !.phase = "complete"]
             = [y EXCEPT !.phase = "complete", !.case = 0, !.opens = y.opens]
      BY <1>3 DEF WorkerState
    <3>2. worker' = [worker EXCEPT ![w] = [y EXCEPT !.phase = "complete"]]
      BY <1>1, <2>3
    <3>3. QED
      BY <3>1, <3>2
  <2>4. y.opens \in BOOLEAN
    BY DEF WorkerState
  <2>5. ASSUME NEW c \in CasesOf(Key(w)),
               worker' = [worker EXCEPT ![w].phase = "complete",
                                        ![w].case = c.id]
        PROVE  \E n \in Nat, o \in BOOLEAN : Takes(n, o)
    <3>1. c.id \in Nat /\ Takes(c.id, y.opens)
      BY <2>1, <2>5
    <3> HIDE DEF Takes
    <3>2. QED
      BY <2>4, <3>1
  <2>6. ASSUME NEW n \in 1..MaxCase,
               worker' = [worker EXCEPT ![w].phase = "complete",
                                        ![w].case = n,
                                        ![w].opens = TRUE]
        PROVE  \E m \in Nat, o \in BOOLEAN : Takes(m, o)
    <3>1. Takes(n, TRUE)
      <4>1. worker' = [worker EXCEPT
                         ![w] = [y EXCEPT !.phase = "complete",
                                          !.case = n, !.opens = TRUE]]
        BY <2>2, <2>6
      <4>2. QED
        BY <4>1, Zenon
    <3>2. n \in Nat
      OBVIOUS
    <3> HIDE DEF Takes
    <3>3. QED
      BY <3>1, <3>2
  <2>7. CASE worker' = [worker EXCEPT ![w].phase = "complete"]
    <3>1. Takes(0, y.opens)
      BY <2>3, <2>7
    <3> HIDE DEF Takes
    <3>2. QED
      BY <2>4, <3>1
  <2> HIDE DEF Takes
  <2>8. QED
    BY <2>5, <2>6, <2>7 DEF LookUpCase
<1> DEFINE x == [y EXCEPT !.phase = "complete", !.case = n, !.opens = o]
<1>5. x \in WorkerState
  BY DEF WorkerState, Phase
<1>6. /\ x.phase = "complete" /\ x.seen = y.seen /\ x.verdict = y.verdict
      /\ x.context = y.context /\ x.left = y.left /\ x.event = y.event
      /\ x.case = n /\ x.opens = o
  BY DEF WorkerState
<1>7. worker' = [worker EXCEPT ![w] = x]
  BY <1>4
<1> HIDE DEF x
<1>8. Local(x)
  BY <1>2, <1>3, <1>4, <1>6 DEF Local, InTransaction
<1>9. QED
  BY <1>1, <1>2, <1>5, <1>6, <1>7, <1>8 DEF Moves, InTransaction

\* Every step that commits nothing leaves the worker right about the
\* database.
LEMMA LocalStepMoves ==
    ASSUME IInv, NEW w \in Workers, LocalStep(w)
    PROVE  \E x \in WorkerState : Moves(w, x)
<1>1. ASSUME NEW e \in Events, AcquireNext(w, e)
      PROVE  \E x \in WorkerState : Moves(w, x)
  BY <1>1, AcquireMoves
<1>2. QED
  BY <1>1, SchedulingMoves, ClassifyMoves, LookUpFindingMoves,
     InsertFindingMoves, LookUpCaseMoves DEF LocalStep

-----------------------------------------------------------------------------
(***************************************************************************)
(* The rest of the system: arrivals, the purge and the analysts.           *)
(***************************************************************************)
RowsInv ==
    /\ TypeOK
    /\ VerdictsAnalyzed
    /\ PromotedTogether
    /\ CaseMatchesFinding

\* A row that is being analysed is not changed by the step.
HeldRowsStay ==
    \A w \in Workers, e \in Events :
        Holds(w, e) => event'[e] = event[e]

\* A step that leaves findings, cases and the provenance of events alone
\* keeps what relates them.
LEMMA ProvenanceKept ==
    ASSUME TypeOK, PromotedTogether, CaseMatchesFinding,
           finding' = finding, cases' = cases,
           \A d \in Events :
              /\ event'[d].finding = event[d].finding
              /\ event'[d].case = event[d].case
              /\ event[d].state = "analyzed" => event'[d].state = "analyzed"
    PROVE  PromotedTogether' /\ CaseMatchesFinding'
<1>1. \A f \in Tenants \X Keys : finding[f].ids \subseteq Events
  BY DEF TypeOK, FindingRow
<1>2. ASSUME NEW f \in Tenants \X Keys
      PROVE  /\ finding'[f].exists <=> finding'[f].ids # {}
             /\ \A e \in finding'[f].ids : /\ event'[e].state = "analyzed"
                                           /\ TenantOf[e] = f[1]
                                           /\ event'[e].finding # NoKey
  BY <1>1 DEF PromotedTogether
<1>3. ASSUME NEW e \in Events, event'[e].finding # NoKey
      PROVE  finding'[<<TenantOf[e], event'[e].finding>>].exists
  BY <1>3 DEF PromotedTogether
<1>4. ASSUME NEW e \in Events, event'[e].case # 0
      PROVE  \E c \in cases' : /\ c.of = <<TenantOf[e], event'[e].finding>>
                               /\ c.id = event'[e].case
  BY <1>4 DEF CaseMatchesFinding, CasesOf
<1>5. PromotedTogether'
  BY <1>2, <1>3 DEF PromotedTogether
<1>6. CaseMatchesFinding'
  BY <1>4 DEF CaseMatchesFinding, CasesOf
<1>7. QED
  BY <1>5, <1>6

\* A new event is nobody's evidence and in no case.
LEMMA ArriveKeeps ==
    ASSUME IInv, NEW e \in Events, Arrive(e)
    PROVE  RowsInv' /\ DatabaseGrows /\ HeldRowsStay
<1>1. /\ event[e].state = "absent"
      /\ event' = [event EXCEPT ![e].state = "normalized"]
      /\ UNCHANGED <<finding, cases, worker, purge>>
  BY DEF Arrive
<1>2. PICK r \in EventRow : r = event[e]
  BY DEF IInv, TypeOK
<1>3. event' = [event EXCEPT ![e] = [r EXCEPT !.state = "normalized"]]
  BY <1>1, <1>2
<1> DEFINE r2 == [r EXCEPT !.state = "normalized"]
<1>4. /\ r2 \in EventRow
      /\ r2.finding = r.finding /\ r2.case = r.case /\ r2.verdict = r.verdict
      /\ r2.state = "normalized"
  BY DEF EventRow
<1> HIDE DEF r2
<1>5. /\ event \in [Events -> EventRow]
      /\ event'[e] = r2
      /\ \A d \in Events : d # e => event'[d] = event[d]
  BY <1>3 DEF IInv, TypeOK, r2
<1>6. TypeOK'
  BY <1>1, <1>3, <1>4 DEF IInv, TypeOK, r2
<1>7. DatabaseGrows
  BY <1>1, <1>5 DEF DatabaseGrows
<1>8. VerdictsAnalyzed'
  BY <1>1, <1>2, <1>4, <1>5 DEF IInv, VerdictsAnalyzed
<1>9. /\ \A d \in Events : event'[d].finding = event[d].finding
      /\ \A d \in Events : event'[d].case = event[d].case
      /\ \A d \in Events : event[d].state = "analyzed"
                              => event'[d].state = "analyzed"
  BY <1>1, <1>2, <1>4, <1>5
<1>10. PromotedTogether' /\ CaseMatchesFinding'
  BY <1>1, <1>9, ProvenanceKept DEF IInv
<1>11. HeldRowsStay
  BY <1>1, <1>5 DEF IInv, Local, Holds, HeldRowsStay
<1>12. QED
  BY <1>6, <1>7, <1>8, <1>10, <1>11 DEF RowsInv

\* The purge clears contents and leaves state and provenance.
LEMMA PurgeKeeps ==
    ASSUME IInv, PurgeWrites
    PROVE  RowsInv' /\ DatabaseGrows /\ HeldRowsStay
<1>1. /\ \A w \in Workers, e \in purge.rows : ~Holds(w, e)
      /\ event' = [e \in Events |->
            IF e \notin purge.rows THEN event[e]
            ELSE [event[e] EXCEPT
                    !.purged = TRUE,
                    !.verdict = IF e \in purge.analyzed THEN NoVerdict
                                ELSE @]]
      /\ purge' = [rows |-> {}, analyzed |-> {}]
      /\ UNCHANGED <<finding, cases, worker>>
  BY DEF PurgeWrites
<1>2. ASSUME NEW e \in Events
      PROVE  /\ event'[e] \in EventRow
             /\ event'[e].state = event[e].state
             /\ event'[e].finding = event[e].finding
             /\ event'[e].case = event[e].case
             /\ \/ event'[e].verdict = event[e].verdict
                \/ event'[e].verdict = NoVerdict
             /\ e \notin purge.rows => event'[e] = event[e]
  <2>1. PICK r \in EventRow : r = event[e]
    BY DEF IInv, TypeOK
  <2>2. CASE e \notin purge.rows
    BY <1>1, <2>1, <2>2
  <2>3. CASE e \in purge.rows
    <3> DEFINE v == IF e \in purge.analyzed THEN NoVerdict ELSE r.verdict
               r2 == [r EXCEPT !.purged = TRUE, !.verdict = v]
    <3>1. v \in Verdict /\ v \in {NoVerdict, r.verdict}
      BY BlankTypes DEF EventRow
    <3>2. event'[e] = r2
      BY <1>1, <2>1, <2>3
    <3> HIDE DEF v
    <3>3. /\ r2 \in EventRow
          /\ r2.state = r.state /\ r2.finding = r.finding
          /\ r2.case = r.case /\ r2.verdict = v
      BY <3>1 DEF EventRow
    <3>4. QED
      BY <2>1, <2>3, <3>1, <3>2, <3>3
  <2>4. QED
    BY <2>2, <2>3
<1>3. TypeOK'
  <2>1. event' \in [Events -> EventRow]
    BY <1>1, <1>2
  <2>2. QED
    BY <1>1, <2>1 DEF IInv, TypeOK
<1>4. DatabaseGrows
  BY <1>1, <1>2 DEF DatabaseGrows
<1>5. VerdictsAnalyzed'
  BY <1>2 DEF IInv, VerdictsAnalyzed, NoVerdict
<1>6. PromotedTogether' /\ CaseMatchesFinding'
  BY <1>1, <1>2, ProvenanceKept DEF IInv
<1>7. HeldRowsStay
  BY <1>1, <1>2 DEF HeldRowsStay
<1>8. QED
  BY <1>3, <1>4, <1>5, <1>6, <1>7 DEF RowsInv

\* The purge's read and an analyst's case add rows to what there is.
LEMMA OtherKeeps ==
    ASSUME IInv,
           \/ \E t \in Tenants, n \in Events : PurgeReads(t, n)
           \/ \E f \in Tenants \X Keys : OpenCase(f)
    PROVE  RowsInv' /\ DatabaseGrows /\ HeldRowsStay
<1>1. ASSUME NEW t \in Tenants, NEW n \in Events, PurgeReads(t, n)
      PROVE  RowsInv' /\ DatabaseGrows /\ HeldRowsStay
  <2> DEFINE old == {e \in 1..n : /\ TenantOf[e] = t
                                  /\ event[e].state # "absent"
                                  /\ ~event[e].purged
                                  /\ e \notin Held}
  <2>1. /\ UNCHANGED <<event, finding, cases, worker>>
        /\ purge' = [rows |-> old,
                     analyzed |-> {e \in old :
                                     event[e].verdict # NoVerdict}]
    BY <1>1 DEF PurgeReads
  <2>2. old \subseteq Events
    BY ConstantsAssumption DEF Events
  <2> HIDE DEF old
  <2>3. TypeOK'
    BY <2>1, <2>2 DEF IInv, TypeOK
  <2>4. QED
    BY <2>1, <2>3 DEF IInv, RowsInv, DatabaseGrows, HeldRowsStay,
       VerdictsAnalyzed, PromotedTogether, CaseMatchesFinding, CasesOf
<1>2. ASSUME NEW f \in Tenants \X Keys, OpenCase(f)
      PROVE  RowsInv' /\ DatabaseGrows /\ HeldRowsStay
  <2>1. PICK n \in 1..MaxCase :
           cases' = cases \cup {[id |-> n, of |-> f, count |-> 0,
                                 by |-> "analyst"]}
    BY <1>2 DEF OpenCase
  <2>2. UNCHANGED <<event, finding, worker, purge>>
    BY <1>2 DEF OpenCase
  <2>3. cases' \in SUBSET Case
    BY <2>1 DEF IInv, TypeOK, Case
  <2>4. TypeOK'
    BY <2>2, <2>3 DEF IInv, TypeOK
  <2>5. QED
    BY <2>1, <2>2, <2>4 DEF IInv, RowsInv, DatabaseGrows, HeldRowsStay,
       VerdictsAnalyzed, PromotedTogether, CaseMatchesFinding, CasesOf
<1>3. QED
  BY <1>1, <1>2

-----------------------------------------------------------------------------
(***************************************************************************)
(* The commit of an analysis.                                              *)
(***************************************************************************)

\* Linked context is of the same tenant, earlier and analysed.
LEMMA LinkedContext ==
    ASSUME IInv, NEW w \in Workers, worker[w].phase = "complete",
           NEW d \in Linked(w)
    PROVE  /\ d \in Events
           /\ d # worker[w].event
           /\ TenantOf[d] = TenantOf[worker[w].event]
           /\ event[d].state = "analyzed"
           /\ worker[w].context[d].verdict \in Verdict
<1>1. worker[w] \in WorkerState /\ Local(worker[w])
  BY DEF IInv, TypeOK
<1>2. worker[w].event \in Events
  BY <1>1 DEF Local, InTransaction
<1>3. /\ d \in ContextOf[worker[w].event]
      /\ worker[w].context[d].verdict.decision = "linkable"
  BY DEF Linked
<1>4. /\ d \in Events
      /\ d < worker[w].event
      /\ TenantOf[d] = TenantOf[worker[w].event]
  BY <1>2, <1>3, ConstantsAssumption
<1>5. d # worker[w].event
  BY <1>2, <1>4 DEF Events
<1>6. event[d].state = "analyzed"
  BY <1>1, <1>3, <1>4 DEF Local
<1>7. worker[w].context[d].verdict \in Verdict
  BY <1>1, <1>4 DEF WorkerState, EventRow
<1>8. QED
  BY <1>4, <1>5, <1>6, <1>7

\* What a commit leaves in the events: its own event is analysed, the linked
\* ones are bound to the same finding and case, the others are untouched.
CommitsEvents(e, linked, verdict, case) ==
    /\ event'[e] = [event[e] EXCEPT
                      !.state = "analyzed",
                      !.verdict = verdict,
                      !.finding = IF verdict.finding THEN verdict.key
                                  ELSE NoKey,
                      !.case = case]
    /\ \A d \in linked :
          /\ event'[d] \in EventRow
          /\ event'[d].state = "analyzed"
          /\ event'[d].finding = verdict.key
          /\ event'[d].case = case
    /\ \A d \in Events : d # e /\ d \notin linked => event'[d] = event[d]

\* Complete writes the events as said, the finding with its evidence, and
\* the case table with no case of before taken back.
LEMMA CompleteWrites ==
    ASSUME IInv, NEW w \in Workers, Complete(w),
           NEW y \in WorkerState, y = worker[w]
    PROVE  \E linked \in SUBSET Events :
              /\ linked = IF y.verdict.finding THEN Linked(w) ELSE {}
              /\ CommitsEvents(y.event, linked, y.verdict, y.case)
              /\ event' \in [Events -> EventRow]
              /\ IF y.verdict.finding
                 THEN finding' = [finding EXCEPT ![Key(w)] =
                         [exists |-> TRUE,
                          ids |-> y.seen \cup linked \cup {y.event},
                          case |-> y.case]]
                 ELSE finding' = finding
<1> DEFINE e == y.event
           linked == IF y.verdict.finding THEN Linked(w) ELSE {}
<1>1. y.phase = "complete" /\ Local(y)
  BY DEF Complete, IInv
<1>2. e \in Events /\ e \in Nat
  BY <1>1 DEF Local, InTransaction, Events
<1>3. /\ y.verdict \in Verdict
      /\ y.verdict.finding \in BOOLEAN
      /\ y.verdict.key \in Keys \cup {NoKey}
      /\ y.case \in Nat
  BY DEF WorkerState, Verdict
<1>4. /\ linked \in SUBSET Events
      /\ e \notin linked
      /\ \A d \in linked : /\ event[d].state = "analyzed"
                           /\ y.context[d].verdict \in Verdict
  BY <1>1, LinkedContext
<1>5. event' = [d \in Events |->
          IF d = e
          THEN [event[e] EXCEPT
                  !.state = "analyzed",
                  !.verdict = y.verdict,
                  !.finding = IF y.verdict.finding THEN y.verdict.key
                              ELSE NoKey,
                  !.case = y.case]
          ELSE IF d \in linked
          THEN [event[d] EXCEPT
                  !.verdict = y.context[d].verdict,
                  !.finding = y.verdict.key,
                  !.case = y.case]
          ELSE event[d]]
  BY DEF Complete, Promoted
<1>6. IF y.verdict.finding
      THEN finding' = [finding EXCEPT ![Key(w)] =
              [exists |-> TRUE, ids |-> y.seen \cup linked \cup {e},
               case |-> y.case]]
      ELSE finding' = finding
  BY DEF Complete, Promoted
<1> HIDE DEF linked, e
<1>7. ASSUME NEW d \in linked
      PROVE  /\ event'[d] \in EventRow
             /\ event'[d].state = "analyzed"
             /\ event'[d].finding = y.verdict.key
             /\ event'[d].case = y.case
  <2>1. PICK r \in EventRow : r = event[d]
    BY <1>4 DEF IInv, TypeOK
  <2> DEFINE r2 == [r EXCEPT !.verdict = y.context[d].verdict,
                             !.finding = y.verdict.key,
                             !.case = y.case]
  <2>2. event'[d] = r2
    BY <1>4, <1>5, <2>1
  <2>3. y.context[d].verdict \in Verdict
    BY <1>4
  <2>4. /\ r2 \in EventRow
        /\ r2.state = r.state
        /\ r2.finding = y.verdict.key
        /\ r2.case = y.case
    BY <1>3, <2>3 DEF EventRow
  <2> HIDE DEF r2
  <2>5. QED
    BY <1>4, <2>1, <2>2, <2>4
<1>8. event'[e] = [event[e] EXCEPT
                      !.state = "analyzed",
                      !.verdict = y.verdict,
                      !.finding = IF y.verdict.finding THEN y.verdict.key
                                  ELSE NoKey,
                      !.case = y.case]
  BY <1>2, <1>5
<1>9. event'[e] \in EventRow
  <2>1. PICK r \in EventRow : r = event[e]
    BY <1>2 DEF IInv, TypeOK
  <2> DEFINE k == IF y.verdict.finding THEN y.verdict.key ELSE NoKey
  <2>2. k \in Keys \cup {NoKey}
    BY <1>3
  <2>3. event'[e] = [r EXCEPT !.state = "analyzed", !.verdict = y.verdict,
                              !.finding = k, !.case = y.case]
    BY <1>8, <2>1
  <2> HIDE DEF k
  <2>4. QED
    BY <1>3, <2>2, <2>3 DEF EventRow
<1>10. \A d \in Events : d # e /\ d \notin linked => event'[d] = event[d]
  BY <1>5
<1>11. event' \in [Events -> EventRow]
  <2>1. DOMAIN event' = Events /\ event' = [d \in Events |-> event'[d]]
    BY <1>5
  <2>2. \A d \in Events : event'[d] \in EventRow
    BY <1>7, <1>9, <1>10 DEF IInv, TypeOK
  <2>3. QED
    BY <2>1, <2>2
<1>12. CommitsEvents(e, linked, y.verdict, y.case)
  BY <1>7, <1>8, <1>10 DEF CommitsEvents
<1>13. QED
  BY <1>4, <1>6, <1>11, <1>12 DEF linked, e

\* The case table keeps its rows, and has the case of a promoted analysis.
\* No case goes, and the case the worker counts is one of the key f.
CasesKept(y, f) ==
    /\ cases' \in SUBSET Case
    /\ \A c \in cases : \E d \in cases' : d.id = c.id /\ d.of = c.of
    /\ y.case # 0 => \E c \in cases' : c.of = f /\ c.id = y.case

LEMMA CasesAfterCommit ==
    ASSUME IInv, NEW w \in Workers, NEW n \in Nat,
           NEW y \in WorkerState, y = worker[w],
           y.phase = "complete", y.verdict.finding,
           cases' = CasesAfter(w, n)
    PROVE  CasesKept(y, Key(w))
<1>1. Local(y)
  BY DEF IInv
<1>2. Key(w) \in Tenants \X Keys
  BY <1>1, ConstantsAssumption
  DEF Local, Key, WorkerState, Verdict, InTransaction
<1>3. y.case # 0 => \/ y.opens
                    \/ \E c \in cases : c.of = Key(w) /\ c.id = y.case
  BY <1>1 DEF Local, Key
<1>4. CASE y.opens
  <2> DEFINE new == [id |-> y.case, of |-> Key(w), count |-> n,
                     by |-> "worker"]
  <2>1. new \in Case /\ new.id = y.case /\ new.of = Key(w)
    BY <1>2 DEF Case, WorkerState
  <2>2. cases' = cases \cup {new}
    BY <1>4 DEF CasesAfter
  <2> HIDE DEF new
  <2>3. QED
    BY <2>1, <2>2 DEF IInv, TypeOK, CasesKept
<1>5. CASE ~y.opens
  <2>1. cases' = {IF c.id = y.case THEN [c EXCEPT !.count = n] ELSE c :
                     c \in cases}
    BY <1>5 DEF CasesAfter
  <2>2. ASSUME NEW c \in Case
        PROVE  /\ [c EXCEPT !.count = n] \in Case
               /\ [c EXCEPT !.count = n].id = c.id
               /\ [c EXCEPT !.count = n].of = c.of
    BY DEF Case
  <2>3. cases \in SUBSET Case
    BY DEF IInv, TypeOK
  <2>4. cases' \in SUBSET Case
    BY <2>1, <2>2, <2>3
  <2>5. \A c \in cases : \E d \in cases' : d.id = c.id /\ d.of = c.of
    BY <2>1, <2>2, <2>3
  <2>6. QED
    BY <1>3, <1>5, <2>4, <2>5 DEF CasesKept
<1>6. QED
  BY <1>4, <1>5

\* The commit keeps what relates the rows, takes nothing back that another
\* worker has read, and touches no row another worker holds.
LEMMA CompleteKeeps ==
    ASSUME IInv, NEW w \in Workers, Complete(w)
    PROVE  /\ RowsInv'
           /\ DatabaseGrows
           /\ \A v \in Workers \ {w}, e \in Events :
                 Holds(v, e) => event'[e] = event[e]
<1>1. PICK y \in WorkerState : y = worker[w]
  BY DEF IInv, TypeOK
<1>2. y.phase = "complete" /\ Local(y)
  BY <1>1 DEF Complete, IInv
<1>3. PICK linked \in SUBSET Events :
         /\ linked = IF y.verdict.finding THEN Linked(w) ELSE {}
         /\ CommitsEvents(y.event, linked, y.verdict, y.case)
         /\ event' \in [Events -> EventRow]
         /\ IF y.verdict.finding
            THEN finding' = [finding EXCEPT ![Key(w)] =
                    [exists |-> TRUE,
                     ids |-> y.seen \cup linked \cup {y.event},
                     case |-> y.case]]
            ELSE finding' = finding
  BY <1>1, CompleteWrites
<1> DEFINE e == y.event
           t == TenantOf[e]
           k == y.verdict.key
           f == <<t, k>>
           ids == y.seen \cup linked \cup {e}
<1>4. /\ e \in Events
      /\ event[e].state = "normalized"
      /\ y.verdict \in Verdict
      /\ y.verdict.finding \in BOOLEAN
      /\ y.verdict.finding => k \in Keys /\ k # NoKey
      /\ y.case \in Nat
      /\ y.case # 0 => y.verdict.finding
      /\ Key(w) = f
  BY <1>1, <1>2 DEF Local, InTransaction, WorkerState, Verdict, Key
<1>5. y.verdict.finding => f \in Tenants \X Keys
  BY <1>4, ConstantsAssumption
<1>6. \A d \in linked : /\ d # e
                        /\ TenantOf[d] = t
                        /\ event[d].state = "analyzed"
                        /\ y.verdict.finding
  BY <1>1, <1>2, <1>3, LinkedContext
<1>7. /\ event'[e].state = "analyzed"
      /\ event'[e].verdict = y.verdict
      /\ event'[e].finding = IF y.verdict.finding THEN k ELSE NoKey
      /\ event'[e].case = y.case
  <2>1. PICK r \in EventRow : r = event[e]
    BY <1>4 DEF IInv, TypeOK
  <2>2. event'[e] = [r EXCEPT
                       !.state = "analyzed",
                       !.verdict = y.verdict,
                       !.finding = IF y.verdict.finding THEN k ELSE NoKey,
                       !.case = y.case]
    BY <1>3, <2>1 DEF CommitsEvents
  <2>3. QED
    BY <2>2 DEF EventRow
<1>8. /\ \A d \in linked : /\ event'[d].state = "analyzed"
                           /\ event'[d].finding = k
                           /\ event'[d].case = y.case
      /\ \A d \in Events : d # e /\ d \notin linked => event'[d] = event[d]
  BY <1>3 DEF CommitsEvents
<1>9. y.seen \subseteq Events /\ \A d \in y.seen : Evidence(d, t)
  BY <1>2 DEF Local, WorkerState
<1>10. finding' = IF y.verdict.finding
                  THEN [finding EXCEPT ![f] = [exists |-> TRUE, ids |-> ids,
                                               case |-> y.case]]
                  ELSE finding
  BY <1>3, <1>4
<1>11. ids \in SUBSET Events /\ Cardinality(ids) \in Nat
  <2>1. ids \in SUBSET Events
    BY <1>4, <1>9
  <2>2. IsFiniteSet(Events)
    BY FS_Interval, ConstantsAssumption DEF Events
  <2>3. QED
    BY <2>1, <2>2, FS_Subset, FS_CardinalityType
<1>12. /\ cases' \in SUBSET Case
       /\ \A c \in cases : \E d \in cases' : d.id = c.id /\ d.of = c.of
       /\ y.case # 0 => \E c \in cases' : c.of = f /\ c.id = y.case
  <2>1. CASE y.verdict.finding
    <3>1. cases' = CasesAfter(w, Cardinality(ids))
      BY <1>1, <1>3, <2>1 DEF Complete, Promoted
    <3> HIDE DEF ids
    <3>2. CasesKept(y, Key(w))
      BY <1>1, <1>2, <1>11, <2>1, <3>1, CasesAfterCommit
    <3>3. QED
      BY <1>4, <3>2 DEF CasesKept
  <2>2. CASE ~y.verdict.finding
    <3>1. cases' = cases /\ y.case = 0
      BY <1>1, <1>4, <2>2 DEF Complete, Promoted
    <3>2. QED
      BY <3>1 DEF IInv, TypeOK
  <2>3. QED
    BY <2>1, <2>2
<1>13. UNCHANGED purge
  BY DEF Complete
<1>14. worker' \in [Workers -> WorkerState]
  <2>1. NextTurn(w) \in WorkerState
    BY <1>1, <1>2, TurnEnds DEF InTransaction
  <2>2. worker' = [worker EXCEPT ![w] = NextTurn(w)]
    BY DEF Complete
  <2>3. QED
    BY <2>1, <2>2 DEF IInv, TypeOK
<1>15. TypeOK'
  <2>1. finding' \in [Tenants \X Keys -> FindingRow]
    <3>1. [exists |-> TRUE, ids |-> ids, case |-> y.case] \in FindingRow
      BY <1>4, <1>11 DEF FindingRow
    <3> HIDE DEF f, ids
    <3>2. QED
      BY <1>5, <1>10, <3>1 DEF IInv, TypeOK
  <2>2. QED
    BY <1>3, <1>12, <1>13, <1>14, <2>1 DEF IInv, TypeOK
<1> HIDE DEF e, t, ids
<1>16. DatabaseGrows
  BY <1>4, <1>6, <1>7, <1>8, <1>12 DEF DatabaseGrows
<1>17. VerdictsAnalyzed'
  BY <1>4, <1>6, <1>7, <1>8 DEF IInv, VerdictsAnalyzed
<1>18. PromotedTogether'
  <2>1. ASSUME NEW g \in Tenants \X Keys
        PROVE  /\ finding'[g].exists <=> finding'[g].ids # {}
               /\ finding[g].exists => finding'[g].exists
               /\ \A d \in finding'[g].ids : /\ event'[d].state = "analyzed"
                                             /\ TenantOf[d] = g[1]
                                             /\ event'[d].finding # NoKey
    <3>1. CASE y.verdict.finding /\ g = f
      <4>1. finding'[g] = [exists |-> TRUE, ids |-> ids, case |-> y.case]
        BY <1>5, <1>10, <3>1 DEF IInv, TypeOK
      <4>2. finding'[g].exists /\ finding'[g].ids = ids /\ g[1] = t
        BY <3>1, <4>1
      <4>3. e \in ids
        BY DEF ids
      <4>4. ASSUME NEW d \in ids
            PROVE  /\ event'[d].state = "analyzed"
                   /\ TenantOf[d] = t
                   /\ event'[d].finding # NoKey
        <5>1. CASE d = e
          BY <1>4, <1>7, <3>1, <5>1 DEF t
        <5>2. CASE d \in linked
          BY <1>4, <1>6, <1>8, <5>2
        <5>3. CASE d \in y.seen
          BY <1>9, <1>16, <5>3 DEF Evidence, DatabaseGrows
        <5>4. QED
          BY <5>1, <5>2, <5>3 DEF ids
      <4>5. QED
        BY <4>2, <4>3, <4>4
    <3>2. CASE ~(y.verdict.finding /\ g = f)
      <4>1. finding'[g] = finding[g]
        BY <1>10, <3>2 DEF IInv, TypeOK
      <4>2. finding[g].ids \subseteq Events
        BY DEF IInv, TypeOK, FindingRow
      <4>3. QED
        BY <1>16, <4>1, <4>2 DEF IInv, PromotedTogether, DatabaseGrows
    <3>3. QED
      BY <3>1, <3>2
  <2>2. ASSUME NEW d \in Events, event'[d].finding # NoKey
        PROVE  finding'[<<TenantOf[d], event'[d].finding>>].exists
    <3>1. CASE y.verdict.finding /\ (d = e \/ d \in linked)
      <4>1. <<TenantOf[d], event'[d].finding>> = f
        BY <1>6, <1>7, <1>8, <3>1 DEF t
      <4>2. f \in Tenants \X Keys
        BY <1>5, <3>1
      <4>3. finding'[f] = [exists |-> TRUE, ids |-> ids, case |-> y.case]
        BY <1>10, <3>1, <4>2 DEF IInv, TypeOK
      <4>4. QED
        BY <4>1, <4>3
    <3>2. CASE ~(y.verdict.finding /\ (d = e \/ d \in linked))
      <4>1. d # e /\ d \notin linked
        BY <1>6, <1>7, <2>2, <3>2
      <4>2. event'[d] = event[d]
        BY <1>8, <4>1
      <4>3. <<TenantOf[d], event[d].finding>> \in Tenants \X Keys
        BY <2>2, <4>2, ConstantsAssumption DEF IInv, TypeOK, EventRow
      <4>4. finding[<<TenantOf[d], event[d].finding>>].exists
        BY <2>2, <4>2 DEF IInv, PromotedTogether
      <4>5. QED
        BY <2>1, <4>2, <4>3, <4>4
    <3>3. QED
      BY <3>1, <3>2
  <2>3. QED
    BY <2>1, <2>2 DEF PromotedTogether
<1>19. CaseMatchesFinding'
  <2>1. ASSUME NEW d \in Events, event'[d].case # 0
        PROVE  \E c \in cases' : /\ c.of = <<TenantOf[d], event'[d].finding>>
                                 /\ c.id = event'[d].case
    <3>1. CASE d = e \/ d \in linked
      <4>1. event'[d].case = y.case /\ y.case # 0 /\ y.verdict.finding
        BY <1>4, <1>7, <1>8, <2>1, <3>1
      <4>2. <<TenantOf[d], event'[d].finding>> = f
        BY <1>6, <1>7, <1>8, <3>1, <4>1 DEF t
      <4>3. QED
        BY <1>12, <4>1, <4>2
    <3>2. CASE d # e /\ d \notin linked
      <4>1. event'[d] = event[d]
        BY <1>8, <3>2
      <4>2. QED
        BY <1>12, <2>1, <4>1 DEF IInv, CaseMatchesFinding, CasesOf
    <3>3. QED
      BY <3>1, <3>2
  <2>2. QED
    BY <2>1 DEF CaseMatchesFinding, CasesOf
<1>20. ASSUME NEW v \in Workers \ {w}, NEW d \in Events, Holds(v, d)
       PROVE  event'[d] = event[d]
  <2>1. event[d].state = "normalized"
    BY <1>20 DEF IInv, Local, Holds
  <2>2. Holds(w, e)
    BY <1>1, <1>2 DEF Holds, InTransaction, e
  <2>3. d # e
    BY <1>4, <1>20, <2>2 DEF IInv, OneHolder
  <2>4. d \notin linked
    BY <1>6, <2>1
  <2>5. QED
    BY <1>8, <2>3, <2>4
<1>21. QED
  BY <1>15, <1>16, <1>17, <1>18, <1>19, <1>20 DEF RowsInv

-----------------------------------------------------------------------------
(***************************************************************************)
(* The inductive invariant.                                                *)
(***************************************************************************)

\* Initially no event has arrived and every worker is idle.
LEMMA InitInv == Init => IInv
<1> SUFFICES ASSUME Init PROVE IInv
  OBVIOUS
<1>1. \A w \in Workers : worker[w] = IdleWorker
  BY DEF Init
<1>2. \A e \in Events : event[e] = BlankEvent
  BY DEF Init
<1>3. \A f \in Tenants \X Keys : finding[f] = NoFinding
  BY DEF Init
<1>4. TypeOK
  <2>1. NoFinding \in FindingRow
    BY DEF NoFinding, FindingRow
  <2> HIDE DEF IdleWorker, BlankEvent, NoFinding, FindingRow, EventRow,
               WorkerState
  <2>2. QED
    BY <2>1, BlankTypes DEF Init, TypeOK
<1>5. OneHolder
  BY <1>1 DEF OneHolder, Holds, IdleWorker, InTransaction
<1>6. \A w \in Workers : Local(worker[w])
  BY <1>1, IdleLocal
<1>7. VerdictsAnalyzed /\ CaseMatchesFinding
  BY <1>2 DEF VerdictsAnalyzed, CaseMatchesFinding, BlankEvent, NoVerdict
<1>8. PromotedTogether
  BY <1>2, <1>3 DEF PromotedTogether, BlankEvent, NoFinding
<1>9. QED
  BY <1>4, <1>5, <1>6, <1>7, <1>8 DEF IInv

\* The environment changes no row a worker holds.
LEMMA EnvironmentInv ==
    ASSUME IInv, Environment
    PROVE  IInv'
<1>1. RowsInv' /\ DatabaseGrows /\ HeldRowsStay
  BY ArriveKeeps, PurgeKeeps, OtherKeeps DEF Environment
<1>2. UNCHANGED worker
  BY DEF Environment, Arrive, PurgeReads, PurgeWrites, OpenCase
<1>3. OneHolder'
  BY <1>2 DEF IInv, OneHolder, Holds
<1>4. ASSUME NEW w \in Workers
      PROVE  Local(worker[w])'
  <2>1. PICK x \in WorkerState : x = worker[w]
    BY DEF IInv, TypeOK
  <2>2. Local(x)
    BY <2>1 DEF IInv
  <2>3. x.phase \in InTransaction => event'[x.event] = event[x.event]
    BY <1>1, <2>1, <2>2 DEF HeldRowsStay, Holds, Local
  <2>4. Local(x)'
    BY <1>1, <2>2, <2>3, LocalStays
  <2>5. worker'[w] = x
    BY <1>2, <2>1
  <2>6. QED
    BY <2>4, <2>5 DEF Local, Evidence
<1>5. QED
  BY <1>1, <1>3, <1>4 DEF IInv, RowsInv

\* A worker's steps before its commit change nothing but its own state.
LEMMA LocalStepInv ==
    ASSUME IInv, NEW w \in Workers, LocalStep(w)
    PROVE  IInv'
<1>1. UNCHANGED <<event, finding, cases, purge>>
  BY LocalStepCommitsNothing
<1>2. PICK x \in WorkerState : Moves(w, x)
  BY LocalStepMoves
<1>3. /\ worker' = [worker EXCEPT ![w] = x]
      /\ worker \in [Workers -> WorkerState]
      /\ Local(x)
      /\ x.phase \in InTransaction =>
            \/ worker[w].phase \in InTransaction /\ x.event = worker[w].event
            \/ \A v \in Workers : ~Holds(v, x.event)
  BY <1>2 DEF Moves, IInv, TypeOK
<1>4. worker'[w] = x /\ \A v \in Workers \ {w} : worker'[v] = worker[v]
  BY <1>3
<1>5. TypeOK'
  BY <1>1, <1>3 DEF IInv, TypeOK
<1>6. OneHolder'
  <2>1. ASSUME NEW v \in Workers \ {w}, NEW e \in Events,
               Holds(v, e)', Holds(w, e)'
        PROVE  FALSE
    <3>1. Holds(v, e) /\ x.phase \in InTransaction /\ x.event = e
      BY <1>4, <2>1 DEF Holds
    <3>2. Holds(w, e)
      BY <1>3, <3>1 DEF Holds
    <3>3. QED
      BY <2>1, <3>1, <3>2 DEF IInv, OneHolder
  <2>2. ASSUME NEW u \in Workers \ {w}, NEW v \in Workers \ {w},
               NEW e \in Events, Holds(u, e)', Holds(v, e)'
        PROVE  u = v
    BY <1>4, <2>2 DEF IInv, OneHolder, Holds
  <2>3. QED
    BY <2>1, <2>2 DEF OneHolder
<1>7. ASSUME NEW v \in Workers
      PROVE  Local(worker[v])'
  <2>1. Local(worker'[v])
    BY <1>3, <1>4 DEF IInv
  <2>2. QED
    BY <1>1, <2>1 DEF Local, Evidence
<1>8. VerdictsAnalyzed' /\ PromotedTogether' /\ CaseMatchesFinding'
  BY <1>1 DEF IInv, VerdictsAnalyzed, PromotedTogether, CaseMatchesFinding,
              CasesOf
<1>9. QED
  BY <1>5, <1>6, <1>7, <1>8 DEF IInv

\* The commit ends the worker's transaction and leaves the others right.
LEMMA CompleteInv ==
    ASSUME IInv, NEW w \in Workers, Complete(w)
    PROVE  IInv'
<1>1. /\ RowsInv'
      /\ DatabaseGrows
      /\ \A v \in Workers \ {w}, e \in Events :
            Holds(v, e) => event'[e] = event[e]
  BY CompleteKeeps
<1>2. worker' = [worker EXCEPT ![w] = NextTurn(w)]
  BY DEF Complete
<1>3. /\ worker'[w] = NextTurn(w)
      /\ \A v \in Workers \ {w} : worker'[v] = worker[v]
  BY <1>2 DEF IInv, TypeOK
<1>4. NextTurn(w).phase \notin InTransaction
  BY DEF NextTurn, IdleWorker, InTransaction
<1>5. OneHolder'
  BY <1>3, <1>4 DEF IInv, OneHolder, Holds
<1>6. ASSUME NEW v \in Workers \ {w}
      PROVE  Local(worker[v])'
  <2>1. PICK x \in WorkerState : x = worker[v]
    BY DEF IInv, TypeOK
  <2>2. Local(x)
    BY <2>1 DEF IInv
  <2>3. x.phase \in InTransaction => event'[x.event] = event[x.event]
    BY <1>1, <2>1, <2>2 DEF Holds, Local
  <2>4. Local(x)'
    BY <1>1, <2>2, <2>3, LocalStays
  <2>5. worker'[v] = x
    BY <1>3, <2>1
  <2>6. QED
    BY <2>4, <2>5 DEF Local, Evidence
<1>7. Local(worker[w])'
  BY <1>3 DEF Local, NextTurn, IdleWorker, NoContext, BlankEvent, NoVerdict,
              InTransaction
<1>8. QED
  BY <1>1, <1>5, <1>6, <1>7 DEF IInv, RowsInv

\* Every step of the system keeps the invariant.
LEMMA NextInv == IInv /\ [Next]_vars => IInv'
<1> SUFFICES ASSUME IInv, [Next]_vars PROVE IInv'
  OBVIOUS
<1>1. CASE UNCHANGED vars
  <2>1. /\ event' = event /\ finding' = finding /\ cases' = cases
        /\ worker' = worker /\ purge' = purge
    BY <1>1 DEF vars
  <2>2. TypeOK'
    BY <2>1 DEF IInv, TypeOK
  <2>3. OneHolder' /\ VerdictsAnalyzed'
    BY <2>1 DEF IInv, OneHolder, Holds, VerdictsAnalyzed
  <2>4. PromotedTogether' /\ CaseMatchesFinding'
    BY <2>1, ProvenanceKept DEF IInv
  <2>5. ASSUME NEW w \in Workers
        PROVE  Local(worker[w])'
    <3>1. PICK x : x = worker[w] /\ Local(x)
      BY DEF IInv
    <3>2. Local(x)'
      BY <2>1, <3>1 DEF Local, Evidence
    <3>3. QED
      BY <2>1, <3>1, <3>2
  <2>6. QED
    BY <2>2, <2>3, <2>4, <2>5 DEF IInv
<1>2. CASE Environment
  BY <1>2, EnvironmentInv
<1>3. ASSUME NEW w \in Workers, Step(w) \/ FailEvent(w) \/ Abort(w)
      PROVE  IInv'
  BY <1>3, StepCases, LocalStepInv, CompleteInv
<1>4. QED
  BY <1>1, <1>2, <1>3 DEF Next

\* The inductive invariant holds of every reachable state.
LEMMA Invariance == Spec => []IInv
  BY InitInv, NextInv, PTL DEF Spec

-----------------------------------------------------------------------------
(***************************************************************************)
(* Theorems.                                                               *)
(***************************************************************************)

\* Every row and every worker keeps its type, whatever the classifier
\* returns and however many workers analyse, purge and file at once.
THEOREM Typed == Spec => []TypeOK
<1>1. IInv => TypeOK
  BY DEF IInv
<1>2. QED
  BY Invariance, <1>1, PTL

\* SKIP LOCKED keeps two workers of run_analysis_once off the same event.
THEOREM Exclusive == Spec => []OneHolder
<1>1. IInv => OneHolder
  BY DEF IInv
<1>2. QED
  BY Invariance, <1>1, PTL

\* However transactions of analyze_event interleave and fail, a finding has
\* evidence, its evidence is analysed, of its tenant and bound, and no event
\* is bound to a finding that does not exist.
THEOREM PromotionSafe == Spec => []PromotedTogether
<1>1. IInv => PromotedTogether
  BY DEF IInv
<1>2. QED
  BY Invariance, <1>1, PTL

\* However the case lookups of several workers and the analysts interleave,
\* an event is filed in a case of its own finding.
THEOREM FiledRight == Spec => []CaseMatchesFinding
<1>1. IInv => CaseMatchesFinding
  BY DEF IInv
<1>2. QED
  BY Invariance, <1>1, PTL

\* An event purged before its analysis keeps its state: the purge waits for
\* the row lock, and analyze_event takes no purged event.
LEMMA UnreadStep ==
    ASSUME IInv, [Next]_vars, NEW e \in Events,
           event[e].purged, event[e].state = "normalized"
    PROVE  event'[e].state = "normalized"
<1>1. CASE UNCHANGED vars
  BY <1>1 DEF vars
<1>2. ASSUME NEW d \in Events, Arrive(d)
      PROVE  event'[e].state = "normalized"
  <2>1. d # e /\ event' = [event EXCEPT ![d].state = "normalized"]
    BY <1>2 DEF Arrive
  <2>2. QED
    BY <2>1 DEF IInv, TypeOK
<1>3. CASE PurgeWrites
  <2>1. PICK r \in EventRow : r = event[e]
    BY DEF IInv, TypeOK
  <2>2. \E v : \/ event'[e] = r
               \/ event'[e] = [r EXCEPT !.purged = TRUE, !.verdict = v]
    BY <1>3, <2>1 DEF PurgeWrites
  <2>3. QED
    BY <2>1, <2>2 DEF EventRow
<1>4. CASE \/ \E t \in Tenants, n \in Events : PurgeReads(t, n)
           \/ \E f \in Tenants \X Keys : OpenCase(f)
  BY <1>4 DEF PurgeReads, OpenCase
<1>5. ASSUME NEW w \in Workers, Complete(w)
      PROVE  event'[e].state = "normalized"
  <2>1. PICK y \in WorkerState : y = worker[w]
    BY DEF IInv, TypeOK
  <2>2. PICK linked \in SUBSET Events :
           /\ linked = IF y.verdict.finding THEN Linked(w) ELSE {}
           /\ CommitsEvents(y.event, linked, y.verdict, y.case)
    BY <1>5, <2>1, CompleteWrites
  <2>3. worker[w].phase = "complete"
    BY <1>5 DEF Complete
  <2>4. e \notin linked
    BY <2>2, <2>3, LinkedContext
  <2>5. e # y.event
    BY <2>1, <2>3 DEF IInv, Local, InTransaction
  <2>6. QED
    BY <2>2, <2>4, <2>5 DEF CommitsEvents
<1>6. ASSUME NEW w \in Workers, LocalStep(w)
      PROVE  event'[e].state = "normalized"
  BY <1>6, LocalStepCommitsNothing
<1>7. QED
  BY <1>1, <1>2, <1>3, <1>4, <1>5, <1>6, StepCases DEF Next, Environment

\* What the retention purge has emptied before it was read is never
\* analysed.
THEOREM PurgedUnread == Spec => PurgedStaysUnread
<1>1. IInv /\ [Next]_vars =>
        [\A e \in Events : event[e].purged /\ event[e].state = "normalized"
            => event'[e].state = "normalized"]_vars
  BY UnreadStep
<1>2. QED
  BY Invariance, <1>1, PTL DEF Spec, PurgedStaysUnread

-----------------------------------------------------------------------------
(***************************************************************************)
(* The count of a case.  A commit writes the ids of the finding and the    *)
(* count of the case together, so they can only come apart if the case id  *)
(* stood for two cases.                                                    *)
(***************************************************************************)

\* A case id stands for one row, or for the row of one open transaction.
CaseIds ==
    /\ \A c \in cases : c.id > 0
    /\ \A c, d \in cases : c.id = d.id => c = d
    /\ \A w \in Workers : worker[w].opens =>
          /\ worker[w].phase = "complete"
          /\ worker[w].case > 0
          /\ \A c \in cases : c.id # worker[w].case
    /\ \A v, w \in Workers :
          worker[v].opens /\ worker[w].opens /\ worker[v].case = worker[w].case
             => v = w

\* The case a finding points to exists.
FindingCase ==
    \A f \in Tenants \X Keys :
        finding[f].case # 0 => \E c \in cases : c.id = finding[f].case

CountInv == IInv /\ CaseIds /\ FindingCase /\ CaseCountCurrent

\* A step that leaves rows and pending cases alone keeps the counts.
LEMMA CountKept ==
    ASSUME CountInv, finding' = finding, cases' = cases,
           \A w \in Workers :
              worker'[w].opens =>
                 /\ worker[w].opens
                 /\ worker'[w].case = worker[w].case
                 /\ worker'[w].phase = worker[w].phase
    PROVE  CaseIds' /\ FindingCase' /\ CaseCountCurrent'
<1>1. CaseIds'
  BY DEF CountInv, CaseIds
<1>2. FindingCase'
  BY DEF CountInv, FindingCase
<1>3. CaseCountCurrent'
  BY DEF CountInv, CaseCountCurrent, CasesOf
<1>4. QED
  BY <1>1, <1>2, <1>3

\* No step but the case lookup has a case pending that was not before.
LEMMA NothingOpened ==
    ASSUME CountInv, NEW w \in Workers, LocalStep(w), ~LookUpCase(w)
    PROVE  \A v \in Workers :
              worker'[v].opens =>
                 /\ worker[v].opens
                 /\ worker'[v].case = worker[v].case
                 /\ worker'[v].phase = worker[v].phase
<1>1. PICK y \in WorkerState : y = worker[w]
  BY DEF CountInv, IInv, TypeOK
<1>2. worker \in [Workers -> WorkerState]
  BY DEF CountInv, IInv, TypeOK
<1>3. y.phase # "complete" => ~y.opens
  BY <1>1 DEF CountInv, CaseIds
<1>4. IdleWorker.opens = FALSE /\ NextTurn(w).opens = FALSE
  BY DEF IdleWorker, NextTurn
<1>5. ASSUME NEW e \in Events, AcquireNext(w, e)
      PROVE  ~worker'[w].opens /\ \A v \in Workers \ {w} : worker'[v] = worker[v]
  <2>1. worker' = [worker EXCEPT ![w] = [y EXCEPT !.phase = "read",
                                                  !.event = e]]
    BY <1>1, <1>5 DEF AcquireNext
  <2>2. y.phase = "turn"
    BY <1>1, <1>5 DEF AcquireNext, OnTurn
  <2>3. [y EXCEPT !.phase = "read", !.event = e].opens = y.opens
    BY DEF WorkerState
  <2>4. QED
    BY <1>2, <1>3, <2>1, <2>2, <2>3
<1>6. CASE StartRun(w) \/ Abort(w)
  <2>1. PICK x :
           /\ worker' = [worker EXCEPT ![w] = x]
           /\ x.opens = FALSE
    <3>1. CASE StartRun(w)
      <4> DEFINE x == [IdleWorker EXCEPT
                         !.phase = "turn",
                         !.tenants = {TenantOf[e] : e \in
                                        {d \in Events : Ready(d)}},
                         !.left = BatchSize]
      <4>1. worker' = [worker EXCEPT ![w] = x]
        BY <3>1 DEF StartRun
      <4>2. x.opens = FALSE
        BY DEF IdleWorker
      <4> HIDE DEF x
      <4>3. QED
        BY <4>1, <4>2
    <3>2. CASE Abort(w)
      <4> HIDE DEF IdleWorker
      <4>1. QED
        BY <1>4, <3>2 DEF Abort
    <3>3. QED
      BY <1>6, <3>1, <3>2
  <2>2. QED
    BY <1>2, <2>1
<1>7. CASE FailEvent(w)
  <2>1. worker' = [worker EXCEPT ![w] = NextTurn(w)]
    BY <1>7 DEF FailEvent
  <2> HIDE DEF NextTurn
  <2>2. QED
    BY <1>2, <1>4, <2>1
<1>8. CASE SkipTenant(w)
  <2>1. worker' = [worker EXCEPT ![w] = [y EXCEPT !.turn = @ + 1]]
    BY <1>1, <1>8 DEF SkipTenant
  <2>2. [y EXCEPT !.turn = @ + 1].opens = y.opens /\ y.phase = "turn"
    BY <1>1, <1>8 DEF WorkerState, SkipTenant, OnTurn
  <2>3. QED
    BY <1>2, <1>3, <2>1, <2>2
<1>9. CASE EndPass(w)
  <2>1. \/ worker' = [worker EXCEPT ![w] = [y EXCEPT !.turn = 1,
                                                     !.progressed = FALSE]]
        \/ worker' = [worker EXCEPT ![w] = IdleWorker]
    BY <1>1, <1>9 DEF EndPass
  <2>2. /\ [y EXCEPT !.turn = 1, !.progressed = FALSE].opens = y.opens
        /\ y.phase = "turn"
    BY <1>1, <1>9 DEF WorkerState, EndPass
  <2> HIDE DEF IdleWorker
  <2>3. QED
    BY <1>2, <1>3, <1>4, <2>1, <2>2
<1>10. CASE Classify(w)
  <2>1. PICK v \in Verdicts :
           worker' = [worker EXCEPT
              ![w].phase = IF v.finding THEN "lookup" ELSE "complete",
              ![w].verdict = v,
              ![w].context = [d \in Events |->
                                 IF /\ d \in ContextOf[worker[w].event]
                                    /\ ~event[d].purged
                                 THEN event[d] ELSE BlankEvent]]
    BY <1>10 DEF Classify
  <2> DEFINE p == IF v.finding THEN "lookup" ELSE "complete"
             c == [d \in Events |->
                      IF d \in ContextOf[worker[w].event] /\ ~event[d].purged
                      THEN event[d] ELSE BlankEvent]
  <2>2. worker' = [worker EXCEPT ![w] = [y EXCEPT !.phase = p,
                                                  !.verdict = v,
                                                  !.context = c]]
    BY <1>1, <2>1
  <2> HIDE DEF p, c
  <2>3. [y EXCEPT !.phase = p, !.verdict = v, !.context = c].opens = y.opens
    BY DEF WorkerState
  <2>4. y.phase = "read"
    BY <1>1, <1>10 DEF Classify
  <2>5. QED
    BY <1>2, <1>3, <2>2, <2>3, <2>4
<1>11. CASE LookUpFinding(w)
  <2>1. PICK p, i :
           worker' = [worker EXCEPT ![w] = [y EXCEPT !.phase = p, !.seen = i]]
    BY <1>1, <1>11 DEF LookUpFinding
  <2>2. [y EXCEPT !.phase = p, !.seen = i].opens = y.opens
    BY DEF WorkerState
  <2>3. y.phase = "lookup"
    BY <1>1, <1>11 DEF LookUpFinding
  <2>4. QED
    BY <1>2, <1>3, <2>1, <2>2, <2>3
<1>12. CASE InsertFinding(w)
  <2>1. worker' = [worker EXCEPT ![w] = [y EXCEPT !.phase = "case",
                                                  !.inserted = TRUE]]
    BY <1>1, <1>12 DEF InsertFinding
  <2>2. [y EXCEPT !.phase = "case", !.inserted = TRUE].opens = y.opens
    BY DEF WorkerState
  <2>3. y.phase = "insert"
    BY <1>1, <1>12 DEF InsertFinding
  <2>4. QED
    BY <1>2, <1>3, <2>1, <2>2, <2>3
<1>13. QED
  BY <1>5, <1>6, <1>7, <1>8, <1>9, <1>10, <1>11, <1>12 DEF LocalStep

\* An id that a sequence draws is in no case and in no open transaction.
LEMMA FreshIsUnused ==
    ASSUME CountInv, NEW n \in 1..MaxCase, FreshCase(n)
    PROVE  /\ n \in Nat /\ n > 0
           /\ \A c \in cases : c.id # n
           /\ \A w \in Workers : worker[w].opens => worker[w].case # n
<1>1. n \in Nat /\ n > 0
  OBVIOUS
<1>2. \A u \in UsedCases : u < n
  BY DEF FreshCase
<1>3. ASSUME NEW c \in cases
      PROVE  c.id # n
  BY <1>1, <1>2 DEF UsedCases
<1>4. ASSUME NEW w \in Workers, worker[w].opens
      PROVE  worker[w].case # n
  BY <1>1, <1>2, <1>4 DEF UsedCases
<1>5. QED
  BY <1>1, <1>3, <1>4

\* The case lookup draws an id or takes a case that is there.
LEMMA LookUpCaseCount ==
    ASSUME CountInv, NEW w \in Workers, LookUpCase(w)
    PROVE  CaseIds' /\ FindingCase' /\ CaseCountCurrent'
<1>1. PICK y \in WorkerState : y = worker[w]
  BY DEF CountInv, IInv, TypeOK
<1>2. /\ worker \in [Workers -> WorkerState]
      /\ cases \in SUBSET Case
      /\ UNCHANGED <<finding, cases>>
  BY DEF CountInv, IInv, TypeOK, LookUpCase
<1>3. y.phase = "case" /\ ~y.opens
  BY <1>1 DEF LookUpCase, CountInv, CaseIds
<1>4. CASE \E n \in 1..MaxCase :
              /\ FreshCase(n)
              /\ worker' = [worker EXCEPT ![w].phase = "complete",
                                          ![w].case = n,
                                          ![w].opens = TRUE]
  <2>1. PICK n \in 1..MaxCase :
           /\ FreshCase(n)
           /\ worker' = [worker EXCEPT ![w].phase = "complete",
                                       ![w].case = n,
                                       ![w].opens = TRUE]
    BY <1>4
  <2>2. /\ worker'[w] = [y EXCEPT !.phase = "complete", !.case = n,
                                  !.opens = TRUE]
        /\ \A v \in Workers \ {w} : worker'[v] = worker[v]
    BY <1>1, <1>2, <2>1
  <2>3. worker'[w].phase = "complete" /\ worker'[w].case = n
    BY <2>2 DEF WorkerState
  <2>4. /\ n > 0
        /\ \A c \in cases : c.id # n
        /\ \A v \in Workers : worker[v].opens => worker[v].case # n
    BY <2>1, FreshIsUnused
  <2>5. CaseIds'
    <3>1. \A v \in Workers :
             \/ v = w /\ worker'[v].phase = "complete" /\ worker'[v].case = n
             \/ v # w /\ worker'[v] = worker[v]
      BY <2>2, <2>3
    <3>2. CaseIds
      BY DEF CountInv
    <3>3. cases' = cases
      BY <1>2
    <3>4. \A v \in Workers : worker'[v].opens =>
             /\ worker'[v].phase = "complete"
             /\ worker'[v].case > 0
             /\ \A c \in cases : c.id # worker'[v].case
      BY <2>4, <3>1, <3>2 DEF CaseIds
    <3>5. \A u, v \in Workers :
             worker'[u].opens /\ worker'[v].opens
                /\ worker'[u].case = worker'[v].case => u = v
      BY <2>4, <3>1, <3>2 DEF CaseIds
    <3>6. QED
      BY <3>2, <3>3, <3>4, <3>5 DEF CaseIds
  <2>6. QED
    BY <1>2, <2>5 DEF CountInv, FindingCase, CaseCountCurrent, CasesOf
<1>5. CASE \/ \E n : worker' = [worker EXCEPT ![w].phase = "complete",
                                              ![w].case = n]
           \/ worker' = [worker EXCEPT ![w].phase = "complete"]
  <2>1. PICK n : worker' = [worker EXCEPT ![w] =
                               [y EXCEPT !.phase = "complete", !.case = n]]
    <3>1. CASE worker' = [worker EXCEPT ![w].phase = "complete"]
      <4>1. [y EXCEPT !.phase = "complete"]
               = [y EXCEPT !.phase = "complete", !.case = y.case]
        BY DEF WorkerState
      <4>2. QED
        BY <1>1, <3>1, <4>1
    <3>2. ASSUME NEW n, worker' = [worker EXCEPT ![w].phase = "complete",
                                                 ![w].case = n]
          PROVE  worker' = [worker EXCEPT ![w] =
                               [y EXCEPT !.phase = "complete", !.case = n]]
      BY <1>1, <3>2
    <3>3. QED
      BY <1>5, <3>1, <3>2
  <2>2. [y EXCEPT !.phase = "complete", !.case = n].opens = y.opens
    BY DEF WorkerState
  <2>3. /\ ~worker'[w].opens
        /\ \A v \in Workers \ {w} : worker'[v] = worker[v]
    BY <1>2, <1>3, <2>1, <2>2
  <2>4. QED
    BY <1>2, <2>3, CountKept
<1>6. QED
  BY <1>4, <1>5 DEF LookUpCase

\* An analyst's case has an id of its own, which no finding points to.
LEMMA OpenCaseCount ==
    ASSUME CountInv, NEW f \in Tenants \X Keys, OpenCase(f)
    PROVE  CaseIds' /\ FindingCase' /\ CaseCountCurrent'
<1>1. PICK n \in 1..MaxCase :
         /\ FreshCase(n)
         /\ cases' = cases \cup {[id |-> n, of |-> f, count |-> 0,
                                  by |-> "analyst"]}
  BY DEF OpenCase
<1>2. UNCHANGED <<finding, worker>>
  BY DEF OpenCase
<1> DEFINE new == [id |-> n, of |-> f, count |-> 0, by |-> "analyst"]
<1>3. new.id = n /\ cases' = cases \cup {new}
  BY <1>1
<1> HIDE DEF new
<1>4. /\ n > 0
      /\ \A c \in cases : c.id # n
      /\ \A v \in Workers : worker[v].opens => worker[v].case # n
  BY <1>1, FreshIsUnused
<1>5. CaseIds'
  BY <1>2, <1>3, <1>4 DEF CountInv, CaseIds
<1>6. FindingCase'
  BY <1>2, <1>3 DEF CountInv, FindingCase
<1>7. CaseCountCurrent'
  <2>1. ASSUME NEW g \in Tenants \X Keys, finding[g].case = n
        PROVE  FALSE
    BY <1>4, <2>1 DEF CountInv, FindingCase
  <2>2. QED
    BY <1>2, <1>3, <2>1 DEF CountInv, CaseCountCurrent, CasesOf
<1>8. QED
  BY <1>5, <1>6, <1>7

\* A commit writes the ids of its finding and the count of its case, and
\* the case of no other finding.
LEMMA CompleteCount ==
    ASSUME CountInv, NEW w \in Workers, Complete(w)
    PROVE  CaseIds' /\ FindingCase' /\ CaseCountCurrent'
<1>1. PICK y \in WorkerState : y = worker[w]
  BY DEF CountInv, IInv, TypeOK
<1>2. /\ IInv
      /\ worker \in [Workers -> WorkerState]
      /\ cases \in SUBSET Case
      /\ y.phase = "complete"
      /\ Local(y)
  BY <1>1 DEF CountInv, IInv, TypeOK, Complete
<1>3. /\ ~worker'[w].opens
      /\ \A v \in Workers \ {w} : worker'[v] = worker[v]
  <2>1. worker' = [worker EXCEPT ![w] = NextTurn(w)]
    BY DEF Complete
  <2>2. NextTurn(w).opens = FALSE
    BY DEF NextTurn, IdleWorker
  <2> HIDE DEF NextTurn
  <2>3. QED
    BY <1>2, <2>1, <2>2
<1>4. CASE ~y.verdict.finding
  <2>1. finding' = finding /\ cases' = cases
    BY <1>1, <1>4 DEF Complete, Promoted
  <2>2. QED
    BY <1>3, <2>1, CountKept
<1>5. CASE y.verdict.finding
  <2> DEFINE f == Key(w)
             ids == y.seen \cup Linked(w) \cup {y.event}
             n == Cardinality(ids)
  <2>1. f \in Tenants \X Keys /\ f = <<TenantOf[y.event], y.verdict.key>>
    BY <1>1, <1>2, <1>5, ConstantsAssumption
    DEF Local, Key, WorkerState, Verdict, InTransaction
  <2>2. /\ finding' = [finding EXCEPT ![f] = [exists |-> TRUE, ids |-> ids,
                                              case |-> y.case]]
        /\ cases' = CasesAfter(w, n)
    BY <1>1, <1>5 DEF Complete, Promoted
  <2>3. n \in Nat
    <3>1. y.event \in Events /\ y.seen \subseteq Events
      BY <1>2 DEF Local, WorkerState, InTransaction
    <3>2. Linked(w) \subseteq Events
      BY <1>1, <1>2, LinkedContext
    <3>3. IsFiniteSet(Events)
      BY FS_Interval, ConstantsAssumption DEF Events
    <3>4. ids \in SUBSET Events
      BY <3>1, <3>2
    <3>5. QED
      BY <3>3, <3>4, FS_Subset, FS_CardinalityType
  <2>4. /\ finding'[f].case = y.case
        /\ Cardinality(finding'[f].ids) = n
        /\ \A g \in Tenants \X Keys : g # f => finding'[g] = finding[g]
    <3>1. finding'[f] = [exists |-> TRUE, ids |-> ids, case |-> y.case]
      BY <1>2, <2>1, <2>2 DEF IInv, TypeOK
    <3>2. \A g \in Tenants \X Keys : g # f => finding'[g] = finding[g]
      BY <1>2, <2>1, <2>2 DEF IInv, TypeOK
    <3>3. finding'[f].ids = ids /\ finding'[f].case = y.case
      BY <3>1
    <3>4. QED
      BY <3>2, <3>3
  <2>5. CasesKept(y, f)
    BY <1>1, <1>2, <1>5, <2>2, <2>3, CasesAfterCommit
  <2>6. /\ \A c \in cases : \E d \in cases' : d.id = c.id /\ d.of = c.of
        /\ y.case # 0 => \E c \in cases' : c.of = f /\ c.id = y.case
    BY <2>5 DEF CasesKept
  <2>7. CaseIds
    BY DEF CountInv
  <2> HIDE DEF f, ids, n
  <2>8. FindingCase'
    <3>1. ASSUME NEW g \in Tenants \X Keys, finding'[g].case # 0
          PROVE  \E c \in cases' : c.id = finding'[g].case
      BY <2>4, <2>6, <3>1 DEF CountInv, FindingCase
    <3>2. QED
      BY <3>1 DEF FindingCase
  <2>9. ASSUME NEW c \in cases'
        PROVE  /\ c.id > 0
               /\ c.id = y.case => c.of = f /\ c.count = n
               /\ \/ /\ y.opens
                     /\ c = [id |-> y.case, of |-> f, count |-> n,
                             by |-> "worker"]
                  \/ \E d \in cases :
                        /\ c.id = d.id /\ c.of = d.of
                        /\ c = IF d.id = y.case THEN [d EXCEPT !.count = n]
                               ELSE d
    <3>1. CASE y.opens
      <4>1. cases' = cases \cup {[id |-> y.case, of |-> f, count |-> n,
                                  by |-> "worker"]}
        BY <1>1, <2>2, <3>1 DEF CasesAfter, f
      <4>2. y.case > 0 /\ \A d \in cases : d.id # y.case
        BY <1>1, <2>7, <3>1 DEF CaseIds
      <4>3. QED
        BY <2>7, <3>1, <4>1, <4>2 DEF CaseIds
    <3>2. CASE ~y.opens
      <4>1. PICK d \in cases :
               c = IF d.id = y.case THEN [d EXCEPT !.count = n] ELSE d
        BY <1>1, <2>2, <3>2 DEF CasesAfter
      <4>2. d \in Case
        BY <1>2
      <4>3. /\ [d EXCEPT !.count = n].id = d.id
            /\ [d EXCEPT !.count = n].of = d.of
            /\ [d EXCEPT !.count = n].count = n
        BY <4>2 DEF Case
      <4>4. c.id = d.id /\ c.of = d.of
        BY <4>1, <4>3
      <4>5. c.id > 0
        BY <2>7, <4>4 DEF CaseIds
      <4>6. c.id = y.case => c.of = f /\ c.count = n
        <5>1. y.case # 0 => \E b \in cases : b.of = f /\ b.id = y.case
          BY <1>2, <2>1, <3>2 DEF Local
        <5>2. QED
          BY <2>7, <4>1, <4>3, <4>4, <4>5, <5>1 DEF CaseIds
      <4>7. QED
        BY <4>1, <4>4, <4>5, <4>6
    <3>3. QED
      BY <3>1, <3>2
  <2>10. CaseCountCurrent'
    <3>1. ASSUME NEW g \in Tenants \X Keys, NEW c \in cases', c.of = g,
                 c.id = finding'[g].case
          PROVE  c.count = Cardinality(finding'[g].ids)
      <4>1. CASE g = f
        BY <2>4, <2>9, <3>1, <4>1
      <4>2. CASE g # f
        <5>1. c.id # y.case /\ finding'[g] = finding[g]
          BY <2>4, <2>9, <3>1, <4>2
        <5>2. c \in cases
          BY <2>9, <5>1
        <5>3. QED
          BY <3>1, <5>1, <5>2 DEF CountInv, CaseCountCurrent, CasesOf
      <4>3. QED
        BY <4>1, <4>2
    <3>2. QED
      BY <3>1 DEF CaseCountCurrent, CasesOf
  <2>11. CaseIds'
    <3>1. \A c \in cases' : c.id > 0
      BY <2>9
    <3>2. ASSUME NEW c \in cases', NEW d \in cases', c.id = d.id
          PROVE  c = d
      <4>1. CASE y.opens
        <5>1. \A b \in cases : b.id # y.case
          BY <1>1, <2>7, <4>1 DEF CaseIds
        <5>2. /\ \/ c.id = y.case
                 \/ c \in cases
              /\ \/ d.id = y.case
                 \/ d \in cases
          BY <2>9
        <5>3. CASE c.id = y.case
          <6>1. /\ c = [id |-> y.case, of |-> f, count |-> n, by |-> "worker"]
                /\ d = [id |-> y.case, of |-> f, count |-> n, by |-> "worker"]
            BY <2>9, <3>2, <5>1, <5>3
          <6>2. QED
            BY <6>1
        <5>4. CASE c.id # y.case
          BY <2>7, <3>2, <5>2, <5>4 DEF CaseIds
        <5>5. QED
          BY <5>3, <5>4
      <4>2. CASE ~y.opens
        <5>1. PICK b \in cases :
                 /\ c.id = b.id
                 /\ c = IF b.id = y.case THEN [b EXCEPT !.count = n] ELSE b
          BY <2>9, <4>2
        <5>2. PICK a \in cases :
                 /\ d.id = a.id
                 /\ d = IF a.id = y.case THEN [a EXCEPT !.count = n] ELSE a
          BY <2>9, <4>2
        <5>3. a = b
          BY <2>7, <3>2, <5>1, <5>2 DEF CaseIds
        <5>4. QED
          BY <5>1, <5>2, <5>3
      <4>3. QED
        BY <4>1, <4>2
    <3>3. ASSUME NEW v \in Workers, worker'[v].opens
          PROVE  /\ worker'[v].phase = "complete"
                 /\ worker'[v].case > 0
                 /\ \A c \in cases' : c.id # worker'[v].case
      <4>1. v # w /\ worker'[v] = worker[v] /\ worker[v].opens
        BY <1>3, <3>3
      <4>2. y.opens => worker[v].case # y.case
        BY <1>1, <2>7, <4>1 DEF CaseIds
      <4>3. ASSUME NEW c \in cases'
            PROVE  c.id # worker[v].case
        <5>1. CASE \E d \in cases : c.id = d.id
          BY <2>7, <4>1, <5>1 DEF CaseIds
        <5>2. CASE y.opens /\ c.id = y.case
          BY <4>2, <5>2
        <5>3. QED
          BY <2>9, <5>1, <5>2
      <4>4. QED
        BY <2>7, <4>1, <4>3 DEF CaseIds
    <3>4. ASSUME NEW u \in Workers, NEW v \in Workers, worker'[u].opens,
                 worker'[v].opens, worker'[u].case = worker'[v].case
          PROVE  u = v
      BY <1>3, <2>7, <3>4 DEF CaseIds
    <3>5. QED
      BY <3>1, <3>2, <3>3, <3>4 DEF CaseIds
  <2>12. QED
    BY <2>8, <2>10, <2>11
<1>6. y.verdict.finding \in BOOLEAN
  BY DEF WorkerState, Verdict
<1>7. QED
  BY <1>4, <1>5, <1>6

\* A finding and the case it points to never disagree on the number of its
\* events, however the promotions of several workers and the analysts
\* interleave: analyze_event commits both, and no id stands for two cases.
THEOREM CountSafe == Spec => []CaseCountCurrent
<1>1. Init => CountInv
  <2> SUFFICES ASSUME Init PROVE CountInv
    OBVIOUS
  <2>1. /\ cases = {}
        /\ \A w \in Workers : ~worker[w].opens
        /\ \A f \in Tenants \X Keys : finding[f].case = 0
    BY DEF Init, IdleWorker, NoFinding
  <2>2. QED
    BY <2>1, InitInv
    DEF CountInv, CaseIds, FindingCase, CaseCountCurrent, CasesOf
<1>2. CountInv /\ [Next]_vars => CountInv'
  <2> SUFFICES ASSUME CountInv, [Next]_vars PROVE CountInv'
    OBVIOUS
  <2>1. IInv'
    BY NextInv DEF CountInv
  <2>2. CASE UNCHANGED vars
    <3>1. CaseIds' /\ FindingCase' /\ CaseCountCurrent'
      BY <2>2, CountKept DEF vars
    <3>2. QED
      BY <2>1, <3>1 DEF CountInv
  <2>3. ASSUME NEW e \in Events, Arrive(e)
        PROVE  CountInv'
    <3>1. CaseIds' /\ FindingCase' /\ CaseCountCurrent'
      BY <2>3, CountKept DEF Arrive
    <3>2. QED
      BY <2>1, <3>1 DEF CountInv
  <2>4. CASE PurgeWrites \/ \E t \in Tenants, n \in Events : PurgeReads(t, n)
    <3>1. UNCHANGED <<finding, cases, worker>>
      BY <2>4 DEF PurgeWrites, PurgeReads
    <3>2. CaseIds' /\ FindingCase' /\ CaseCountCurrent'
      BY <3>1, CountKept
    <3>3. QED
      BY <2>1, <3>2 DEF CountInv
  <2>5. ASSUME NEW f \in Tenants \X Keys, OpenCase(f)
        PROVE  CountInv'
    BY <2>1, <2>5, OpenCaseCount DEF CountInv
  <2>6. ASSUME NEW w \in Workers, LocalStep(w)
        PROVE  CountInv'
    <3>1. CASE LookUpCase(w)
      BY <2>1, <3>1, LookUpCaseCount DEF CountInv
    <3>2. CASE ~LookUpCase(w)
      <4>1. UNCHANGED <<finding, cases>>
        BY <2>6, LocalStepCommitsNothing
      <4>2. CaseIds' /\ FindingCase' /\ CaseCountCurrent'
        BY <2>6, <3>2, <4>1, NothingOpened, CountKept
      <4>3. QED
        BY <2>1, <4>2 DEF CountInv
    <3>3. QED
      BY <3>1, <3>2
  <2>7. ASSUME NEW w \in Workers, Complete(w)
        PROVE  CountInv'
    BY <2>1, <2>7, CompleteCount DEF CountInv
  <2>8. QED
    BY <2>2, <2>3, <2>4, <2>5, <2>6, <2>7, StepCases DEF Next, Environment
<1>3. CountInv => CaseCountCurrent
  BY DEF CountInv
<1>4. QED
  BY <1>1, <1>2, <1>3, PTL DEF Spec

-----------------------------------------------------------------------------
(***************************************************************************)
(* With one worker.                                                        *)
(*                                                                         *)
(* analyze_event reads the ids of a finding, and whether it has a case,    *)
(* some statements before it writes them back.  With one worker nobody     *)
(* else promotes in between, so what it holds is still what the database   *)
(* holds (Pending): its commit only adds evidence, and the case it opens   *)
(* is the first that was opened automatically.                             *)
(***************************************************************************)
OneWorker == \A v, w \in Workers : v = w

\* What a worker's local state x still knows of the database.
Pending(x) ==
    LET f == <<TenantOf[x.event], x.verdict.key>> IN
    /\ x.verdict.finding /\ x.phase \in {"insert", "case", "complete"}
          => x.seen = finding[f].ids
    /\ x.opens => /\ x.phase = "complete"
                  /\ \A c \in cases : c.of = f => c.by = "analyst"

OneInv ==
    /\ IInv
    /\ \A w \in Workers : Pending(worker[w])
    /\ EvidenceListed
    /\ OneAutoCase

-----------------------------------------------------------------------------
(***************************************************************************)
(* The steps before the commit.                                            *)
(***************************************************************************)

\* A worker outside a promotion has nothing pending.
LEMMA NothingPending ==
    ASSUME NEW x, x.phase \in {"idle", "turn", "read", "lookup"}, ~x.opens
    PROVE  Pending(x)
  BY DEF Pending

\* Steps around the transaction leave nothing pending.
LEMMA SchedulingPending ==
    ASSUME IInv, NEW w \in Workers, Pending(worker[w]),
           \/ StartRun(w) \/ SkipTenant(w) \/ EndPass(w)
           \/ FailEvent(w) \/ Abort(w)
    PROVE  Pending(worker'[w])
<1>1. PICK y \in WorkerState : y = worker[w]
  BY DEF IInv, TypeOK
<1>2. worker \in [Workers -> WorkerState]
  BY DEF IInv, TypeOK
<1>3. /\ IdleWorker.opens = FALSE /\ IdleWorker.phase = "idle"
      /\ NextTurn(w).opens = FALSE /\ NextTurn(w).phase = "turn"
  BY DEF IdleWorker, NextTurn
<1>4. CASE StartRun(w)
  <2>1. PICK x : /\ worker' = [worker EXCEPT ![w] = x]
                 /\ x.opens = FALSE /\ x.phase = "turn"
    <3> DEFINE x == [IdleWorker EXCEPT
                       !.phase = "turn",
                       !.tenants = {TenantOf[e] : e \in
                                      {d \in Events : Ready(d)}},
                       !.left = BatchSize]
    <3>1. worker' = [worker EXCEPT ![w] = x]
      BY <1>4 DEF StartRun
    <3>2. x.opens = FALSE /\ x.phase = "turn"
      BY DEF IdleWorker
    <3> HIDE DEF x
    <3>3. QED
      BY <3>1, <3>2
  <2>2. QED
    BY <1>2, <2>1, NothingPending
<1>5. CASE Abort(w)
  <2>1. worker' = [worker EXCEPT ![w] = IdleWorker]
    BY <1>5 DEF Abort
  <2> HIDE DEF IdleWorker
  <2>2. QED
    BY <1>2, <1>3, <2>1, NothingPending
<1>6. CASE FailEvent(w)
  <2>1. worker' = [worker EXCEPT ![w] = NextTurn(w)]
    BY <1>6 DEF FailEvent
  <2> HIDE DEF NextTurn
  <2>2. QED
    BY <1>2, <1>3, <2>1, NothingPending
<1>7. CASE SkipTenant(w)
  <2>1. worker' = [worker EXCEPT ![w] = [y EXCEPT !.turn = @ + 1]]
    BY <1>1, <1>7 DEF SkipTenant
  <2>2. y.phase = "turn" /\ ~y.opens
    BY <1>1, <1>7 DEF SkipTenant, OnTurn, Pending
  <2>3. PICK x : x = [y EXCEPT !.turn = @ + 1]
    OBVIOUS
  <2>4. x.opens = y.opens /\ x.phase = y.phase
    BY <2>3 DEF WorkerState
  <2>5. Pending(x)
    BY <2>2, <2>4, NothingPending
  <2>6. QED
    BY <1>2, <2>1, <2>3, <2>5
<1>8. CASE EndPass(w)
  <2>1. \/ worker' = [worker EXCEPT ![w] = [y EXCEPT !.turn = 1,
                                                     !.progressed = FALSE]]
        \/ worker' = [worker EXCEPT ![w] = IdleWorker]
    BY <1>1, <1>8 DEF EndPass
  <2>2. y.phase = "turn" /\ ~y.opens
    BY <1>1, <1>8 DEF EndPass, Pending
  <2>3. PICK x : x = [y EXCEPT !.turn = 1, !.progressed = FALSE]
    OBVIOUS
  <2>4. x.opens = y.opens /\ x.phase = y.phase
    BY <2>3 DEF WorkerState
  <2> HIDE DEF IdleWorker
  <2>5. Pending(x) /\ Pending(IdleWorker)
    BY <1>3, <2>2, <2>4, NothingPending
  <2>6. QED
    BY <1>2, <2>1, <2>3, <2>5
<1>9. QED
  BY <1>4, <1>5, <1>6, <1>7, <1>8

\* Acquiring and classifying promote nothing yet.
LEMMA ReadingPending ==
    ASSUME IInv, NEW w \in Workers, Pending(worker[w]),
           \/ \E e \in Events : AcquireNext(w, e)
           \/ Classify(w)
    PROVE  Pending(worker'[w])
<1>1. PICK y \in WorkerState : y = worker[w]
  BY DEF IInv, TypeOK
<1>2. worker \in [Workers -> WorkerState]
  BY DEF IInv, TypeOK
<1>3. ASSUME NEW e \in Events, AcquireNext(w, e)
      PROVE  Pending(worker'[w])
  <2>1. worker' = [worker EXCEPT ![w] = [y EXCEPT !.phase = "read",
                                                  !.event = e]]
    BY <1>1, <1>3 DEF AcquireNext
  <2>2. ~y.opens
    BY <1>1, <1>3 DEF AcquireNext, OnTurn, Pending
  <2>3. PICK x : x = [y EXCEPT !.phase = "read", !.event = e]
    OBVIOUS
  <2>4. x.opens = y.opens /\ x.phase = "read"
    BY <2>3 DEF WorkerState
  <2>5. Pending(x)
    BY <2>2, <2>4, NothingPending
  <2>6. QED
    BY <1>2, <2>1, <2>3, <2>5
<1>4. CASE Classify(w)
  <2>1. PICK v, c : v \in Verdicts /\
           worker' = [worker EXCEPT
              ![w].phase = IF v.finding THEN "lookup" ELSE "complete",
              ![w].verdict = v,
              ![w].context = c]
    BY <1>4 DEF Classify
  <2> DEFINE p == IF v.finding THEN "lookup" ELSE "complete"
             x == [y EXCEPT !.phase = p, !.verdict = v, !.context = c]
  <2>2. worker' = [worker EXCEPT ![w] = x]
    BY <1>1, <2>1
  <2>3. ~y.opens
    BY <1>1, <1>4 DEF Classify, Pending
  <2>4. x.phase = p /\ x.verdict = v /\ x.opens = y.opens
    BY DEF WorkerState
  <2>5. x.verdict.finding => x.phase = "lookup"
    BY <2>4
  <2> HIDE DEF p, x
  <2>6. Pending(x)
    BY <2>3, <2>4, <2>5 DEF Pending
  <2>7. worker'[w] = x
    BY <1>2, <2>2
  <2>8. QED
    BY <2>6, <2>7
<1>5. QED
  BY <1>3, <1>4

\* _promote sees the ids of the finding, and keeps them until it commits.
LEMMA PromotingPending ==
    ASSUME IInv, NEW w \in Workers, Pending(worker[w]),
           LookUpFinding(w) \/ InsertFinding(w)
    PROVE  Pending(worker'[w])
<1>1. PICK y \in WorkerState : y = worker[w]
  BY DEF IInv, TypeOK
<1>2. worker \in [Workers -> WorkerState]
  BY DEF IInv, TypeOK
<1>3. CASE LookUpFinding(w)
  <2>1. PICK p : worker' = [worker EXCEPT ![w] =
           [y EXCEPT !.phase = p,
                     !.seen = finding[<<TenantOf[y.event],
                                        y.verdict.key>>].ids]]
    BY <1>1, <1>3 DEF LookUpFinding, Key
  <2>2. PICK x : /\ worker' = [worker EXCEPT ![w] = x]
                 /\ x.seen = finding[<<TenantOf[y.event], y.verdict.key>>].ids
                 /\ x.event = y.event /\ x.verdict = y.verdict
                 /\ x.opens = y.opens
    <3>1. PICK ids : ids = finding[<<TenantOf[y.event], y.verdict.key>>].ids
      OBVIOUS
    <3>2. PICK x : x = [y EXCEPT !.phase = p, !.seen = ids]
      OBVIOUS
    <3>3. /\ x.seen = ids /\ x.event = y.event /\ x.verdict = y.verdict
          /\ x.opens = y.opens
      BY <3>2 DEF WorkerState
    <3>4. worker' = [worker EXCEPT ![w] = x]
      BY <2>1, <3>1, <3>2
    <3>5. QED
      BY <3>1, <3>3, <3>4
  <2>3. ~y.opens
    BY <1>1, <1>3 DEF LookUpFinding, Pending
  <2>4. Pending(x)
    BY <2>2, <2>3 DEF Pending
  <2>5. QED
    BY <1>2, <2>2, <2>4
<1>4. CASE InsertFinding(w)
  <2>1. worker' = [worker EXCEPT ![w] = [y EXCEPT !.phase = "case",
                                                  !.inserted = TRUE]]
    BY <1>1, <1>4 DEF InsertFinding
  <2>2. PICK x : x = [y EXCEPT !.phase = "case", !.inserted = TRUE]
    OBVIOUS
  <2>3. /\ x.seen = y.seen /\ x.opens = y.opens
        /\ x.event = y.event /\ x.verdict = y.verdict
    BY <2>2 DEF WorkerState
  <2>4. y.phase = "insert" /\ ~y.opens /\ Pending(y)
    BY <1>1, <1>4 DEF InsertFinding, Pending
  <2>5. Pending(x)
    BY <2>3, <2>4 DEF Pending
  <2>6. QED
    BY <1>2, <2>1, <2>2, <2>5
<1>5. QED
  BY <1>3, <1>4

\* A case is opened where the finding has none, from a worker or an analyst.
LEMMA LookUpCasePending ==
    ASSUME IInv, NEW w \in Workers, Pending(worker[w]), LookUpCase(w)
    PROVE  Pending(worker'[w])
<1>1. PICK y \in WorkerState : y = worker[w]
  BY DEF IInv, TypeOK
<1>2. worker \in [Workers -> WorkerState]
  BY DEF IInv, TypeOK
<1>3. y.phase = "case" /\ ~y.opens /\ Pending(y)
  BY <1>1 DEF LookUpCase, Pending
<1> DEFINE To(n, o) ==
             /\ worker' = [worker EXCEPT ![w] =
                   [y EXCEPT !.phase = "complete", !.case = n, !.opens = o]]
             /\ o # y.opens => CasesOf(Key(w)) = {}
<1>4. PICK n, o : To(n, o)
  <2>1. \A n : /\ [y EXCEPT !.phase = "complete", !.case = n]
                    = [y EXCEPT !.phase = "complete", !.case = n,
                                !.opens = y.opens]
               /\ [y EXCEPT !.phase = "complete"]
                    = [y EXCEPT !.phase = "complete", !.case = y.case,
                                !.opens = y.opens]
    BY DEF WorkerState
  <2>2. ASSUME NEW n, worker' = [worker EXCEPT ![w].phase = "complete",
                                               ![w].case = n]
        PROVE  To(n, y.opens)
    <3>1. worker' = [worker EXCEPT
                        ![w] = [y EXCEPT !.phase = "complete", !.case = n]]
      BY <1>1, <2>2
    <3>2. QED
      BY <2>1, <3>1
  <2>3. CASE worker' = [worker EXCEPT ![w].phase = "complete"]
    <3>1. To(y.case, y.opens)
      BY <1>1, <2>1, <2>3
    <3> HIDE DEF To
    <3>2. QED
      BY <3>1
  <2>4. ASSUME NEW n, CasesOf(Key(w)) = {},
               worker' = [worker EXCEPT ![w].phase = "complete",
                                        ![w].case = n, ![w].opens = TRUE]
        PROVE  To(n, TRUE)
    BY <1>1, <2>4
  <2> HIDE DEF To
  <2>5. QED
    BY <2>2, <2>3, <2>4 DEF LookUpCase
<1>5. PICK x : /\ x = [y EXCEPT !.phase = "complete", !.case = n, !.opens = o]
               /\ worker' = [worker EXCEPT ![w] = x]
  BY <1>4
<1>6. /\ x.phase = "complete" /\ x.opens = o
      /\ x.seen = y.seen
      /\ x.event = y.event /\ x.verdict = y.verdict
  BY <1>5 DEF WorkerState
<1>7. x.opens => \A c \in cases : c.of # <<TenantOf[y.event], y.verdict.key>>
  BY <1>1, <1>3, <1>4, <1>6 DEF CasesOf, Key
<1>8. Pending(x)
  BY <1>3, <1>6, <1>7 DEF Pending
<1>9. QED
  BY <1>2, <1>5, <1>8

LEMMA LocalPending ==
    ASSUME IInv, NEW w \in Workers, Pending(worker[w]), LocalStep(w)
    PROVE  Pending(worker[w])'
<1>1. Pending(worker'[w])
  BY SchedulingPending, ReadingPending, PromotingPending, LookUpCasePending
  DEF LocalStep
<1>2. QED
  BY <1>1, LocalStepCommitsNothing DEF Pending

-----------------------------------------------------------------------------
(***************************************************************************)
(* The commit.                                                             *)
(***************************************************************************)

\* The commit writes the ids that are there, and its own.
LEMMA CompleteListed ==
    ASSUME OneInv, NEW w \in Workers, Complete(w)
    PROVE  EvidenceListed'
<1>1. PICK y \in WorkerState : y = worker[w]
  BY DEF OneInv, IInv, TypeOK
<1>2. /\ IInv /\ EvidenceListed /\ Pending(y) /\ Local(y)
      /\ y.phase = "complete"
      /\ finding \in [Tenants \X Keys -> FindingRow]
  BY <1>1 DEF OneInv, IInv, TypeOK, Complete
<1>3. y.event \in Events
  BY <1>2 DEF Local, InTransaction
<1>4. PICK linked \in SUBSET Events :
         /\ linked = IF y.verdict.finding THEN Linked(w) ELSE {}
         /\ CommitsEvents(y.event, linked, y.verdict, y.case)
         /\ event' \in [Events -> EventRow]
         /\ IF y.verdict.finding
            THEN finding' = [finding EXCEPT ![Key(w)] =
                    [exists |-> TRUE,
                     ids |-> y.seen \cup linked \cup {y.event},
                     case |-> y.case]]
            ELSE finding' = finding
  BY <1>1, <1>2, CompleteWrites
<1>5. event'[y.event].finding
         = IF y.verdict.finding THEN y.verdict.key ELSE NoKey
  <2>1. PICK r \in EventRow : r = event[y.event]
    BY <1>2, <1>3 DEF IInv, TypeOK
  <2>2. PICK k : k = IF y.verdict.finding THEN y.verdict.key ELSE NoKey
    OBVIOUS
  <2>3. event'[y.event] = [r EXCEPT !.state = "analyzed",
                                    !.verdict = y.verdict,
                                    !.finding = k, !.case = y.case]
    BY <1>4, <2>1, <2>2 DEF CommitsEvents
  <2>4. event'[y.event].finding = k
    BY <2>3 DEF EventRow
  <2>5. QED
    BY <2>2, <2>4
<1> DEFINE Listed(d) == event'[d].finding # NoKey =>
                   d \in finding'[<<TenantOf[d], event'[d].finding>>].ids
<1>6. CASE ~y.verdict.finding
  <2>1. \A d \in Events : d # y.event => event'[d] = event[d]
    BY <1>4, <1>6 DEF CommitsEvents
  <2>2. \A d \in Events : Listed(d)
    BY <1>2, <1>4, <1>5, <1>6, <2>1 DEF EvidenceListed
  <2>3. QED
    BY <2>2 DEF EvidenceListed
<1>7. CASE y.verdict.finding
  <2> DEFINE f == <<TenantOf[y.event], y.verdict.key>>
             ids == y.seen \cup linked \cup {y.event}
  <2>1. f \in Tenants \X Keys /\ Key(w) = f
    BY <1>1, <1>2, <1>3, <1>7, ConstantsAssumption
    DEF Local, Key, WorkerState, Verdict
  <2>2. finding' = [finding EXCEPT ![f] = [exists |-> TRUE, ids |-> ids,
                                           case |-> y.case]]
    BY <1>4, <1>7, <2>1
  <2>3. /\ finding'[f].ids = ids
        /\ \A g \in Tenants \X Keys : g # f => finding'[g] = finding[g]
    BY <1>2, <2>1, <2>2
  <2>4. finding[f].ids \subseteq ids
    BY <1>2, <1>7 DEF Pending
  <2> HIDE DEF ids
  <2>5. y.event \in ids /\ linked \subseteq ids
    BY DEF ids
  <2>6. ASSUME NEW d \in Events, d = y.event \/ d \in linked
        PROVE  Listed(d)
    <3>1. TenantOf[d] = TenantOf[y.event]
      BY <1>1, <1>2, <1>4, <1>7, <2>6, LinkedContext
    <3>2. event'[d].finding = y.verdict.key
      BY <1>4, <1>5, <1>7, <2>6 DEF CommitsEvents
    <3>3. QED
      BY <2>3, <2>5, <2>6, <3>1, <3>2
  <2>7. ASSUME NEW d \in Events, d # y.event, d \notin linked,
               event'[d].finding # NoKey
        PROVE  d \in finding'[<<TenantOf[d], event'[d].finding>>].ids
    <3> DEFINE g == <<TenantOf[d], event[d].finding>>
    <3>1. event'[d] = event[d]
      BY <1>4, <2>7 DEF CommitsEvents
    <3>2. d \in finding[g].ids
      BY <1>2, <2>7, <3>1 DEF EvidenceListed
    <3>3. g \in Tenants \X Keys
      BY <1>2, <2>7, <3>1, ConstantsAssumption DEF IInv, TypeOK, EventRow
    <3>4. finding[g].ids \subseteq finding'[g].ids
      BY <2>3, <2>4, <3>3
    <3>5. QED
      BY <3>1, <3>2, <3>4
  <2>8. QED
    BY <2>6, <2>7 DEF EvidenceListed
<1>8. QED
  BY <1>6, <1>7

\* The commit adds the only automatic case of its finding, or none.
LEMMA CompleteAuto ==
    ASSUME OneInv, NEW w \in Workers, Complete(w)
    PROVE  OneAutoCase'
<1>1. PICK y \in WorkerState : y = worker[w]
  BY DEF OneInv, IInv, TypeOK
<1>2. OneAutoCase /\ Pending(y) /\ cases \in SUBSET Case
  BY <1>1 DEF OneInv, IInv, TypeOK
<1>3. CASE cases' = cases
  BY <1>2, <1>3 DEF OneAutoCase
<1>4. ASSUME NEW n, cases' = CasesAfter(w, n)
      PROVE  OneAutoCase'
  <2>1. CASE y.opens
    <3> DEFINE f == <<TenantOf[y.event], y.verdict.key>>
               new == [id |-> y.case, of |-> f, count |-> n, by |-> "worker"]
    <3>1. cases' = cases \cup {new} /\ new.of = f
      BY <1>1, <1>4, <2>1 DEF CasesAfter, Key
    <3>2. \A c \in cases : c.of = f => c.by = "analyst"
      BY <1>2, <2>1 DEF Pending
    <3> HIDE DEF new, f
    <3>3. QED
      BY <1>2, <3>1, <3>2 DEF OneAutoCase
  <2>2. CASE ~y.opens
    <3> DEFINE Told(c) == IF c.id = y.case THEN [c EXCEPT !.count = n] ELSE c
    <3>1. cases' = {Told(c) : c \in cases}
      BY <1>1, <1>4, <2>2 DEF CasesAfter
    <3>2. \A c \in cases : Told(c).of = c.of /\ Told(c).by = c.by
      BY <1>2 DEF Case
    <3> HIDE DEF Told
    <3>3. QED
      BY <1>2, <3>1, <3>2 DEF OneAutoCase
  <2>3. QED
    BY <2>1, <2>2
<1>5. QED
  BY <1>3, <1>4 DEF Complete

\* After its commit the worker has nothing pending.
LEMMA CompletePending ==
    ASSUME IInv, NEW w \in Workers, Complete(w)
    PROVE  Pending(worker[w])'
<1>1. /\ worker' = [worker EXCEPT ![w] = NextTurn(w)]
      /\ worker \in [Workers -> WorkerState]
  BY DEF Complete, IInv, TypeOK
<1>2. NextTurn(w).opens = FALSE /\ NextTurn(w).phase = "turn"
  BY DEF NextTurn, IdleWorker
<1> HIDE DEF NextTurn
<1>3. QED
  BY <1>1, <1>2 DEF Pending

-----------------------------------------------------------------------------
(***************************************************************************)
(* The environment, and the theorems.                                      *)
(***************************************************************************)

\* Arrivals and the purge bind nothing, and an analyst's case is not automatic.
LEMMA EnvironmentOne ==
    ASSUME OneInv, Environment
    PROVE  /\ \A w \in Workers : Pending(worker[w])'
           /\ EvidenceListed'
           /\ OneAutoCase'
<1>1. finding' = finding /\ worker' = worker
  BY DEF Environment, Arrive, PurgeReads, PurgeWrites, OpenCase
<1>2. \A d \in Events : event'[d].finding = event[d].finding
  <2>1. event \in [Events -> EventRow]
    BY DEF OneInv, IInv, TypeOK
  <2>2. ASSUME NEW e \in Events, Arrive(e), NEW d \in Events
        PROVE  event'[d].finding = event[d].finding
    BY <2>1, <2>2 DEF Arrive, EventRow
  <2>3. ASSUME PurgeWrites, NEW d \in Events
        PROVE  event'[d].finding = event[d].finding
    <3>1. PICK r \in EventRow : r = event[d]
      BY <2>1
    <3>2. \E v : \/ event'[d] = r
                 \/ event'[d] = [r EXCEPT !.purged = TRUE, !.verdict = v]
      BY <2>3, <3>1 DEF PurgeWrites
    <3>3. QED
      BY <3>1, <3>2 DEF EventRow
  <2>4. QED
    BY <2>2, <2>3 DEF Environment, PurgeReads, OpenCase
<1>3. \A c \in cases' : c \in cases \/ c.by = "analyst"
  <2>1. ASSUME NEW f \in Tenants \X Keys, OpenCase(f)
        PROVE  \E c : cases' = cases \cup {c} /\ c.by = "analyst"
    <3>1. PICK n : cases' = cases \cup {[id |-> n, of |-> f, count |-> 0,
                                         by |-> "analyst"]}
      BY <2>1 DEF OpenCase
    <3>2. PICK c : c = [id |-> n, of |-> f, count |-> 0, by |-> "analyst"]
      OBVIOUS
    <3>3. c.by = "analyst"
      BY <3>2
    <3>4. QED
      BY <3>1, <3>2, <3>3
  <2>2. CASE cases' = cases
    BY <2>2
  <2>3. QED
    BY <2>1, <2>2 DEF Environment, Arrive, PurgeReads, PurgeWrites
<1>4. EvidenceListed'
  BY <1>1, <1>2 DEF OneInv, EvidenceListed
<1>5. OneAutoCase'
  BY <1>3 DEF OneInv, OneAutoCase
<1>6. \A w \in Workers : Pending(worker[w])'
  BY <1>1, <1>3 DEF OneInv, Pending
<1>7. QED
  BY <1>4, <1>5, <1>6

\* Every step of an analysis with one worker keeps evidence and cases whole.
LEMMA NextOne ==
    ASSUME OneInv, OneWorker, [Next]_vars
    PROVE  OneInv'
<1>1. IInv'
  BY NextInv DEF OneInv
<1>2. CASE UNCHANGED vars
  BY <1>1, <1>2 DEF vars, OneInv, Pending, EvidenceListed, OneAutoCase
<1>3. CASE Environment
  BY <1>1, <1>3, EnvironmentOne DEF OneInv
<1>4. ASSUME NEW w \in Workers, Complete(w)
      PROVE  OneInv'
  BY <1>1, <1>4, CompleteListed, CompleteAuto, CompletePending
     DEF OneInv, OneWorker
<1>5. ASSUME NEW w \in Workers, LocalStep(w)
      PROVE  OneInv'
  <2>1. Pending(worker[w])'
    BY <1>5, LocalPending DEF OneInv
  <2>2. EvidenceListed' /\ OneAutoCase'
    BY <1>5, LocalStepCommitsNothing DEF OneInv, EvidenceListed, OneAutoCase
  <2>3. QED
    BY <1>1, <2>1, <2>2 DEF OneInv, OneWorker
<1>6. QED
  BY <1>2, <1>3, <1>4, <1>5, StepCases DEF Next

LEMMA OneInductive ==
    ASSUME OneWorker
    PROVE  Spec => []OneInv
<1>1. Init => OneInv
  <2> SUFFICES ASSUME Init PROVE OneInv
    OBVIOUS
  <2>1. /\ cases = {}
        /\ \A w \in Workers : ~worker[w].opens /\ worker[w].phase = "idle"
        /\ \A e \in Events : event[e].finding = NoKey
    BY DEF Init, IdleWorker, BlankEvent
  <2>2. QED
    BY <2>1, InitInv, NothingPending DEF OneInv, EvidenceListed, OneAutoCase
<1>2. OneInv /\ [Next]_vars => OneInv'
  BY NextOne
<1>3. QED
  BY <1>1, <1>2, PTL DEF Spec

\* Where one process runs run_analysis_once, a finding lists every event that
\* is bound to it: no promotion overwrites the ids of another.
THEOREM EvidenceKept ==
    ASSUME OneWorker
    PROVE  Spec => []EvidenceListed
<1>1. OneInv => EvidenceListed
  BY DEF OneInv
<1>2. QED
  BY <1>1, OneInductive, PTL

\* Where one process runs run_analysis_once, no finding is given a second
\* case automatically, whatever the analysts open beside it.
THEOREM CaseReused ==
    ASSUME OneWorker
    PROVE  Spec => []OneAutoCase
<1>1. OneInv => OneAutoCase
  BY DEF OneInv
<1>2. QED
  BY <1>1, OneInductive, PTL
=============================================================================
