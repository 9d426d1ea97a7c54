------------------------- MODULE IntelligenceAnalysis -------------------------
(***************************************************************************)
(* The analysis of collected events and their promotion into findings and  *)
(* cases: app/collection/intelligence_analysis.py on the queue of          *)
(* app/collection/analysis.py, beside the retention purge of               *)
(* app/collection/retention.py and the analysts who open cases through     *)
(* app/routers/exposure_routes.py.                                         *)
(*                                                                         *)
(* A worker analyses one event per database transaction: it locks the      *)
(* oldest ready event (FOR UPDATE SKIP LOCKED), reads the conversation     *)
(* before it, classifies, looks the finding and its case up and commits    *)
(* everything at once.  Between these statements other transactions        *)
(* commit (READ COMMITTED), and what the worker has read is written back.  *)
(*                                                                         *)
(* The state 'analyzing' is only ever written inside that transaction, so  *)
(* it shows here as the event a worker holds.                              *)
(***************************************************************************)
EXTENDS Integers, FiniteSets

CONSTANTS
    Workers,       \* processes running run_analysis_once
    NumTenants,    \* tenants are 1..NumTenants
    MaxEvent,      \* bound: events the collector ever stores, ids 1..MaxEvent
    TenantOf,      \* [Events -> Tenants]
    ContextOf,     \* [Events -> SUBSET Events]: same source, within the window
    Held,          \* events under legal hold
    Poison,        \* events the classifier raises on, every time
    Keys,          \* dedup keys of findings: target, family and day
    NoKey,         \* "no finding"
    Credential,    \* keys of the family credential_exposure
    TargetOf,      \* [Keys -> target reference]
    Verdicts,      \* results the classifier and correlator may return
    BatchSize,     \* policy.batch_size
    MaxOpened,     \* bound: cases analysts open by hand
    MaxCase        \* bound: case ids, enough for every case ever opened

Tenants == 1..NumTenants
Events == 1..MaxEvent

\* A sanitised result bound to an approved target: its decision, of which
\* some may be linked as context later, its dedup key and what it promotes.
Verdict == [decision: {"none", "linkable", "other"},
            key: Keys \cup {NoKey}, finding: BOOLEAN, case: BOOLEAN]
NoVerdict == [decision |-> "none", key |-> NoKey, finding |-> FALSE,
              case |-> FALSE]

ASSUME ConstantsAssumption ==
    /\ NumTenants \in Nat
    /\ MaxEvent \in Nat
    /\ TenantOf \in [Events -> Tenants]
    /\ ContextOf \in [Events -> SUBSET Events]
    /\ \A e \in Events : \A d \in ContextOf[e] :
          d < e /\ TenantOf[d] = TenantOf[e]
    /\ Held \subseteq Events
    /\ Poison \subseteq Events
    /\ NoKey \notin Keys
    /\ Credential \subseteq Keys
    /\ Verdicts \subseteq Verdict
    /\ \A v \in Verdicts : v.finding => v.key # NoKey
    /\ BatchSize \in Nat \ {0}
    /\ MaxOpened \in Nat
    /\ MaxCase \in Nat

VARIABLES
    event,     \* [Events -> row of collection_event]
    finding,   \* [Tenants \X Keys -> row of exposure_finding, or its absence]
    cases,     \* rows of investigation_cases opened from findings
    worker,    \* [Workers -> local state of run_analysis_once]
    purge      \* local state of purge_expired_events

vars == <<event, finding, cases, worker, purge>>

-----------------------------------------------------------------------------
\* verdict is what analysis_json holds, NoVerdict when it is empty.
EventRow == [state: {"absent", "normalized", "analyzed"}, verdict: Verdict,
             finding: Keys \cup {NoKey}, case: Nat, purged: BOOLEAN]
BlankEvent == [state |-> "absent", verdict |-> NoVerdict, finding |-> NoKey,
               case |-> 0, purged |-> FALSE]

\* detail.event_ids and detail.case_id of the finding; 0 stands for NULL.
FindingRow == [exists: BOOLEAN, ids: SUBSET Events, case: Nat]
NoFinding == [exists |-> FALSE, ids |-> {}, case |-> 0]

\* count is finding_snapshot.intelligence.event_count.
Case == [id: Nat, of: Tenants \X Keys, count: Nat, by: {"worker", "analyst"}]

Phase == {"idle", "turn", "read", "lookup", "insert", "case", "complete"}
InTransaction == {"read", "lookup", "insert", "case", "complete"}

WorkerState ==
    [phase: Phase, tenants: SUBSET Tenants, turn: Nat, left: Nat,
     progressed: BOOLEAN, event: Nat, verdict: Verdict,
     context: [Events -> EventRow], inserted: BOOLEAN, seen: SUBSET Events,
     case: Nat, opens: BOOLEAN]

TypeOK ==
    /\ event \in [Events -> EventRow]
    /\ finding \in [Tenants \X Keys -> FindingRow]
    /\ cases \in SUBSET Case
    /\ worker \in [Workers -> WorkerState]
    /\ purge \in [rows: SUBSET Events, analyzed: SUBSET Events]

NoContext == [e \in Events |-> BlankEvent]

IdleWorker ==
    [phase |-> "idle", tenants |-> {}, turn |-> 1, left |-> 0,
     progressed |-> FALSE, event |-> 0, verdict |-> NoVerdict,
     context |-> NoContext, inserted |-> FALSE, seen |-> {}, case |-> 0,
     opens |-> FALSE]

Init ==
    /\ event = [e \in Events |-> BlankEvent]
    /\ finding = [f \in Tenants \X Keys |-> NoFinding]
    /\ cases = {}
    /\ worker = [w \in Workers |-> IdleWorker]
    /\ purge = [rows |-> {}, analyzed |-> {}]

-----------------------------------------------------------------------------
(***************************************************************************)
(* The rest of the system: the collector stores events in id order, the    *)
(* retention job purges old ones and analysts open cases.                  *)
(***************************************************************************)
Arrive(e) ==
    /\ event[e].state = "absent"
    /\ \A d \in 1..(e - 1) : event[d].state # "absent"
    /\ event' = [event EXCEPT ![e].state = "normalized"]
    /\ UNCHANGED <<finding, cases, worker, purge>>

Holds(w, e) == worker[w].phase \in InTransaction /\ worker[w].event = e

\* The rows of a tenant created before older_than, read in one statement.
PurgeReads(t, n) ==
    LET old == {e \in 1..n : /\ TenantOf[e] = t
                             /\ event[e].state # "absent"
                             /\ ~event[e].purged
                             /\ e \notin Held}
    IN
    /\ purge.rows = {}
    /\ old # {}
    /\ purge' = [rows |-> old,
                 analyzed |-> {e \in old : event[e].verdict # NoVerdict}]
    /\ UNCHANGED <<event, finding, cases, worker>>

\* Mutant: the purge is recorded as a state of processing.
PurgeMarksState ==
    /\ purge.rows # {}
    /\ event' = [e \in Events |->
          IF e \in purge.rows
          THEN [event[e] EXCEPT !.state = "purged", !.verdict = NoVerdict]
          ELSE event[e]]
    /\ purge' = [rows |-> {}, analyzed |-> {}]
    /\ UNCHANGED <<finding, cases, worker>>

\* The job's UPDATEs wait for row locks; a column that was read empty is not
\* written again.
PurgeWrites ==
    /\ purge.rows # {}
    /\ \A w \in Workers, e \in purge.rows : ~Holds(w, e)
    /\ event' = [e \in Events |->
          IF e \notin purge.rows THEN event[e]
          ELSE [event[e] EXCEPT
                  !.purged = TRUE,
                  !.verdict = IF e \in purge.analyzed THEN NoVerdict ELSE @]]
    /\ purge' = [rows |-> {}, analyzed |-> {}]
    /\ UNCHANGED <<finding, cases, worker>>

CasesOf(f) == {c \in cases : c.of = f}

\* Case ids are drawn when a row is inserted, above every id in use.
UsedCases == {c.id : c \in cases}
                \cup {worker[w].case : w \in {v \in Workers : worker[v].opens}}

FreshCase(n) ==
    /\ \A u \in UsedCases : u < n
    /\ n = 1 \/ n - 1 \in UsedCases

\* POST /exposure/findings/{id}/case: no look at the cases that exist.
OpenCase(f) ==
    /\ finding[f].exists
    /\ Cardinality({c \in cases : c.by = "analyst"}) < MaxOpened
    /\ \E n \in 1..MaxCase :
        /\ FreshCase(n)
        /\ cases' = cases \cup {[id |-> n, of |-> f, count |-> 0,
                                 by |-> "analyst"]}
    /\ UNCHANGED <<event, finding, worker, purge>>

-----------------------------------------------------------------------------
(***************************************************************************)
(* run_analysis_once: the tenants with open events are read once, each     *)
(* turn takes one event of one tenant until a pass finds none or the       *)
(* budget of the batch is used up.                                         *)
(***************************************************************************)
\* Mutant: purged events are analysed too.
ReadyEvenPurged(e) == event[e].state = "normalized"

Ready(e) == event[e].state = "normalized" /\ ~event[e].purged

StartRun(w) ==
    /\ worker[w].phase = "idle"
    /\ \E e \in Events : Ready(e)
    /\ worker' = [worker EXCEPT ![w] =
          [IdleWorker EXCEPT !.phase = "turn",
                             !.tenants = {TenantOf[e] : e \in
                                            {d \in Events : Ready(d)}},
                             !.left = BatchSize]]
    /\ UNCHANGED <<event, finding, cases, purge>>

\* What acquire_next may lock for w: rows locked by another are skipped.
Lockable(t) == {e \in Events : /\ TenantOf[e] = t
                               /\ Ready(e)
                               /\ \A v \in Workers : ~Holds(v, e)}

\* A tenant's turn begins.
OnTurn(w) ==
    /\ worker[w].phase = "turn"
    /\ worker[w].left > 0
    /\ worker[w].turn <= NumTenants

\* Mutant: rows another worker has locked are not skipped.
AcquireLocked(w, e) ==
    /\ OnTurn(w)
    /\ worker[w].turn \in worker[w].tenants
    /\ TenantOf[e] = worker[w].turn
    /\ Ready(e)
    /\ \A d \in Events : TenantOf[d] = worker[w].turn /\ Ready(d) => e <= d
    /\ worker' = [worker EXCEPT ![w].phase = "read", ![w].event = e]
    /\ UNCHANGED <<event, finding, cases, purge>>

AcquireNext(w, e) ==
    /\ OnTurn(w)
    /\ worker[w].turn \in worker[w].tenants
    /\ e \in Lockable(worker[w].turn)
    /\ \A d \in Lockable(worker[w].turn) : e <= d
    /\ worker' = [worker EXCEPT ![w].phase = "read", ![w].event = e]
    /\ UNCHANGED <<event, finding, cases, purge>>

\* Mutant: an empty tenant does not end its turn.
SkipStays(w) ==
    /\ OnTurn(w)
    /\ worker[w].turn \in worker[w].tenants => Lockable(worker[w].turn) = {}
    /\ worker' = [worker EXCEPT ![w].progressed = FALSE]
    /\ UNCHANGED <<event, finding, cases, purge>>

SkipTenant(w) ==
    /\ OnTurn(w)
    /\ worker[w].turn \in worker[w].tenants => Lockable(worker[w].turn) = {}
    /\ worker' = [worker EXCEPT ![w].turn = @ + 1]
    /\ UNCHANGED <<event, finding, cases, purge>>

\* The tenants have all had their turn, or the budget is used up.
EndPass(w) ==
    /\ worker[w].phase = "turn"
    /\ worker[w].left = 0 \/ worker[w].turn > NumTenants
    /\ worker' = [worker EXCEPT ![w] =
          IF worker[w].left > 0 /\ worker[w].progressed
          THEN [worker[w] EXCEPT !.turn = 1, !.progressed = FALSE]
          ELSE IdleWorker]
    /\ UNCHANGED <<event, finding, cases, purge>>

-----------------------------------------------------------------------------
(***************************************************************************)
(* analyze_event, one transaction.                                         *)
(***************************************************************************)
Key(w) == <<TenantOf[worker[w].event], worker[w].verdict.key>>

\* recent_context_events and build_envelope, then classify and correlate.
Classify(w) ==
    LET e == worker[w].event IN
    /\ worker[w].phase = "read"
    /\ e \notin Poison
    /\ \E v \in Verdicts :
          worker' = [worker EXCEPT
             ![w].phase = IF v.finding THEN "lookup" ELSE "complete",
             ![w].verdict = v,
             ![w].context = [d \in Events |->
                                IF d \in ContextOf[e] /\ ~event[d].purged
                                THEN event[d] ELSE BlankEvent]]
    /\ UNCHANGED <<event, finding, cases, purge>>

\* Mutant: the ids the finding holds are not carried over.
LookUpAfresh(w) ==
    /\ worker[w].phase = "lookup"
    /\ worker' = [worker EXCEPT
          ![w].phase = IF finding[Key(w)].exists THEN "case" ELSE "insert"]
    /\ UNCHANGED <<event, finding, cases, purge>>

\* _promote reads the finding of the dedup key.
LookUpFinding(w) ==
    /\ worker[w].phase = "lookup"
    /\ worker' = [worker EXCEPT
          ![w].phase = IF finding[Key(w)].exists THEN "case" ELSE "insert",
          ![w].seen = finding[Key(w)].ids]
    /\ UNCHANGED <<event, finding, cases, purge>>

\* The INSERT waits for another open transaction that inserted the key.
InsertFinding(w) ==
    /\ worker[w].phase = "insert"
    /\ ~finding[Key(w)].exists
    /\ \A v \in Workers \ {w} : worker[v].inserted => Key(v) # Key(w)
    /\ worker' = [worker EXCEPT ![w].phase = "case", ![w].inserted = TRUE]
    /\ UNCHANGED <<event, finding, cases, purge>>

\* Mutant: the case lookup is left out.
OpenAlways(w) ==
    /\ worker[w].phase = "case"
    /\ \E n \in 1..MaxCase :
          /\ FreshCase(n)
          /\ worker' = [worker EXCEPT ![w].phase = "complete",
                                      ![w].case = n,
                                      ![w].opens = worker[w].verdict.case]
    /\ UNCHANGED <<event, finding, cases, purge>>

\* Mutant: the first case of the tenant is taken for the finding's.
LookUpAnyCase(w) ==
    /\ worker[w].phase = "case"
    /\ \/ \E c \in cases :
             /\ c.of[1] = Key(w)[1]
             /\ \A d \in cases : d.of[1] = Key(w)[1] => c.id <= d.id
             /\ worker' = [worker EXCEPT ![w].phase = "complete",
                                         ![w].case = c.id]
       \/ /\ \A c \in cases : c.of[1] # Key(w)[1]
          /\ worker' = [worker EXCEPT ![w].phase = "complete"]
    /\ UNCHANGED <<event, finding, cases, purge>>

\* _find_case_for_exposure: the first case of the finding is reused, in any
\* status; otherwise a verdict that asks for one inserts a case.
LookUpCase(w) ==
    /\ worker[w].phase = "case"
    /\ \/ \E c \in CasesOf(Key(w)) :
             /\ \A d \in CasesOf(Key(w)) : c.id <= d.id
             /\ worker' = [worker EXCEPT ![w].phase = "complete",
                                         ![w].case = c.id]
       \/ /\ CasesOf(Key(w)) = {}
          /\ worker[w].verdict.case
          /\ \E n \in 1..MaxCase :
                /\ FreshCase(n)
                /\ worker' = [worker EXCEPT ![w].phase = "complete",
                                            ![w].case = n,
                                            ![w].opens = TRUE]
       \/ /\ CasesOf(Key(w)) = {}
          /\ ~worker[w].verdict.case
          /\ worker' = [worker EXCEPT ![w].phase = "complete"]
    /\ UNCHANGED <<event, finding, cases, purge>>

\* _link_context_events: earlier events of the same target that were read
\* as analysed and free, or already linked to this finding and case.
Linked(w) ==
    LET key  == worker[w].verdict.key
        case == worker[w].case
    IN
    {d \in ContextOf[worker[w].event] :
        LET row == worker[w].context[d] IN
        /\ key \in Credential
        /\ row.verdict.decision = "linkable"
        /\ row.verdict.key # NoKey
        /\ TargetOf[row.verdict.key] = TargetOf[key]
        /\ row.finding \in {NoKey, key}
        /\ case # 0 => row.case \in {0, case}}

NextTurn(w) == [IdleWorker EXCEPT !.phase = "turn",
                                  !.tenants = worker[w].tenants,
                                  !.turn = worker[w].turn + 1,
                                  !.left = worker[w].left - 1,
                                  !.progressed = TRUE]

Promoted(w) == worker[w].verdict.finding

\* The case table after w's commit: its new row, or the count of the row
\* it reuses.
CasesAfter(w, count) ==
    IF worker[w].opens
    THEN cases \cup {[id |-> worker[w].case, of |-> Key(w), count |-> count,
                      by |-> "worker"]}
    ELSE {IF c.id = worker[w].case THEN [c EXCEPT !.count = count] ELSE c :
             c \in cases}

\* Mutant: the case is not told of the new evidence.
CompleteWithoutCount(w) ==
    LET e == worker[w].event
        ids == worker[w].seen \cup Linked(w) \cup {e}
    IN
    /\ worker[w].phase = "complete"
    /\ event' = [event EXCEPT ![e].state = "analyzed",
                              ![e].verdict = worker[w].verdict,
                              ![e].finding = IF Promoted(w) THEN Key(w)[2]
                                             ELSE NoKey,
                              ![e].case = worker[w].case]
    /\ finding' = IF Promoted(w)
                  THEN [finding EXCEPT ![Key(w)] =
                          [exists |-> TRUE, ids |-> ids,
                           case |-> worker[w].case]]
                  ELSE finding
    /\ cases' = IF worker[w].opens THEN CasesAfter(w, 1) ELSE cases
    /\ worker' = [worker EXCEPT ![w] = NextTurn(w)]
    /\ UNCHANGED purge

\* The end of _promote, complete and the commit: event, linked context,
\* finding and case together.
Complete(w) ==
    LET e == worker[w].event
        linked == IF Promoted(w) THEN Linked(w) ELSE {}
        ids == worker[w].seen \cup linked \cup {e}
    IN
    /\ worker[w].phase = "complete"
    /\ event' = [d \in Events |->
          IF d = e
          THEN [event[e] EXCEPT
                  !.state = "analyzed",
                  !.verdict = worker[w].verdict,
                  !.finding = IF Promoted(w) THEN worker[w].verdict.key
                              ELSE NoKey,
                  !.case = worker[w].case]
          ELSE IF d \in linked
          THEN [event[d] EXCEPT
                  !.verdict = worker[w].context[d].verdict,
                  !.finding = worker[w].verdict.key,
                  !.case = worker[w].case]
          ELSE event[d]]
    /\ finding' = IF Promoted(w)
                  THEN [finding EXCEPT ![Key(w)] =
                          [exists |-> TRUE, ids |-> ids,
                           case |-> worker[w].case]]
                  ELSE finding
    /\ cases' = IF Promoted(w) THEN CasesAfter(w, Cardinality(ids)) ELSE cases
    /\ worker' = [worker EXCEPT ![w] = NextTurn(w)]
    /\ UNCHANGED purge

\* Mutant: the failed analysis leaves its finding behind.
FailKeepsFinding(w) ==
    /\ worker[w].phase \in InTransaction
    /\ finding' = IF worker[w].inserted
                  THEN [finding EXCEPT ![Key(w)].exists = TRUE]
                  ELSE finding
    /\ worker' = [worker EXCEPT ![w] = NextTurn(w)]
    /\ UNCHANGED <<event, cases, purge>>

\* Any exception of analyze_event, the lost race for a dedup key included:
\* rolled back, the event is normalized as before and its turn is spent.
FailEvent(w) ==
    /\ worker[w].phase \in InTransaction
    /\ worker' = [worker EXCEPT ![w] = NextTurn(w)]
    /\ UNCHANGED <<event, finding, cases, purge>>

\* What makes an analysis fail every time: a classifier that raises, or a
\* finding another worker has inserted meanwhile.
MustFail(w) ==
    /\ \/ worker[w].phase = "read" /\ worker[w].event \in Poison
       \/ worker[w].phase = "insert" /\ finding[Key(w)].exists
    /\ FailEvent(w)

\* The process dies or the database fails outside analyze_event.
Abort(w) ==
    /\ worker[w].phase # "idle"
    /\ worker' = [worker EXCEPT ![w] = IdleWorker]
    /\ UNCHANGED <<event, finding, cases, purge>>

-----------------------------------------------------------------------------
Environment ==
    \/ \E e \in Events : Arrive(e)
    \/ \E t \in Tenants, n \in Events : PurgeReads(t, n)
    \/ PurgeWrites
    \/ \E f \in Tenants \X Keys : OpenCase(f)

Step(w) ==
    \/ StartRun(w)
    \/ \E e \in Events : AcquireNext(w, e)
    \/ SkipTenant(w)
    \/ EndPass(w)
    \/ Classify(w)
    \/ LookUpFinding(w)
    \/ InsertFinding(w)
    \/ LookUpCase(w)
    \/ Complete(w)
    \/ MustFail(w)

Next ==
    \/ Environment
    \/ \E w \in Workers : Step(w) \/ FailEvent(w) \/ Abort(w)

Spec == Init /\ [][Next]_vars

\* The main loop runs again after every cycle, and no fault strikes the same
\* step every time.
Fairness(w) ==
    /\ WF_vars(Step(w))
    /\ SF_vars(\E e \in Events : AcquireNext(w, e))
    /\ SF_vars(SkipTenant(w))
    /\ SF_vars(Classify(w))
    /\ SF_vars(LookUpFinding(w))
    /\ SF_vars(InsertFinding(w))
    /\ SF_vars(LookUpCase(w))
    /\ SF_vars(Complete(w))
    /\ SF_vars(MustFail(w))

FairSpec == Spec /\ \A w \in Workers : Fairness(w)

-----------------------------------------------------------------------------
(***************************************************************************)
(* Properties.                                                             *)
(***************************************************************************)
\* Two workers never analyse the same event at the same time.
OneHolder ==
    \A v, w \in Workers, e \in Events : Holds(v, e) /\ Holds(w, e) => v = w

\* Promotion is all or nothing: a finding has evidence, every event it names
\* is analysed and bound to it, and no event is bound to a finding that was
\* rolled back.
PromotedTogether ==
    /\ \A f \in Tenants \X Keys :
          /\ finding[f].exists <=> finding[f].ids # {}
          /\ \A e \in finding[f].ids : /\ event[e].state = "analyzed"
                                       /\ TenantOf[e] = f[1]
                                       /\ event[e].finding # NoKey
    /\ \A e \in Events :
          event[e].finding # NoKey =>
             finding[<<TenantOf[e], event[e].finding>>].exists

\* An event is filed in a case of its own finding.
CaseMatchesFinding ==
    \A e \in Events :
        event[e].case # 0 =>
            \E c \in CasesOf(<<TenantOf[e], event[e].finding>>) :
                c.id = event[e].case

\* With one worker a finding lists all of its evidence: no promotion loses
\* the event of another.
EvidenceListed ==
    \A e \in Events :
        event[e].finding # NoKey =>
            e \in finding[<<TenantOf[e], event[e].finding>>].ids

\* The case a finding points to counts its evidence: ids and count are read
\* and written apart by every promotion, and yet never disagree.
CaseCountCurrent ==
    \A f \in Tenants \X Keys : \A c \in CasesOf(f) :
        c.id = finding[f].case => c.count = Cardinality(finding[f].ids)

\* With one worker repeated evidence reuses the case: no finding is given a
\* second case automatically.
OneAutoCase ==
    \A c, d \in cases :
        c.of = d.of /\ c.by = "worker" /\ d.by = "worker" => c = d

\* What has been purged unread is never analysed any more.
PurgedStaysUnread ==
    [][\A e \in Events :
          event[e].purged /\ event[e].state = "normalized"
             => event'[e].state = "normalized"]_vars

\* Events wait that the classifier can read.
Backlog == {e \in Events \ Poison : Ready(e)}

\* The backlog is worked off again and again, whatever becomes of the events
\* before it.
QueueDrains == []<>(Backlog = {})
=============================================================================
