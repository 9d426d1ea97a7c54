-------------------------- MODULE CollectionIngest --------------------------
(***************************************************************************)
(* The inbound collection pipeline of one provider connection: the worker  *)
(* loop of app/collection/worker.py, the per-update transaction of         *)
(* app/collection/ingest.py and the lifecycle operations of                *)
(* app/collection/service.py that run against the same rows.               *)
(*                                                                         *)
(* A worker polls the provider with the connection's cursor, takes one     *)
(* snapshot of the active sources and then settles the updates of the      *)
(* batch in order.  Every settled update ends in one database commit that  *)
(* writes the update's row and the cursor together.  Between commits a     *)
(* worker decides on attributes its SQLAlchemy session has already loaded; *)
(* a commit or a rollback expires them.                                    *)
(***************************************************************************)
EXTENDS Integers, FiniteSets, Sequences

CONSTANTS
    Workers,       \* worker processes polling this connection
    Chats,         \* provider chats an update can come from
    Sources,       \* rows of collection_source under the connection
    SourceRef,     \* [Sources -> Chats]: the chat a source row monitors
    Requests,      \* rows of collection_source_test_request
    RequestSource, \* [Requests -> Sources]: the source a row is issued for
    NoRequest,     \* "this update carries no TF-VERIFY nonce"
    Kinds,         \* kinds of update that occur, a subset of UpdateKind
    ExternalIds,   \* [1..MaxUpdate -> SUBSET Nat]: ids the provider may give
    MaxUpdate,     \* bound: updates the provider ever publishes
    BatchSize      \* updates one poll returns at most

\* How the provider's normalize callback answers: a NormalizedUpdate, one of
\* the validation errors of ingest.py, or any other exception.
UpdateKind == {"valid", "invalid", "fatal"}

ASSUME ConstantsAssumption ==
    /\ SourceRef \in [Sources -> Chats]
    /\ RequestSource \in [Requests -> Sources]
    /\ NoRequest \notin Requests
    /\ Kinds \subseteq UpdateKind
    /\ MaxUpdate \in Nat
    /\ ExternalIds \in [1..MaxUpdate -> SUBSET Nat]
    /\ BatchSize \in Nat \ {0}

VARIABLES
    stream,    \* updates published by the provider; the index is update_id
    conn,      \* lifecycle of the connection row
    bound,     \* provider_account_ref is set
    cursor,    \* collection_connection.cursor, 0 for NULL
    source,    \* [Sources -> lifecycle of the source row]
    request,   \* [Requests -> TF-VERIFY handshake row]
    expiring,  \* requests a status view has read as overdue, not yet written
    events,    \* rows of collection_event
    worker,    \* [Workers -> local state of the worker and its session]
    skipped,   \* history: updates consumed without a row (_advance_ignored)
    late       \* history: rows written, since the last activation, while the
               \* connection or the source was not active

dbVars == <<conn, bound, cursor, source, request, events>>
vars == <<stream, conn, bound, cursor, source, request, expiring, events,
          worker, skipped, late>>

-----------------------------------------------------------------------------
(***************************************************************************)
(* Rows.  Of a connection (enabled, status, deleted_at) only four          *)
(* combinations are ever written, of a source five.                        *)
(***************************************************************************)
ConnStatus   == {"pending", "active", "revoked", "deleted"}
SourceStatus == {"absent", "pending", "active", "paused", "deleted"}
Unloaded     == "unloaded"

Update == [chat: Chats, kind: Kinds, ext: Nat,
           nonce: Requests \cup {NoRequest}]

Request == [status: {"none", "awaiting", "verified", "expired"},
            overdue: BOOLEAN]

EventState == {"normalized", "control", "rejected"}
Event == [source: Sources, update: Nat, key: Nat, state: EventState,
          nonce: Requests \cup {NoRequest},
          by: Workers]   \* who wrote the row, which tells two rows apart

Phase == {"idle", "polling", "dispatch", "matching", "writing", "reporting"}
WorkerState ==
    [phase: Phase, next: Nat, last: Nat, active: SUBSET Sources,
     connView: ConnStatus \cup {Unloaded},
     sourceView: [Sources -> SourceStatus \cup {Unloaded}],
     outcome: EventState \cup {"none"},
     request: Requests \cup {NoRequest}]

TypeOK ==
    /\ stream \in Seq(Update)
    /\ conn \in ConnStatus
    /\ bound \in BOOLEAN
    /\ cursor \in Nat
    /\ source \in [Sources -> SourceStatus]
    /\ request \in [Requests -> Request]
    /\ expiring \in SUBSET Requests
    /\ events \in SUBSET Event
    /\ worker \in [Workers -> WorkerState]
    /\ skipped \in SUBSET Nat
    /\ late \in [Workers -> [Sources -> Nat]]

NothingLoaded == [s \in Sources |-> Unloaded]

IdleWorker ==
    [phase |-> "idle", next |-> 0, last |-> 0, active |-> {},
     connView |-> Unloaded, sourceView |-> NothingLoaded,
     outcome |-> "none", request |-> NoRequest]

Live(s) == source[s] \notin {"absent", "deleted"}

\* An update may be recorded for s: connection and source are both active.
Accepting(s) == conn = "active" /\ source[s] = "active"

\* A worker's open transaction has flushed r as expired and holds its lock.
Locked(r) == \E w \in Workers : /\ worker[w].request = r
                                /\ worker[w].outcome # "control"

\* A row of s that the unique index uq_coll_event_external covers.
Existing(s, key) ==
    {e \in events : e.source = s /\ e.key = key /\ e.state # "rejected"}

Init ==
    /\ stream = <<>>
    /\ conn = "pending"
    /\ bound = FALSE
    /\ cursor = 0
    /\ source = [s \in Sources |-> "absent"]
    /\ request = [r \in Requests |-> [status |-> "none", overdue |-> FALSE]]
    /\ expiring = {}
    /\ events = {}
    /\ worker = [w \in Workers |-> IdleWorker]
    /\ skipped = {}
    /\ late = [w \in Workers |-> [s \in Sources |-> 0]]

-----------------------------------------------------------------------------
(***************************************************************************)
(* The provider (outside the repository): a stream of updates in           *)
(* update_id order.  A TF-VERIFY nonce can only be posted after the API    *)
(* has issued it.                                                          *)
(***************************************************************************)
Publish ==
    /\ Len(stream) < MaxUpdate
    /\ \E u \in [chat: Chats, kind: Kinds,
                 ext: ExternalIds[Len(stream) + 1],
                 nonce: {r \in Requests : request[r].status # "none"}
                            \cup {NoRequest}] :
          /\ u.nonce # NoRequest => u.kind = "valid"
          /\ stream' = Append(stream, u)
    /\ UNCHANGED <<dbVars, expiring, worker, skipped, late>>

-----------------------------------------------------------------------------
(***************************************************************************)
(* Lifecycle operations of service.py, one committed request each.         *)
(***************************************************************************)
\* An activation restarts the history of late rows of the sources it covers.
ForgetLate(S) ==
    late' = [w \in Workers |-> [s \in Sources |->
                                   IF s \in S THEN 0 ELSE late[w][s]]]

AdminUnchanged == UNCHANGED <<stream, cursor, expiring, events, worker, skipped>>

\* Mutant: binding an account starts its update stream again.
BindRestartsStream(enable) ==
    /\ conn # "deleted"
    /\ bound' = TRUE
    /\ conn' = IF enable THEN "active" ELSE conn
    /\ cursor' = 0
    /\ UNCHANGED <<stream, expiring, events, worker, skipped, source, request>>
    /\ ForgetLate(IF enable THEN Sources ELSE {})

BindIdentity(enable) ==
    /\ conn # "deleted"
    /\ bound' = TRUE
    /\ conn' = IF enable THEN "active" ELSE conn
    /\ AdminUnchanged
    /\ UNCHANGED <<source, request>>
    /\ ForgetLate(IF enable THEN Sources ELSE {})

SetConnectionEnabled(enabled) ==
    /\ conn # "deleted"
    /\ enabled => bound
    /\ conn' = IF enabled THEN "active" ELSE "pending"
    /\ AdminUnchanged
    /\ UNCHANGED <<bound, source, request>>
    /\ ForgetLate(IF enabled THEN Sources ELSE {})

RevokeConnection ==
    /\ conn # "deleted"
    /\ conn' = "revoked"
    /\ AdminUnchanged
    /\ UNCHANGED <<bound, source, request, late>>

SoftDeleteConnection ==
    /\ conn # "deleted"
    /\ conn' = "deleted"
    /\ AdminUnchanged
    /\ UNCHANGED <<bound, source, request, late>>

\* uq_coll_source_ref_live: one live row per chat.
CreateSource(s, enabled) ==
    /\ conn # "deleted"
    /\ source[s] = "absent"
    /\ \A t \in Sources : SourceRef[t] = SourceRef[s] => ~Live(t)
    /\ source' = [source EXCEPT ![s] = IF enabled THEN "active" ELSE "pending"]
    /\ AdminUnchanged
    /\ UNCHANGED <<conn, bound, request>>
    /\ ForgetLate(IF enabled THEN {s} ELSE {})

SetSourceEnabled(s, enabled) ==
    /\ Live(s)
    /\ source' = [source EXCEPT ![s] = IF enabled THEN "active" ELSE "paused"]
    /\ AdminUnchanged
    /\ UNCHANGED <<conn, bound, request>>
    /\ ForgetLate(IF enabled THEN {s} ELSE {})

SoftDeleteSource(s) ==
    /\ Live(s)
    /\ source' = [source EXCEPT ![s] = "deleted"]
    /\ AdminUnchanged
    /\ UNCHANGED <<conn, bound, request, late>>

RequestSourceTest(r) ==
    /\ conn # "deleted"
    /\ Live(RequestSource[r])
    /\ request[r].status = "none"
    /\ request' = [request EXCEPT ![r].status = "awaiting"]
    /\ AdminUnchanged
    /\ UNCHANGED <<conn, bound, source, late>>

\* The clock passes expires_at.
RequestFallsDue(r) ==
    /\ request[r].status # "none"
    /\ ~request[r].overdue
    /\ request' = [request EXCEPT ![r].overdue = TRUE]
    /\ AdminUnchanged
    /\ UNCHANGED <<conn, bound, source, late>>

(***************************************************************************)
(* GET /source-tests/{id}: the row is read first and, when it was read as  *)
(* overdue and still awaiting, written as expired by a later commit.       *)
(***************************************************************************)
StatusViewReads(r) ==
    /\ request[r].status = "awaiting"
    /\ request[r].overdue
    /\ expiring' = expiring \cup {r}
    /\ UNCHANGED <<stream, dbVars, worker, skipped, late>>

StatusViewWrites(r) ==
    /\ r \in expiring
    /\ ~Locked(r)
    /\ expiring' = expiring \ {r}
    /\ request' = [request EXCEPT ![r].status = "expired"]
    /\ UNCHANGED <<stream, conn, bound, cursor, source, events, worker,
                   skipped, late>>

-----------------------------------------------------------------------------
(***************************************************************************)
(* The worker.                                                             *)
(***************************************************************************)
Wants(w, s) == s \in worker[w].active
                 /\ SourceRef[s] = stream[worker[w].next].chat

InBatch(w) ==
    worker[w].phase = "dispatch" /\ worker[w].next <= worker[w].last

StartCycle(w) ==
    /\ worker[w].phase = "idle"
    /\ conn = "active"
    /\ worker' = [worker EXCEPT ![w] =
                    [IdleWorker EXCEPT !.phase = "polling",
                                       !.next = cursor + 1,
                                       !.last = cursor,
                                       !.connView = conn]]
    /\ UNCHANGED <<stream, dbVars, expiring, skipped, late>>

\* provider.poll answers and active_by_ref is built, once for the batch.
PollReturns(w) ==
    LET from == worker[w].last
        avail == Len(stream) - from
        active == {s \in Sources : source[s] = "active"}
    IN
    /\ worker[w].phase = "polling"
    /\ worker' = [worker EXCEPT
          ![w].phase = "dispatch",
          ![w].last = from + (IF avail <= BatchSize THEN avail ELSE BatchSize),
          ![w].active = active,
          ![w].sourceView = [s \in Sources |->
                                IF Live(s) THEN source[s] ELSE Unloaded]]
    /\ UNCHANGED <<stream, dbVars, expiring, skipped, late>>

\* Mutant: the ignored update leaves the cursor where it is.
IgnoreWithoutCursor(w) ==
    /\ InBatch(w)
    /\ \A s \in Sources : ~Wants(w, s)
    /\ conn # "deleted"
    /\ worker' = [worker EXCEPT ![w].next = @ + 1]
    /\ UNCHANGED <<stream, dbVars, expiring, skipped, late>>

\* Mutant: an ignored update commits the cursor of the whole batch.
IgnoreToBatchEnd(w) ==
    /\ InBatch(w)
    /\ \A s \in Sources : ~Wants(w, s)
    /\ conn # "deleted"
    /\ cursor' = worker[w].last
    /\ skipped' = skipped \cup {worker[w].next}
    /\ worker' = [worker EXCEPT ![w].next = @ + 1]
    /\ UNCHANGED <<stream, conn, bound, source, request, expiring, events, late>>

\* No active source wants the update: the cursor moves past it.
AdvanceIgnored(w) ==
    /\ InBatch(w)
    /\ \A s \in Sources : ~Wants(w, s)
    /\ conn # "deleted"
    /\ cursor' = worker[w].next
    /\ skipped' = skipped \cup {worker[w].next}
    /\ worker' = [worker EXCEPT ![w].next = @ + 1,
                                ![w].connView = Unloaded,
                                ![w].sourceView = NothingLoaded]
    /\ UNCHANGED <<stream, conn, bound, source, request, expiring, events, late>>

\* What the session holds for the connection and for s once the gate of
\* _resolve_active_pair has run: loaded attributes are not read again.
GateConn(w) ==
    IF worker[w].connView = Unloaded THEN conn ELSE worker[w].connView
GateSource(w, s) ==
    IF worker[w].sourceView[s] = Unloaded THEN source[s]
    ELSE worker[w].sourceView[s]
GatePasses(w, s) == GateConn(w) = "active" /\ GateSource(w, s) = "active"

Loaded(w, s) ==
    [worker[w] EXCEPT !.connView = GateConn(w),
                      !.sourceView[s] = GateSource(w, s)]

\* The gate passes and the update is already stored under its update_id.
ReplayShortCircuit(w, s) ==
    /\ InBatch(w)
    /\ Wants(w, s)
    /\ GatePasses(w, s)
    /\ Existing(s, worker[w].next) # {}
    /\ worker' = [worker EXCEPT ![w] =
                    [Loaded(w, s) EXCEPT !.next = @ + 1]]
    /\ UNCHANGED <<stream, dbVars, expiring, skipped, late>>

\* The gate passes and the update looks new.
Admit(w, s) ==
    /\ InBatch(w)
    /\ Wants(w, s)
    /\ GatePasses(w, s)
    /\ Existing(s, worker[w].next) = {}
    /\ worker' = [worker EXCEPT ![w] =
                    [Loaded(w, s) EXCEPT !.phase = "matching"]]
    /\ UNCHANGED <<stream, dbVars, expiring, skipped, late>>

\* Mutant: a refused update is skipped and the batch goes on.
RefuseAndContinue(w) ==
    /\ InBatch(w)
    /\ \E s \in Sources : Wants(w, s) /\ ~GatePasses(w, s)
    /\ worker' = [worker EXCEPT ![w].next = @ + 1]
    /\ UNCHANGED <<stream, dbVars, expiring, skipped, late>>

\* IngestNotAllowed, or NotFound for a deleted connection in
\* _advance_ignored: neither is caught below main(), the cycle ends.
Refuse(w) ==
    /\ InBatch(w)
    /\ \/ \E s \in Sources : Wants(w, s) /\ ~GatePasses(w, s)
       \/ /\ \A s \in Sources : ~Wants(w, s)
          /\ conn = "deleted"
    /\ worker' = [worker EXCEPT ![w] = IdleWorker]
    /\ UNCHANGED <<stream, dbVars, expiring, skipped, late>>

\* Mutant: a handshake matches whatever became of it.
MatchesAnyStatus(r, s) ==
    /\ r # NoRequest
    /\ request[r].status # "none"
    /\ RequestSource[r] = s

\* find_matching_test_request: still awaiting, for this source.
Matches(r, s) ==
    /\ r # NoRequest
    /\ request[r].status = "awaiting"
    /\ RequestSource[r] = s

\* The TF-VERIFY nonce matches a request in time: the update is control.
MatchControl(w, s) ==
    LET r == stream[worker[w].next].nonce IN
    /\ worker[w].phase = "matching"
    /\ Wants(w, s)
    /\ Matches(r, s)
    /\ ~request[r].overdue
    /\ worker' = [worker EXCEPT ![w].phase = "writing",
                                ![w].outcome = "control",
                                ![w].request = r]
    /\ UNCHANGED <<stream, dbVars, expiring, skipped, late>>

\* Mutant: the row's state is the kind of the update.
NormalizeKeepsKind(w, s) ==
    LET u == stream[worker[w].next] IN
    /\ worker[w].phase = "matching"
    /\ Wants(w, s)
    /\ u.kind # "fatal"
    /\ worker' = [worker EXCEPT ![w].phase = "writing",
                                ![w].outcome = u.kind,
                                ![w].request = NoRequest]
    /\ UNCHANGED <<stream, dbVars, expiring, skipped, late>>

\* Otherwise the normal flow; an overdue match is marked expired in the
\* same transaction.
Normalize(w, s) ==
    LET u == stream[worker[w].next]
        expires == Matches(u.nonce, s) /\ request[u.nonce].overdue
    IN
    /\ worker[w].phase = "matching"
    /\ Wants(w, s)
    /\ Matches(u.nonce, s) => request[u.nonce].overdue
    /\ u.kind # "fatal"
    /\ worker' = [worker EXCEPT
          ![w].phase = "writing",
          ![w].outcome = IF u.kind = "valid" THEN "normalized" ELSE "rejected",
          ![w].request = IF expires THEN u.nonce ELSE NoRequest]
    /\ UNCHANGED <<stream, dbVars, expiring, skipped, late>>

\* Mutant: a blanket except goes on with the next update.
CrashAndContinue(w) ==
    /\ worker[w].phase = "matching"
    /\ stream[worker[w].next].kind = "fatal"
    /\ worker' = [worker EXCEPT ![w].phase = "dispatch", ![w].next = @ + 1]
    /\ UNCHANGED <<stream, dbVars, expiring, skipped, late>>

\* The provider callback raises outside the validation taxonomy (C4).
NormalizerCrashes(w) ==
    /\ worker[w].phase = "matching"
    /\ stream[worker[w].next].kind = "fatal"
    /\ worker' = [worker EXCEPT ![w] = IdleWorker]
    /\ UNCHANGED <<stream, dbVars, expiring, skipped, late>>

\* external_id_hash of the row: control and rejected rows use update_id.
RowKey(w) ==
    IF worker[w].outcome = "normalized" THEN stream[worker[w].next].ext
    ELSE worker[w].next

NewRow(w, s) ==
    [source |-> s, update |-> worker[w].next, key |-> RowKey(w),
     state |-> worker[w].outcome,
     nonce |-> IF worker[w].outcome = "control" THEN worker[w].request
               ELSE NoRequest,
     by |-> w]

\* Mutant: the session keeps its attributes across commits.
KeepLoaded(w) == [worker[w] EXCEPT !.phase = "reporting",
                                   !.outcome = "none",
                                   !.request = NoRequest]

Expired(w) == [worker[w] EXCEPT !.phase = "reporting",
                                !.connView = Unloaded,
                                !.sourceView = NothingLoaded,
                                !.outcome = "none",
                                !.request = NoRequest]

\* Mutant: the row is committed, the cursor is left to a later commit.
CommitRowOnly(w, s) ==
    /\ worker[w].phase = "writing"
    /\ Wants(w, s)
    /\ worker[w].outcome # "rejected" => Existing(s, RowKey(w)) = {}
    /\ events' = events \cup {NewRow(w, s)}
    /\ worker' = [worker EXCEPT ![w] = Expired(w)]
    /\ UNCHANGED <<stream, conn, bound, cursor, source, request, expiring,
                   skipped, late>>

\* Mutant: no unique index on the rows of a source.
CommitWithoutIndex(w, s) ==
    /\ worker[w].phase = "writing"
    /\ Wants(w, s)
    /\ events' = events \cup {NewRow(w, s)}
    /\ cursor' = worker[w].next
    /\ worker' = [worker EXCEPT ![w] = Expired(w)]
    /\ late' = [late EXCEPT ![w][s] = IF Accepting(s) THEN @ ELSE @ + 1]
    /\ UNCHANGED <<stream, conn, bound, source, request, expiring, skipped>>

\* Row, cursor and handshake are committed together.
CommitRow(w, s) ==
    LET r == worker[w].request IN
    /\ worker[w].phase = "writing"
    /\ Wants(w, s)
    /\ worker[w].outcome # "rejected" => Existing(s, RowKey(w)) = {}
    /\ worker[w].outcome = "control" => ~Locked(r)
    /\ events' = events \cup {NewRow(w, s)}
    /\ cursor' = worker[w].next
    /\ request' = IF r = NoRequest THEN request
                  ELSE [request EXCEPT ![r].status =
                            IF worker[w].outcome = "control"
                            THEN "verified" ELSE "expired"]
    /\ worker' = [worker EXCEPT ![w] = Expired(w)]
    /\ late' = [late EXCEPT ![w][s] = IF Accepting(s) THEN @ ELSE @ + 1]
    /\ UNCHANGED <<stream, conn, bound, source, expiring, skipped>>

\* The unique index rejects a normalized row: rolled back, deduplicated.
LoseRace(w, s) ==
    /\ worker[w].phase = "writing"
    /\ Wants(w, s)
    /\ worker[w].outcome = "normalized"
    /\ Existing(s, RowKey(w)) # {}
    /\ worker' = [worker EXCEPT ![w] =
                    [Expired(w) EXCEPT !.sourceView[s] = source[s]]]
    /\ UNCHANGED <<stream, dbVars, expiring, skipped, late>>

\* The IngestResult is built from conn.cursor, which loads the row again.
Report(w) ==
    /\ worker[w].phase = "reporting"
    /\ worker' = [worker EXCEPT ![w].phase = "dispatch",
                                ![w].next = @ + 1,
                                ![w].connView = conn]
    /\ UNCHANGED <<stream, dbVars, expiring, skipped, late>>

FinishCycle(w) ==
    /\ worker[w].phase = "dispatch"
    /\ worker[w].next > worker[w].last
    /\ worker' = [worker EXCEPT ![w] = IdleWorker]
    /\ UNCHANGED <<stream, dbVars, expiring, skipped, late>>

\* A provider error, a database error (any write, or a control row that
\* loses the race for its key) or the death of the process: the open
\* transaction is rolled back and the batch is dropped.
Fail(w) ==
    /\ worker[w].phase # "idle"
    /\ worker' = [worker EXCEPT ![w] = IdleWorker]
    /\ UNCHANGED <<stream, dbVars, expiring, skipped, late>>

-----------------------------------------------------------------------------
Admin ==
    \/ \E b \in BOOLEAN : BindIdentity(b) \/ SetConnectionEnabled(b)
    \/ RevokeConnection
    \/ SoftDeleteConnection
    \/ \E s \in Sources, b \in BOOLEAN :
          CreateSource(s, b) \/ SetSourceEnabled(s, b)
    \/ \E s \in Sources : SoftDeleteSource(s)
    \/ \E r \in Requests : \/ RequestSourceTest(r)
                           \/ RequestFallsDue(r)
                           \/ StatusViewReads(r)
                           \/ StatusViewWrites(r)

Step(w) ==
    \/ StartCycle(w)
    \/ PollReturns(w)
    \/ AdvanceIgnored(w)
    \/ Refuse(w)
    \/ NormalizerCrashes(w)
    \/ Report(w)
    \/ FinishCycle(w)
    \/ \E s \in Sources :
          \/ ReplayShortCircuit(w, s)
          \/ Admit(w, s)
          \/ MatchControl(w, s)
          \/ Normalize(w, s)
          \/ CommitRow(w, s)
          \/ LoseRace(w, s)

Next ==
    \/ Publish
    \/ Admin
    \/ \E w \in Workers : Step(w) \/ Fail(w)

Spec == Init /\ [][Next]_vars

\* What a poll, a transaction and the main loop owe a worker: a step that
\* stays enabled is taken, and no fault strikes the same step every time.
Fairness(w) ==
    /\ WF_vars(Step(w))
    /\ SF_vars(PollReturns(w))
    /\ SF_vars(AdvanceIgnored(w))
    /\ SF_vars(\E s \in Sources : ReplayShortCircuit(w, s) \/ Admit(w, s))
    /\ SF_vars(\E s \in Sources : MatchControl(w, s) \/ Normalize(w, s))
    /\ SF_vars(\E s \in Sources : CommitRow(w, s) \/ LoseRace(w, s))
    /\ SF_vars(Report(w))

FairSpec == Spec /\ \A w \in Workers : Fairness(w)

-----------------------------------------------------------------------------
(***************************************************************************)
(* Properties.                                                             *)
(***************************************************************************)
Published == 1..Len(stream)

\* The update was consumed without a row, or a row answers it: a replay of
\* it is stored under its update_id or under its external id.
Settled(u) ==
    \/ u \in skipped
    \/ \E e \in events : /\ SourceRef[e.source] = stream[u].chat
                         /\ e.key \in {u, stream[u].ext}

\* The cursor, which the next poll starts from, never passes an update that
\* was neither recorded nor deliberately ignored: nothing is lost, whatever
\* fails between two commits and however many workers share the cursor.
CursorCovered == cursor <= Len(stream) /\ \A u \in 1..cursor : Settled(u)

\* A worker's place x in its batch: everything before it is settled.
Covered(x) ==
    x.phase # "idle" =>
        /\ x.next \in 1..(x.last + 1)
        /\ x.last <= Len(stream)
        /\ x.phase \in {"matching", "writing", "reporting"} =>
              x.next <= x.last
        /\ x.phase = "writing" => x.outcome # "none"
        /\ \A u \in 1..(x.next - 1) : Settled(u)
        /\ x.phase = "reporting" => Settled(x.next)

\* No worker stands behind an unsettled update, so the cursor it will write
\* never jumps over one, however stale its batch has become.
BatchCovered == \A w \in Workers : Covered(worker[w])

\* Row and cursor commit together: with one worker no recorded row is ahead
\* of the cursor, so a restart never records it again.
RowsBehindCursor == \A e \in events : e.update <= cursor

\* An update is recorded at most once for a source, whether as control or as
\* normalized evidence (C4, C5).
OneRowPerUpdate ==
    \A e, f \in events :
        /\ e.source = f.source
        /\ e.update = f.update
        /\ e.state # "rejected"
        /\ f.state # "rejected"
        => e = f

ControlRows(r) == {e \in events : e.state = "control" /\ e.nonce = r}

\* A TF-VERIFY handshake is confirmed by exactly one message: no second
\* control row, no confirmation without its row.
VerifiedByOneMessage ==
    \A r \in Requests :
        /\ Cardinality(ControlRows(r)) <= 1
        /\ request[r].status = "verified" => ControlRows(r) # {}

\* Deactivating the connection or a source takes effect within one update
\* per worker: what a session had loaded is good for one commit only.
DeactivationTakesEffect ==
    \A w \in Workers, s \in Sources : late[w][s] <= 1

\* With one worker the cursor never moves back, whatever fails.
CursorMonotone == [][cursor' >= cursor]_vars

\* While the connection stays active, a published update is eventually
\* settled: a fault, a paused source or a replay does not park the stream.
Progress ==
    <>[](conn = "active") =>
        \A u \in 1..MaxUpdate :
            u \in Published ~> u \in Published /\ Settled(u)

\* The pipeline implements the promise of UpdateIntake.
Intake == INSTANCE UpdateIntake
            WITH published <- Len(stream),
                 settled   <- {u \in Published : Settled(u)},
                 mark      <- cursor

IntakeSpec == Intake!Spec
=============================================================================
