# TLA+ models of ThreatForge

ThreatForge (`src/app`) is a multi-tenant threat-intelligence server: a FastAPI
application on PostgreSQL (SQLite in development), one or more collection
workers that poll providers such as Telegram, and operators and analysts who
work through HTTP handlers. All shared state is in the database; processes
interact only through committed rows, row locks and unique indexes. This
directory holds TLA+ models of the parts where the order of those commits
matters, TLC runs on small instances, and TLAPS proofs for every instance.

## 1. Inventory

| component | state | operations | interacts with |
|---|---|---|---|
| Collection pipeline (`collection/worker.py`, `ingest.py`, `verify.py`) | the connection's cursor, `collection_event` rows, the session's identity map | `run_all_once`, `run_connection_once`, `ingest_update`, `_advance_ignored`, `_record_rejection` | provider callbacks; lifecycle rows, read while others write them |
| Collection lifecycle API (`collection/service.py`, `routers/collection_routes.py`) | connections, sources, TF-VERIFY requests, alert channels | create, bind, enable, disable, revoke, soft-delete; issue and view a verification | the pipeline, through rows |
| Worker telemetry (`worker.py`, `healthcheck.py`, `runtime.py`) | `config_json.health`, heartbeat | `set_connection_health`, heartbeat, `is_healthy` | API writes of `config_json` |
| Event analysis (`analysis.py`, `intelligence_analysis.py`) | event state, verdict, finding and case of an event; findings; automatic cases | `acquire_next`, `analyze_event`, `_promote`, `_link_context_events`, `complete` | the pipeline stores its input; purge, analysts and other workers commit in between |
| Event retention (`retention.py`) | `purged_at`, content columns | `purge_expired_events` | the analysis, which reads and rewrites the same rows |
| Alert outbox (`outbox.py`, `service.py`) | outbox rows, attempts, back-off | enqueue, acquire, mark sent or failed | channels being enabled and disabled |
| Sessions of requests (`database.py`) | the open transaction of a request | begin, flush, commit, rollback | every handler below runs in one |
| Accounts (`auth.py`, `security.py`, `routers/auth_routes.py`, `invites.py`, `org_routes.py`, `tenants_routes.py`, `bootstrap.py`) | users, invites, tenants, operators and their grants, API keys | bootstrap, create, update, delete, reset, invite, resend, accept, revoke, suspend, grant | every handler reads the principal |
| Exposures (`exposure_ingest.py`, `routers/exposure_routes.py`, `risk.py`) | monitored assets, findings, batches, sightings | intake, import, rollback, triage, open a case | analysis promotes into the same findings |
| Credential intelligence (`credential_intel.py`, `routers/credentials_routes.py`) | one dossier per leaked e-mail | update with every leak, triage, VIP alert | called inside the intake's transaction |
| Attack surface (`surface_discovery.py`, `routers/surface_routes.py`) | surface assets, their link to a finding | import, discover, triage, promote | promotes into the findings |
| Brand monitoring (`brand/*`, `routers/brands.py`, `alerts.py`) | brands, their findings, alerted flags | create, update, archive, delete, scan, dispatch alerts | cases are opened on its findings |
| Cases and evidence (`routers/cases_routes.py`, `case_intelligence.py`, `evidence_store.py`) | cases, notes, evidence rows and files | create, open from a finding, update, add evidence | the audit commits the handler's session |
| Observables and feeds (`routers/observables.py`, `routers/intel.py`, `connectors/*`, `scoring.py`) | observables, enrichments, the KEV catalog | create, enrich, synchronise | public feeds, which fail |
| Integrations (`routers/integrations_routes.py`, `integrations/*`) | one connection per integration, markers of its secrets | save, test, sync | |
| Correlation, timeline, dashboard, reports, exports, mail, licence, front end | none that steps interleave on | views and output | read the rows of the others |

`PROJECT.json` lists each of them with its status, and under `hazards` each
place where the code is hard to test, with the properties that cover it.

What is hard here:

* **Commits of several processes interleave under READ COMMITTED.** A worker
  reads, calls a provider or a classifier, then writes what it computed. No
  handler re-reads under a lock except `acquire_next`.
* **The SQLAlchemy session caches.** Attributes loaded once are not read again
  until a commit or a rollback expires them; assignments equal to the loaded
  value are not written.
* **Failures between steps.** Only some exceptions are caught where they arise;
  all others end the worker's cycle, and the main loop starts again from what
  is committed.
* **Long sequences of legal calls.** Connections are bound, disabled, revoked,
  bound again and deleted, sources deleted and recreated for the same chat,
  messages edited and replayed, cases opened twice, batches rolled back after
  others were deduplicated into them.
* **Requests race as the workers do.** The handlers are synchronous, so FastAPI
  runs them on a thread pool; each reads, decides and commits what it changed,
  and only unique indexes and foreign keys look at the database again.

## 2. What is modelled

### CollectionIngest and UpdateIntake

`CollectionIngest` is one provider connection: its administrators, its provider
and any number of workers.

| state | code |
|---|---|
| `stream` | the provider's updates; the index is `update_id` |
| `conn`, `bound`, `cursor` | a `collection_connection` row: the four combinations of (enabled, status, deleted_at) that are ever written, `provider_account_ref`, `cursor` (0 for NULL) |
| `source`, `request` | `collection_source` and `collection_source_test_request` rows |
| `expiring` | requests a status view has read as overdue and not yet written |
| `events` | `collection_event` rows; `key` is `external_id_hash`, `by` only tells two rows apart |
| `worker[w]` | locals of `run_connection_once` and `ingest_update`, and what the session has loaded of connection and sources (`connView`, `sourceView`) |
| `skipped`, `late` | history variables: updates consumed without a row, and rows written while not accepting |

Every action is one stretch of code between two points where another process
can commit. `CommitRow` is the one commit that writes row, cursor and
handshake; `Fail` is a provider error, a database error or the death of the
process at any point; `Admin` collects the handlers of the API. `UpdateIntake`
is the abstract promise of the pipeline: updates are settled one by one, stay
settled, and the mark the provider is asked to continue from is only ever moved
onto an update that is settled together with all before it.

Abstractions. `bind_bot_identity` is one step (the route holds the row while it
asks the provider; a stale load there can only make the binding a no-op).
Writing the cursor value already loaded counts as a write. Two rejected rows of
one update by one worker are one element of `events` (the unique index does not
cover rejected rows, so the table may hold both). A TF-VERIFY update is taken to
be a valid one. The provider replays from any cursor and loses nothing; that is
external. Health telemetry at the end of a cycle is left out.

### IntelligenceAnalysis

`IntelligenceAnalysis` is the queue of events of all tenants, the workers that
analyse them, the retention job and the analysts who open cases.

| state | code |
|---|---|
| `event[e]` | a `collection_event` row: state, what `analysis_json` holds (`verdict`), `finding_id`, `case_id`, `purged_at` |
| `finding[<<t, k>>]` | the `exposure_finding` row of tenant and dedup key: `detail.event_ids`, `detail.case_id` |
| `cases` | `investigation_cases` rows whose snapshot names a finding, with `intelligence.event_count` |
| `worker[w]` | locals of `run_analysis_once` (tenants, turn, budget) and of `analyze_event` (event held, verdict, context rows as read, event ids as read, case found or inserted) |
| `purge` | the rows `purge_expired_events` has read, and which of them had an analysis |

`analyze_event` is one transaction; the model splits it at every SELECT
(`AcquireNext`, `Classify` with the context, `LookUpFinding`, `LookUpCase`),
at the INSERT that may wait for another transaction's unique key
(`InsertFinding`), and at the commit (`Complete`), which writes event, linked
context, finding and case. `FailEvent` is its `except Exception`; `MustFail`
is the part of it that is certain: a classifier that raises on the event
(`Poison`) or an insert that has lost its race. `Abort` is the death of the
process. The state `analyzing` is only written inside the transaction that also
leaves it, so no committed row carries it; the model shows it as `Holds(w, e)`.

Abstractions. A classifier and correlator (an extension outside this
repository) may return any of `Verdicts` for any event. `detail.event_ids` is a
set, without the cap of 50. The finding's status, risk and text columns and the
audit rows are written and never read by these steps, and are left out.
Case ids are drawn above every id in use, which is how a sequence orders them.
`analysis.acquire` by id is SQLite's path for one worker; `analysis.fail`, its
back-off and the lock expiry have no caller in the program. A missing extension
of the registry is part of `FailEvent`. A source cannot vanish under its events (foreign key
RESTRICT). Legal hold is set outside the program. Nothing in the repository
schedules the purge, so it may start at any time, for any age.

A handshake has a race the runs only pass by: the status view writes `expired`
on the row it read earlier, so a confirmation committed in between is
overwritten while its control row stays. With two workers and a provider whose
external id is not the update id, one TF-VERIFY message may become a control
row and evidence. And an analysis that commits between the read and the write of
the purge survives in the purged row, since assigning `{}` to an attribute
loaded as `{}` writes nothing. All three are behaviours of the models.

### UnitOfWork

What the models of the HTTP handlers share: one SQLAlchemy session per request,
`autoflush=False`, on a thread pool.

| state | code |
|---|---|
| `db` | the tables, each a function from a key to a row or `NoRow` |
| `slot[r]` | a request in progress: its operation, the writes of its transaction, where it goes on after the commit (`then`), and `overtaken`, a history bit: another transaction committed since its reads |
| `served` | requests begun; it also numbers the rows they insert |

An action of a handler is the code from the beginning of a transaction up to its
commit: it reads, decides and leaves its writes in the slot (`Begin`). `Commit`
is the flush: an insert checks the unique key, an update writes the columns that
differ from what was read and fails if the row is gone, a delete of a row that
is gone is silent, foreign keys restrict, cascade or are set to NULL.
`CommitRaises` is the flush the database refuses, `Crash` the death of the
process. A request that is refused changes nothing and is no step. All the reads of one
transaction are one step, which leaves out another commit between two of its
SELECTs, but not one between the reads and the flush.

Many properties say *"... unless raced"*: a state that was good stays good
unless the flush that breaks it was `overtaken`. They state exactly what these
handlers guarantee, since they lock nothing, and fail for any bug that breaks
the state without a race.

### Accounts

`users`, `tenants`, `invites`, `keys`, `access` and, of the audit log, the entry
of a tenant's creation. It carries its own `Begin` and `Commit`, as the rows are
known by an e-mail, a slug or a number while a session knows them by their id,
and an account may be deleted and created again. Callers are users, API keys and
the platform key; `Authenticated`, `Admin`, `ActsIn`, `PlatformAdmin` and
`SupportOf` are `auth.py` and the dependencies of the routers. `Answer500` ends
an acceptance that fails in Python. Left out: cookies and hashes (a cookie is
valid for one `version`), the rehash at login, mails.

### Exposures

`assets`, `findings`, `batches`, `identities` and `surface` of one tenant, and
the VIP alerts `sent`. An import takes its file line by line over a *session*
(`Imported`, `persist_record`, `update_identity`), since later lines see what a
flush of an earlier one has written but not what is only pending; the session's
rows are the writes of the transaction. `compute` is the risk score with the default
Admiralty codes and findings no older than a week; a VIP lookup takes the asset
with the lowest id. A new person named twice in one file makes its import fail:
both rows reach the unique index in one flush.

### Investigations

`brands`, `findings`, `cases`, `evidence`, and outside the database the `files`
on disk and the `mails` sent. `score_finding` is the score of a domain; what the
network says of it is an input (`Observations`). PATCH of a case is two
transactions, because the audit call of the first part commits the session.
`FlushFails`, `DiskFails`, `TooLarge`, `RefreshFails` and `DispatchFails` are
the failures; the file of a piece of evidence is written before its row and
removed when anything after it fails. A finding that becomes dangerous only in a
later scan is never alerted, and neither is one whose scan committed before a
crash: `dispatch_new_findings` is given only what its own scan inserted.

### ThreatIntel and Integrations

`observables` with score, verdict and factors as three columns, `enrichments`
per request and source, the KEV catalog and its last synchronisation. An
enrichment asks each connector that supports the type; every one may fail, and
`Assessed` decides what is stored. `compute_score` is modelled with its points,
as a sum over every factor there is (`Points`), capped at 100.
`Integrations` holds the connections: a list of secret markers in the order and
spelling they were sent, because `_missing_required` looks at the first marker
whose name matches without case and `_is_ready` at the last. A save merges what
it was sent into the markers it has read (`MergedMarkers`) and, like every
handler, writes the column only if it then differs.

## 3. Runs

`tlc -config <run>.cfg <module>`.

| run (module) | instance | checks |
|---|---|---|
| `ingest_one_worker` (`MCCollectionIngest`) | 1 worker, 1 chat whose source is deleted and recreated, 1 handshake, 2 updates, batches of 2 | `TypeOK`, `RowsBehindCursor`, `VerifiedByOneMessage`, `CursorMonotone`, `Progress` (liveness) |
| `ingest_two_workers` (`MCCollectionIngest`) | 2 workers, 2 chats of which one is monitored, all kinds of update | `CursorCovered`, `BatchCovered`, `OneRowPerUpdate`, `DeactivationTakesEffect`, refinement `IntakeSpec` |
| `analysis_one_worker` (`MCIntelligenceAnalysis`) | 1 worker, 2 tenants, 3 events (1 under legal hold), 2 keys, batches of 2, 1 analyst's case | `TypeOK`, `EvidenceListed`, `OneAutoCase`, `QueueDrains` (liveness) |
| `analysis_two_workers` (`MCIntelligenceAnalysis`) | 2 workers, 1 tenant, 3 events, 2 keys, 1 analyst's case | `OneHolder`, `PromotedTogether`, `CaseMatchesFinding`, `CaseCountCurrent`, `PurgedStaysUnread` |
| `accounts` (`MCAccounts`) | 2 requests at once, 3 in all, 3 addresses, 1 tenant; an empty platform and one with an operator and two administrators | `TypeOK`, `KindMatchesTenant`, `AdminLostOnlyInARace`, `SettledInviteStays`, `TenantCreatedWhole` |
| `exposures` (`MCExposures`) | 2 at once; 4 in all on an empty tenant, 3 on one with a critical asset and a finding; 3 records, files of up to 3 lines, 1 surface asset | `TypeOK`, `BatchAccounts`, `VipHitAlerted`, `SightingsFallOnlyInARace`, `LeaksCountedUnlessRaced`, `PromotionLinksBothWays` |
| `investigations` (`MCInvestigations`) | 2 at once, 3 in all; 2 domains; an empty tenant, and one with a brand, a finding and an open or a closed case | `TypeOK`, `CustodyKept`, `SecondCaseOnlyByReopen`, `ClosedAtTornOnlyInARace`, `EvidenceStored`, `FindingsDroppedOnRequest` |
| `threat_intel` (`MCThreatIntel`) | 2 at once, 4 in all; a CVE and a URL, a feed that is empty or lists the CVE, 1 connector with a required secret, 3 spellings; a connection that is not there or has a blank under two of them (2 requests) | `TypeOK`, `ScoreExplainedUnlessRaced`, `SilenceKeepsSignal`, `ReadyLostOnlyByRespelling` |

What the passing runs show:

* Nothing is lost: the cursor never passes an unsettled update, whatever fails
  and although two workers write one cursor from batches of different age. The
  cursor may move *back* with two workers (`CursorMonotone` is checked with one
  only), but never over an update nobody settled.
* A deactivation takes effect within one update per worker.
* A promotion is all or nothing, and events, findings and cases keep pointing
  at one another whatever purge, analysts and other workers commit in between.
* The count a case shows is the count of its finding, also with two workers:
  each commit writes both.
* With one worker a finding lists all its evidence and only one case is opened
  for it automatically. With two workers neither holds (the lookups are not
  locked, and the last writer of `detail` wins), so `EvidenceListed` and
  `OneAutoCase` are stated for one worker, which is how
  `docker-compose.enterprise.yml` deploys it; nothing forbids a second.
* A tenant loses its last administrator only to a caller from outside, to an
  invitation that lowers his role, or to two requests that overlap; operators
  and members are never mixed up; an invitation is used once.
* The counts of an import account for the findings of its batch, whatever is
  deduplicated into it or rolled back; every VIP hit in the database was
  alerted; sightings and leak counts fall behind only in a race.
* A case never names a finding that was discovered again after its own was
  deleted; a finding has a second active case only after a reopening or a race;
  `closed_at` and the status part only in a race; evidence without a file, or a
  file without evidence, needs a crash, a failing disk or a failing read behind
  the commit.
* The score of an observable is the sum of its factors unless two enrichments
  overlap, and failing sources drop no factor.
* A saved connection stays ready but for two cases, although
  `integrations_routes.py:337` calls readiness guaranteed after a save: a later
  save that leaves the secret blank under another spelling is accepted and
  leaves it "not configured", and so may a save that *sends* the secret while
  another one commits, since it writes back all the markers it read. The second
  case takes three spellings and five saves, of which the second initial state
  of the run has made three.

Runs that end in a counterexample, each against something the repository says:

| run | property | what happens |
|---|---|---|
| `ingest_edit_replay` | `Progress` | an update that repeats a recorded external id is deduplicated by a rollback that drops its own cursor advance; at the end of a batch it is polled for ever |
| `analysis_poison_event` | `QueueDrains` | a failed analysis is rolled back with its attempts unchanged and is the head of the queue for ever |
| `accounts_invite_new_address` | `AcceptanceSucceeds` | an invitation to an address without an account fails every time: `pwd_version` of the new object is `None` when it is incremented |
| `intel_absent_check` | `AbsentCheckStaysUnknown` | a URL checked without a URLhaus key is stored as `no_known_threat` |

### Bounds

Two updates and two workers are enough for a batch to become stale under
another worker's progress; three updates with edits are needed for the replay.
Three events give a finding an earlier, a repeated and a linked piece of
evidence, and two keys of one target give the linking its choice; two tenants
and a batch of two let the budget end inside a pass. `MaxUpdate`, `MaxEvent`,
`MaxOpened`, `MaxCase` and `MaxRequests` bound what the environment does and
never what the code does: `MaxCase` is above the number of cases that can be
opened.

Two requests at once show every race of two transactions; the properties never
relate three. What a long history would build up is given by a second initial
state instead, which the comments of the MC modules derive from requests. Three
requests on it let a third one meet what two racing ones left.

Symmetry is used only in runs without liveness. Deadlock is not checked: after
the last update, event or request, or once the connection is deleted, the
system stops.

### Fairness

`main` retries its loop for ever (`worker.py`, 386-403), so a worker's next step
is weakly fair. The single steps are strongly fair: a provider or database fault
may strike any step, any number of times, but not the same step every time.
Nothing is assumed of providers, administrators, analysts or the purge. The
models of the handlers have no liveness property: a request ends or fails, and
nothing repeats it.

## 4. Proofs

`tlapm <module>.tla` for each of the eight modules below. The theorems hold for
every number of workers, requests, rows and updates. They assume
`ConstantsAssumption` of the module they are about (types of the constants; that
`NoRow` and the other markers are none of the rows; for the analysis, that
context is earlier and of the same tenant, and that the key of a promoted
verdict is not `NoKey`), for the integrations also `FiniteSpellings` and
`NullConnection`, for the observables `NullAssumption`, and for the exposures
`NullAssumption` and `InputsAssumption` (a record is a credential or an identity
of a known e-mail, a file a finite sequence of records and unreadable lines).
TLC evaluates all of them in every run. `UnitOfWorkProofs` has no theorem of its
own: it states once what a flush makes of one row (`Updated`, `UpdatedRow`, and
what the tables are after `Flushed`), which the modules about the handlers cite.

| theorem | statement |
|---|---|
| `CollectionIngestProofs!Typed` | `Spec => []TypeOK` |
| `CollectionIngestProofs!CursorSafe` | `Spec => []CursorCovered` |
| `CollectionIngestProofs!BatchSafe` | `Spec => []BatchCovered` |
| `CollectionIngestProofs!ImplementsIntake` | `Spec => IntakeSpec` |
| `CollectionRowsProofs!CursorForward` | one worker: `Spec => CursorMonotone` |
| `CollectionRowsProofs!RowsBehind` | one worker: `Spec => []RowsBehindCursor` |
| `CollectionRowsProofs!OneConfirmation` | one worker: `Spec => []VerifiedByOneMessage` |
| `CollectionRowsProofs!OneRow` | one worker: `Spec => []OneRowPerUpdate` |
| `CollectionRowsProofs!OneRowShared` | `KeysAgree`: `Spec => []OneRowPerUpdate` |
| `CollectionRowsProofs!Deactivates` | `Spec => []DeactivationTakesEffect` |
| `IntelligenceAnalysisProofs!Typed` | `Spec => []TypeOK` |
| `IntelligenceAnalysisProofs!Exclusive` | `Spec => []OneHolder` |
| `IntelligenceAnalysisProofs!PromotionSafe` | `Spec => []PromotedTogether` |
| `IntelligenceAnalysisProofs!FiledRight` | `Spec => []CaseMatchesFinding` |
| `IntelligenceAnalysisProofs!CountSafe` | `Spec => []CaseCountCurrent` |
| `IntelligenceAnalysisProofs!PurgedUnread` | `Spec => PurgedStaysUnread` |
| `IntelligenceAnalysisProofs!EvidenceKept` | one worker: `Spec => []EvidenceListed` |
| `IntelligenceAnalysisProofs!CaseReused` | one worker: `Spec => []OneAutoCase` |
| `AccountsProofs!TypeCorrect` | `Spec => []TypeOK` |
| `AccountsProofs!KindMatches` | `Spec => []KindMatchesTenant` |
| `AccountsProofs!TenantWhole` | `Spec => TenantCreatedWhole` |
| `AccountsProofs!AdminKept` | `Spec => AdminLostOnlyInARace` |
| `AccountsProofs!InviteStays` | `Spec => SettledInviteStays` |
| `InvestigationsProofs!TypeCorrect` | `Spec => []TypeOK` |
| `InvestigationsProofs!ChainOfCustody` | `Spec => []CustodyKept` |
| `InvestigationsProofs!DroppedOnRequest` | `Spec => FindingsDroppedOnRequest` |
| `InvestigationsProofs!TornOnlyInARace` | `Spec => ClosedAtTornOnlyInARace` |
| `InvestigationsProofs!SecondOnlyByReopen` | `Spec => SecondCaseOnlyByReopen` |
| `InvestigationsProofs!EvidenceOnDisk` | `Spec => EvidenceStored` |
| `ThreatIntelProofs!TypeCorrect` | `Spec => []TypeOK` |
| `ThreatIntelProofs!ScoreExplained` | `Spec => ScoreExplainedUnlessRaced` |
| `ThreatIntelProofs!SilenceKept` | `Spec => SilenceKeepsSignal` |
| `ThreatIntelProofs!ReadyKept` | `Spec => ReadyLostOnlyByRespelling` |
| `ExposuresProofs!TypeCorrect` | `Spec => []TypeOK` |
| `ExposuresProofs!AlertBeforeLink` | `Spec => []VipHitAlerted` |
| `ExposuresProofs!BatchesAccounted` | `Spec => []BatchAccounts` |
| `ExposuresProofs!SightingsKept` | `Spec => SightingsFallOnlyInARace` |
| `ExposuresProofs!LeaksCounted` | `Spec => LeaksCountedUnlessRaced` |
| `ExposuresProofs!LinksBothWays` | `Spec => PromotionLinksBothWays` |

*Ingestion.* `CursorCovered` alone is not inductive: a worker writes the cursor
from its place in a batch that may be arbitrarily old. The strengthening is
`BatchCovered`: every worker, whatever the others did since its poll, stands
behind settled updates only. It is inductive because settled updates stay
settled (`SettledStays`: rows are never deleted and the stream never changes)
and a poll starts from a covered cursor. The refinement uses the same
invariant: a step that commits settles updates and moves the mark, every other
step of the pipeline is a stutter.

*The rows of the ingestion.* With one worker (`OneWorker`, which is how
`docker-compose.enterprise.yml` deploys it) the invariant `OneInv` says where
the worker stands: right before the update the cursor will move to (`Place`).
Every commit therefore moves the cursor forward and records an update that has
no row yet (`UpdatesOnce`), and a handshake that can still be confirmed has no
control row (`Handshakes`, `Confirming`). With more workers a worker may commit
from a batch polled long ago: the cursor may go back, behind rows that are there.

`OneRowPerUpdate` holds for any number of workers under `KeysAgree`: no
handshake is ever matched, or the provider's external id of an update is the
update id. The control row of a TF-VERIFY message is keyed by the update id and
its evidence row by the external id, so without it the unique index sees two
keys. `SharedInv` carries that index (`KeyUnique`) and what the key of a row is
(`RowKeys`). `DeactivationTakesEffect` needs no hypothesis. Its invariant
`LateInv` says why a worker that has written a late row writes no second one:
the connection or source is off, and the session, whose attributes that commit
expired, has not loaded it as active (`LateOK`); an update reaches only the
source of its chat (`ActiveUnique`, from the unique index on live sources).

*Analysis.* A worker writes back what it read several steps ago. The inductive
invariant `IInv` adds `Local(worker[w])`: the event it holds is still ready, the
ids it read are still evidence of its tenant, the context it read as analysed
is still analysed, and the case it found still belongs to its finding. It is
inductive because the database only moves one way (`DatabaseGrows`: analysed
events stay analysed and bound, cases keep id and finding; `LocalStays`), and
because `OneHolder` and the row locks keep everybody else off the event held.
`CountSafe` needs a layer above it, `CountInv`: a case id stands for one row or
for the row of one open transaction (`CaseIds`), so a commit cannot touch the
case of another finding.

*Evidence, one worker.* `EvidenceListed` and `OneAutoCase` are false with two
workers, since the last writer of `detail` wins and the case lookup locks
nothing. With one, `Pending` is inductive: what the worker read of its finding
is what the finding still holds, and when it opens a case only analysts have
opened others.

*Accounts.* A handler flushes columns, not rows, some commits after it decided.
`IInv` says of every pending write which columns it may name (`WriteOK`; none
makes an existing account an operator or takes its tenant away) and of an update
that it writes both `is_operator` and `tenant_id` or neither while the account is
still an operator (`Still`). That suffices because for an account of a given id
`is_operator` only ever goes from true to false: the columns found different
then are different at the flush. `Whole` ties the insert of a tenant to its
audit entry and its admin. `AdminKept` adds `FInv`: until another commit
overtakes a request, its write leaves every tenant another active admin, unless
it is one of the two exceptions the property names (`Harmless`, `Excused`).
`InviteStays` adds `SInv`. Until another commit overtakes a request, the
invitations it is about to settle are still pending (`Unsettled`). And the key
the database gives a new invitation is free (`FreshIsFree`): the rows there are
and the requests in flight that may each add one are at most the requests
served (`Room`), so a least free key exists (`Least`, from the well-founded order
of the naturals).

*Investigations.* `CustodyKept` is not inductive, for an insert was decided on a
finding that may be gone at the flush. `IInv` says of a pending insert that the
flush checks the finding by its id again (`needs`), and of pending evidence that
its case names the same finding or none, which no other transaction can change
to a different finding. `Attached` keeps the foreign keys closed, so that a
cascade reaches everything. `JInv` adds who may have asked for a write (`Asked`)
and what holds of its rows until it is overtaken (`Timely`); the three action
properties about races follow from it. `EInv` says that file and evidence row of
a request carry the number of that request and no number is used twice, from
which `EvidenceStored` follows step by step through the failures.

*Observables and integrations.* None of the properties is inductive, for the
same reason. `IInv` has, per pending write, the columns it may name, the request
that may carry it (`AskedFor`) and, until it is overtaken, what it makes of the
row that is there (`Timely`): an explained score stays explained, known factors
go only for an answer, a ready connection stays ready or the secret is a blank
under a new spelling. `EnrichedFirst` (a row without the mark of an enrichment
has no factors) is what lets an enrichment without answers reset only rows that
have nothing to lose. `OneMarkerEach` bounds the markers by the number of
spellings, which `TypeOK` alone cannot carry through a save.

Proving it changed the model twice. `ReadyLostOnlyByRespelling` used to allow
a blank under a new spelling only; the step of an overtaken save could not be
proved, and three spellings and five saves gave the counterexample, so that the
property names this case and the run `threat_intel` reaches it. And the
sum of the points was a fold, about which nothing can be proved here; it is now
written out over the factors.

*Exposures.* Three invariants, one on the other. `IInv` types the rows and the
pending writes, and says of every pending link to a monitored asset that its
alert has been sent: `AlertBeforeLink`. `JInv` is about a batch, which no row
counts: what a request adds carries the request's number (`Past` keeps it from
being used again), a batch is opened with as many findings as come with it
(`OpenedOK`), and a pending rollback names every finding of its batch
(`RolledOK`), also when others were added or taken since. `KInv` adds, until a
commit overtakes it, what the writes of a request make of the rows there are
(`Judged`): no sighting is lost, linked pairs stay linked, dossiers go on
counting. It needs that the findings are finitely many, and that those of the
attack surface are of no batch, so that no rollback takes one. What an import
does is shown for a file of any length: if a line broke the session's invariant
(`SessionOK`, `Counted`, `LeaksOK`) there would be a first one (`Least`, from the
well-founded order of the naturals), and no line is it (`LinesCounted`,
`ImportedLeaks`). That `Imported` has a value at all is the lemma `LinesExist`,
shown in the same way. A key added twice in one file leaves the counts wrong
and its flush refused, which is the first alternative in `OpenedOK`.

Only model-checked:

* `Progress` and `QueueDrains`: liveness under fairness, which needs ENABLED;
* the four properties that the counterexample runs refute.

## 5. Not modelled, and the plan

Modelled, all with runs and proofs: the collection pipeline, the analysis,
accounts, exposures with credentials and attack surface, brands with cases and
evidence, observables with the KEV catalog and the integrations.

Not modelled, and why:

* the alert outbox: nothing but its tests calls it, the loop that would deliver
  its alerts is not in the repository;
* worker telemetry: a heartbeat file, and `config_json.health`, which only views
  read; and the loop of a worker over several connections;
* notes and reviews of a case, the organisation profile and its wizard, the
  ATT&CK catalog: rows that are appended or replaced and that nothing decides on;
* correlation, timeline, dashboard, case intelligence, reports, exports, mail
  text, licence evaluation, the browser front end: computed from rows, with no
  state of their own.

Every safety and action property that a passing run checks is stated by a
theorem above, with the hypothesis (one worker, `KeysAgree`) where it needs one;
what is left is to model the parts just named.
