------------------------------ MODULE Exposures ------------------------------
(***************************************************************************)
(* Exposure monitoring: monitored assets, exposure findings and the        *)
(* batches that import them (app/routers/exposure_routes.py with           *)
(* app/exposure_ingest.py and app/risk.py), the dossier kept per leaked    *)
(* e-mail (app/credential_intel.py, app/routers/credentials_routes.py) and *)
(* the attack surface, whose assets are promoted to findings               *)
(* (app/routers/surface_routes.py, app/surface_discovery.py).              *)
(*                                                                         *)
(* Every table is scoped to a tenant, and the tenant is part of every      *)
(* deduplication key: the module models one tenant.                        *)
(***************************************************************************)
EXTENDS UnitOfWork, FiniteSets, Sequences

CONSTANTS
    Emails,        \* e-mail addresses that leak or are monitored
    Records,       \* records an intake or a line of a file carries
    Files,         \* files: sequences of Records and Bad
    Bad,           \* a line the parser cannot read
    SurfaceKeys,   \* type and value of a surface asset
    Lookups,       \* what a passive lookup can find out about one
    Triages,       \* bodies of PATCH /exposure/findings/{id}
    Criticalities  \* criticality a payload gives a monitored asset

VARIABLE
    sent           \* VIP alerts sent: pairs of an e-mail and an asset

vars == <<db, slot, served, sent>>

assets     == db.assets      \* monitored_asset, by id
findings   == db.findings    \* exposure_finding, UNIQUE by dedup_key
batches    == db.batches     \* exposure_ingest_batch, by id
identities == db.identities  \* credential_identity, UNIQUE by identity_hash
surface    == db.surface     \* surface_asset, UNIQUE by dedup_key

References ==
    {[table |-> "findings", column |-> "asset", to |-> "assets",
     ondelete |-> "set null"],
     [table |-> "findings", column |-> "ingest", to |-> "batches",
     ondelete |-> "set null"],
     [table |-> "identities", column |-> "vip", to |-> "assets",
     ondelete |-> "set null"]}

-----------------------------------------------------------------------------
(***************************************************************************)
(* Deduplication and risk score.                                           *)
(***************************************************************************)
\* What identifies a finding: of a credential the e-mail and the hash of the
\* password, of an identity the e-mail and what was exposed, of an asset of
\* the attack surface its type and value.
dedup_key(rec) == <<rec.type, rec.email, rec.what>>
SurfaceKey(s)  == <<"infrastructure_exposure", s>>
FindingKeys    == {dedup_key(rec) : rec \in Records} \cup
                  {SurfaceKey(s) : s \in SurfaceKeys}
Credentials(e) == {k \in FindingKeys : k[1] = "credential_exposure" /\ k[2] = e}

\* int(round(intensity * weight)), the intensity in hundredths.
Points(intensity, weight) ==
    LET q == (intensity * weight) \div 100
        rest == (intensity * weight) % 100
    IN IF rest > 50 \/ (rest = 50 /\ q % 2 = 1) THEN q + 1 ELSE q

CRIT_INTENSITY ==
    [low |-> 20, medium |-> 45, high |-> 75, critical |-> 100]
EXPOSURE_INTENSITY ==
    [credential_exposure |-> 90, identity_exposure |-> 50,
     infrastructure_exposure |-> 65]
VERIFY_INTENSITY ==
    [new |-> 30, triaging |-> 45, confirmed |-> 100, mitigated |-> 50,
     closed |-> 40, duplicate |-> 20, false_positive |-> 0]

\* A leaked password is a credential, an e-mail alone personal data.
Sensitivity(k) ==
    CASE k[1] = "infrastructure_exposure" -> 20
      [] k[1] = "credential_exposure" /\ k[3] # NoRow -> 85
      [] OTHER -> 40

\* risk.compute with the weights of config.py, of a finding seen in the last
\* week.  f.doubt is the sum of the two Admiralty ranks, 0 for A1, 10 for F6.
raw(k, f, asset) ==
    Points(IF asset = NoRow THEN 30 ELSE CRIT_INTENSITY[asset.criticality], 25)
    + Points(EXPOSURE_INTENSITY[k[1]], 25)
    + Points(100 - 10 * f.doubt, 18)
    + Points(100, 12)
    + Points(VERIFY_INTENSITY[f.status], 10)
    + Points(Sensitivity(k), 12)

compute(k, f, asset) ==
    CASE f.status = "false_positive" -> 0
      [] raw(k, f, asset) > 100 -> 100
      [] OTHER -> raw(k, f, asset)

\* _apply_risk: the score, and the breakdown in the JSON document detail.
apply_risk(k, f) ==
    LET asset == IF f.asset = NoRow THEN NoRow ELSE assets[f.asset]
        score == compute(k, f, asset)
    IN [f EXCEPT !.score = score, !.detail.breakdown = score]

-----------------------------------------------------------------------------
Finding ==
    [id: Ids, status: DOMAIN VERIFY_INTENSITY, doubt: 0..10,
     asset: Ids \cup {NoRow}, ingest: Ids \cup {NoRow}, score: 0..100,
     detail: [sightings: Nat, breakdown: 0..100,
              surface: SurfaceKeys \cup {NoRow}]]
Asset == [id: Ids, email: Emails, criticality: DOMAIN CRIT_INTENSITY]
Batch == [id: Ids, status: {"completed", "rolled_back"},
          created: Nat, deduped: Nat, errors: Nat, total: Nat]
Identity == [id: Ids, leak_count: Nat,
             passwords: SUBSET {rec.what : rec \in Records},
             vip: Ids \cup {NoRow}, max_risk: 0..100,
             status: {"new", "reviewing", "mitigated", "closed"}]
Surface == [id: Ids, status: {"new", "confirmed", "ignored", "resolved"},
            detail: [finding: FindingKeys \cup {NoRow},
                     found: Lookups \cup {NoRow}]]

\* Parsers give an e-mail only to records of a person's data.
ASSUME InputsAssumption ==
    /\ \A rec \in Records :
          /\ rec.type \in {"credential_exposure", "identity_exposure"}
          /\ rec.email \in Emails
    /\ \A file \in Files : file \in Seq(Records \cup {Bad})
    /\ \A body \in Triages :
          body.status \in DOMAIN VERIFY_INTENSITY /\ body.doubt \in 0..10
    /\ Criticalities \subseteq DOMAIN CRIT_INTENSITY

ASSUME NullAssumption ==
    /\ NoRow \notin Ids /\ NoRow \notin FindingKeys
    /\ NoRow \notin Asset /\ NoRow \notin Finding /\ NoRow \notin Batch
    /\ NoRow \notin Identity /\ NoRow \notin Surface

TypeOK ==
    /\ assets \in [Ids -> Asset \cup {NoRow}]
    /\ findings \in [FindingKeys -> Finding \cup {NoRow}]
    /\ batches \in [Ids -> Batch \cup {NoRow}]
    /\ identities \in [Emails -> Identity \cup {NoRow}]
    /\ surface \in [SurfaceKeys -> Surface \cup {NoRow}]
    /\ sent \subseteq Emails \X Ids
    /\ served \in 0..MaxRequests
    /\ \A r \in Slots : Busy(r) => slot[r].phase = "flush" /\ slot[r].n \in Ids

-----------------------------------------------------------------------------
(***************************************************************************)
(* The session of an ingest: the rows as it sees them, the findings added  *)
(* and not flushed yet, which its queries do not see, the keys it added    *)
(* twice because of that, the alerts it sends, and its counts.             *)
(***************************************************************************)
Session ==
    [findings |-> findings, identities |-> identities, pending |-> {},
     twice |-> {}, sent |-> {}, created |-> 0, deduped |-> 0, errors |-> 0]

NewFinding(k, n, asset, ingest, doubt, surf) ==
    apply_risk(k, [id |-> n, status |-> "new", doubt |-> doubt,
                   asset |-> asset, ingest |-> ingest, score |-> 0,
                   detail |-> [sightings |-> 1, breakdown |-> 0,
                               surface |-> surf]])

NewIdentity(n) ==
    [id |-> n, leak_count |-> 0, passwords |-> {}, vip |-> NoRow,
     max_risk |-> 0, status |-> "new"]

Monitoring(e) == {i \in Ids : assets[i] # NoRow /\ assets[i].email = e}

\* Mutant: no hit is 0.
HitOrZero(e) ==
    IF Monitoring(e) = {} THEN 0
    ELSE CHOOSE i \in Monitoring(e) : \A j \in Monitoring(e) : i <= j

\* The monitored asset whose value is the e-mail: the first row.
VipAsset(e) ==
    IF Monitoring(e) = {} THEN NoRow
    ELSE CHOOSE i \in Monitoring(e) : \A j \in Monitoring(e) : i <= j

\* Mutant: the passwords known before are forgotten.
LastPassword(ci, rec, f, created, vip) ==
    [ci EXCEPT !.leak_count = IF created THEN @ + 1 ELSE @,
               !.passwords = {rec.what}, !.vip = vip,
               !.max_risk = IF f.score > @ THEN f.score ELSE @]

Dossier(ci, rec, f, created, vip) ==
    [ci EXCEPT !.leak_count = IF created THEN @ + 1 ELSE @,
               !.passwords = IF rec.what = NoRow THEN @ ELSE @ \cup {rec.what},
               !.vip = vip,
               !.max_risk = IF f.score > @ THEN f.score ELSE @]

\* Mutant: only the first leak of an e-mail is worth an alert.
AlertsFirstLeak(e, ci, vip) ==
    IF vip = ci.vip \/ ci.leak_count > 0 THEN {} ELSE {<<e, vip>>}

AlertsNewHit(e, ci, vip) == IF vip = ci.vip THEN {} ELSE {<<e, vip>>}

\* The dossier of the e-mail follows its finding; the flushes inside make
\* every pending finding visible, and a first hit on a monitored asset sends
\* its alert at once, before the commit.
update_identity(s, rec, f, created, n) ==
    LET ci == IF s.identities[rec.email] = NoRow THEN NewIdentity(n)
              ELSE s.identities[rec.email]
        vip == IF ci.vip = NoRow THEN VipAsset(rec.email) ELSE ci.vip
    IN [s EXCEPT
          !.pending = {},
          !.sent = @ \cup AlertsNewHit(rec.email, ci, vip),
          !.identities[rec.email] = Dossier(ci, rec, f, created, vip)]

\* _persist_record: one record is created, or deduplicated on a finding the
\* session sees.
persist_record(s, rec, n, asset, ingest, doubt) ==
    LET k == dedup_key(rec)
        seen == s.findings[k] # NoRow /\ k \notin s.pending
        f == IF seen
             THEN apply_risk(k, [s.findings[k] EXCEPT !.detail.sightings = @ + 1])
             ELSE NewFinding(k, n, asset, ingest, doubt, NoRow)
        s1 == [s EXCEPT
                 !.findings[k] = f,
                 !.twice = IF k \in s.pending THEN @ \cup {k} ELSE @,
                 !.pending = IF seen THEN @ ELSE @ \cup {k},
                 !.created = IF seen THEN @ ELSE @ + 1,
                 !.deduped = IF seen THEN @ + 1 ELSE @]
    IN IF rec.type = "credential_exposure"
       THEN update_identity(s1, rec, f, ~seen, n) ELSE s1

Changed(table, rows) ==
    {IF db[table][k] = NoRow THEN Insert(table, k, rows[k])
     ELSE Update(table, k, db[table][k], rows[k]) :
       k \in {k \in DOMAIN rows : rows[k] # db[table][k]}}

\* Mutant: a key added twice is swallowed.
WithoutTwice(s) ==
    Changed("findings", s.findings) \cup Changed("identities", s.identities)

SessionWrites(s) ==
    Changed("findings", s.findings) \cup Changed("identities", s.identities)
    \cup {[Insert("findings", k, s.findings[k]) EXCEPT !.how = "insert_twice"] :
            k \in s.twice}

\* A handler without alerts, left at its one commit.
Request(r, op, on, writes) ==
    Begin(r, op, on, writes, "answer") /\ UNCHANGED <<db, sent>>

-----------------------------------------------------------------------------
(***************************************************************************)
(* Monitored assets.  Updating or deleting one does not compute the scores *)
(* of its findings again.                                                  *)
(***************************************************************************)
create_asset(r, e, crit) ==
    Request(r, "asset_create", NoRow,
            {Insert("assets", Number, [id |-> Number, email |-> e,
                                       criticality |-> crit])})

update_asset(r, i, crit) ==
    /\ assets[i] # NoRow /\ assets[i].criticality # crit
    /\ Request(r, "asset_update", NoRow,
               {Update("assets", i, assets[i],
                       [assets[i] EXCEPT !.criticality = crit])})

delete_asset(r, i) ==
    /\ assets[i] # NoRow
    /\ Request(r, "asset_delete", NoRow, {Delete("assets", i, assets[i])})

-----------------------------------------------------------------------------
(***************************************************************************)
(* Intake and import.  doubt: the Admiralty code a source has by default,  *)
(* C3 for a manual intake and F6 for a file.                               *)
(***************************************************************************)
intake_finding(r, rec, asset) ==
    LET s == persist_record(Session, rec, Number, asset, NoRow, 4) IN
    /\ asset # NoRow => assets[asset] # NoRow
    /\ Begin(r, "intake", dedup_key(rec), SessionWrites(s), "answer")
    /\ sent' = sent \cup s.sent
    /\ UNCHANGED db

\* One line of a file: a parser's error is counted.
ImportLine(s, line, n) ==
    IF line = Bad THEN [s EXCEPT !.errors = @ + 1]
    ELSE persist_record(s, line, n, NoRow, n, 10)

\* The session after all the lines of a file; lines[i]: after the first i.
Imported(file, n) ==
    LET lines[i \in 0..Len(file)] ==
          IF i = 0 THEN Session ELSE ImportLine(lines[i - 1], file[i], n)
    IN lines[Len(file)]

\* import_file: the batch and all its records are one transaction.
import_file(r, file) ==
    LET n == Number
        s == Imported(file, n)
        batch == [id |-> n, status |-> "completed", total |-> Len(file),
                  created |-> s.created, deduped |-> s.deduped,
                  errors |-> s.errors]
    IN /\ Begin(r, "import", NoRow,
                {Insert("batches", n, batch)} \cup SessionWrites(s), "answer")
       /\ sent' = sent \cup s.sent
       /\ UNCHANGED db

\* rollback_ingest: a hard delete of the findings the batch created, whatever
\* the status of the batch; the dossiers keep what they counted.
rollback_ingest(r, b) ==
    /\ batches[b] # NoRow
    /\ Request(r, "import_rollback", b,
         {Update("batches", b, batches[b],
                 [batches[b] EXCEPT !.status = "rolled_back"])} \cup
         {Delete("findings", k, findings[k]) :
            k \in {k \in FindingKeys : /\ findings[k] # NoRow
                                       /\ findings[k].ingest = b}})

-----------------------------------------------------------------------------
(***************************************************************************)
(* Triage of a finding and of a dossier.                                   *)
(***************************************************************************)

\* Mutant: the breakdown replaces the document.
BreakdownOnly(k, f, body) ==
    apply_risk(k, [f EXCEPT !.status = body.status, !.doubt = body.doubt,
                            !.detail.sightings = 1])

Triaged(k, f, body) ==
    apply_risk(k, [f EXCEPT !.status = body.status, !.doubt = body.doubt])

triage_finding(r, k, body) ==
    LET f == findings[k] IN
    /\ f # NoRow
    /\ f.status # body.status \/ f.doubt # body.doubt
    /\ Request(r, "triage", k,
               {Update("findings", k, f, Triaged(k, f, body))})

triage_identity(r, e, status) ==
    LET ci == identities[e] IN
    /\ ci # NoRow /\ ci.status # status
    /\ Request(r, "identity_triage", NoRow,
               {Update("identities", e, ci, [ci EXCEPT !.status = status])})

\* resend_vip_alert: 409 without a VIP, 404 without its asset.
resend_vip_alert(e) ==
    /\ identities[e] # NoRow /\ identities[e].vip # NoRow
    /\ assets[identities[e].vip] # NoRow
    /\ sent' = sent \cup {<<e, identities[e].vip>>}
    /\ UNCHANGED <<db, slot, served>>

-----------------------------------------------------------------------------
(***************************************************************************)
(* The attack surface.                                                     *)
(***************************************************************************)
NewSurface(n, found) ==
    [id |-> n, status |-> "new", detail |-> [finding |-> NoRow, found |-> found]]

\* import_surface: an asset that is there is only seen again.
import_surface(r, items) ==
    Request(r, "surface_import", NoRow,
            {Insert("surface", s, NewSurface(Number, NoRow)) :
               s \in {s \in items : surface[s] = NoRow}})

triage_surface(r, s, status) ==
    /\ surface[s] # NoRow /\ surface[s].status # status
    /\ Request(r, "surface_triage", s,
               {Update("surface", s, surface[s],
                       [surface[s] EXCEPT !.status = status])})

\* Mutant: the document is replaced.
ReplacesDetail(s, found) ==
    IF surface[s] = NoRow THEN Insert("surface", s, NewSurface(Number, found))
    ELSE Update("surface", s, surface[s],
                [surface[s] EXCEPT !.detail = [finding |-> NoRow, found |-> found]])

\* _upsert: what the lookups found is merged into the JSON document.
upsert(s, found) ==
    IF surface[s] = NoRow THEN Insert("surface", s, NewSurface(Number, found))
    ELSE Update("surface", s, surface[s],
                [surface[s] EXCEPT !.detail.found = found])

\* discover: found is what the lookups over the network say of each asset;
\* the rows are read on the way and written by one commit at the end.
discover(r, found) ==
    Request(r, "surface_discover", NoRow,
            {upsert(s, found[s]) : s \in DOMAIN found})

Promoted(s, f) ==
    [surface[s] EXCEPT !.detail.finding = SurfaceKey(s),
                       !.status = IF f = NoRow THEN "confirmed" ELSE @]

\* promote: the finding is found by its key, or created; either way the asset
\* names it, in its JSON document.
promote(r, s) ==
    LET k == SurfaceKey(s)
        f == findings[k]
    IN /\ surface[s] # NoRow
       /\ Request(r, "surface_promote", s,
            {Update("surface", s, surface[s], Promoted(s, f))} \cup
            (IF f # NoRow THEN {}
             ELSE {Insert("findings", k,
                          NewFinding(k, Number, NoRow, NoRow, 2, s))}))

-----------------------------------------------------------------------------
Tables ==
    [assets     |-> [i \in Ids |-> NoRow],
     findings   |-> [k \in FindingKeys |-> NoRow],
     batches    |-> [i \in Ids |-> NoRow],
     identities |-> [e \in Emails |-> NoRow],
     surface    |-> [s \in SurfaceKeys |-> NoRow]]

Start(rows, n, alerts) ==
    /\ db = rows
    /\ slot = [r \in Slots |-> Idle]
    /\ served = n
    /\ sent = alerts

Init == Start(Tables, 0, {})

Flush(r)  == Commit(r, References) /\ UNCHANGED sent
Refuse(r) == CommitRaises(r, References) /\ UNCHANGED sent
Die       == Crash /\ UNCHANGED sent

AssetRequest(r) ==
    \/ \E e \in Emails, crit \in Criticalities : create_asset(r, e, crit)
    \/ \E i \in Ids : \/ delete_asset(r, i)
                      \/ \E crit \in Criticalities : update_asset(r, i, crit)

FindingRequest(r) ==
    \/ \E rec \in Records, asset \in Ids \cup {NoRow} :
         intake_finding(r, rec, asset)
    \/ \E file \in Files : import_file(r, file)
    \/ \E b \in Ids : rollback_ingest(r, b)
    \/ \E k \in FindingKeys, body \in Triages : triage_finding(r, k, body)
    \/ \E e \in Emails : triage_identity(r, e, "closed")

SurfaceRequest(r) ==
    \/ \E items \in SUBSET SurfaceKeys : import_surface(r, items)
    \/ \E s \in SurfaceKeys : \/ promote(r, s)
                              \/ triage_surface(r, s, "ignored")
    \/ \E some \in SUBSET SurfaceKeys : \E found \in [some -> Lookups] :
         discover(r, found)

Next ==
    \/ \E r \in Slots : \/ Flush(r) \/ Refuse(r)
                        \/ Free(r) /\ AssetRequest(r)
                        \/ Free(r) /\ FindingRequest(r)
                        \/ Free(r) /\ SurfaceRequest(r)
    \/ \E e \in Emails : resend_vip_alert(e)
    \/ Die

Spec == Init /\ [][Next]_vars

-----------------------------------------------------------------------------
(***************************************************************************)
(* Properties                                                              *)
(***************************************************************************)
FindingsOf(b) ==
    {k \in FindingKeys : findings[k] # NoRow /\ findings[k].ingest = b}

\* The counts of a batch account for the findings there are: a completed
\* batch has exactly the findings it says it created and its counts add up to
\* its lines, a rolled back one has none left, whatever intakes, imports of
\* the same records, triages and rollbacks overlapped with it.
BatchAccounts ==
    \A b \in Ids : batches[b] # NoRow =>
        /\ batches[b].total =
             batches[b].created + batches[b].deduped + batches[b].errors
        /\ Cardinality(FindingsOf(b)) =
             IF batches[b].status = "completed" THEN batches[b].created ELSE 0

\* The step is the flush of r's transaction.
Flushes(r) == slot[r].phase = "flush" /\ ~Busy(r)' /\ db' # db

\* The sightings of a finding are a counter inside a JSON document that the
\* triage writes too: as long as the finding lives the counter falls only
\* when a commit overtook the transaction that writes it.
SightingsFallOnlyInARace ==
    [][\A k \in FindingKeys :
         /\ findings[k] # NoRow /\ findings'[k] # NoRow
         /\ findings'[k].id = findings[k].id
         /\ findings'[k].detail.sightings < findings[k].detail.sightings
         => \E r \in Slots : Flushes(r) /\ slot[r].overtaken]_vars

Live(e, rows) == {k \in Credentials(e) : rows[k] # NoRow}

\* The dossier of an e-mail counts at least the credential findings there are
\* of it, and knows their passwords; a step breaks that only when a commit
\* overtook its transaction.  (A rollback leaves the count above them.)
Accounted(e, t) ==
    Live(e, t.findings) # {} =>
        /\ t.identities[e] # NoRow
        /\ t.identities[e].leak_count >= Cardinality(Live(e, t.findings))
        /\ \A k \in Live(e, t.findings) :
             k[3] # NoRow => k[3] \in t.identities[e].passwords

LeaksCountedUnlessRaced ==
    [][\A e \in Emails : Accounted(e, db) /\ ~Accounted(e, db') =>
         \E r \in Slots : Flushes(r) /\ slot[r].overtaken]_vars

\* A dossier linked to a monitored asset has had its alert sent: the alert
\* precedes the commit, so no crash and no refused flush leaves a link that
\* nobody was told about.
VipHitAlerted ==
    \A e \in Emails : identities[e] # NoRow /\ identities[e].vip # NoRow =>
        <<e, identities[e].vip>> \in sent

\* A promotion links both ways: the finding that names a surface asset is
\* named by it, and a step breaks that only when a commit overtook its
\* transaction (a discovery holds the JSON document it read while it waits
\* for the network, and writes it back).
Linked(s, t) ==
    (t.findings[SurfaceKey(s)] # NoRow) <=>
    (t.surface[s] # NoRow /\ t.surface[s].detail.finding = SurfaceKey(s))

PromotionLinksBothWays ==
    [][\A s \in SurfaceKeys : Linked(s, db) /\ ~Linked(s, db') =>
         \E r \in Slots : Flushes(r) /\ slot[r].overtaken]_vars

=============================================================================
