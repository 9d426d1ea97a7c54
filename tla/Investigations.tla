--------------------------- MODULE Investigations ---------------------------
(***************************************************************************)
(* Brand monitoring and the cases opened from it: brands, their scans and  *)
(* findings (app/routers/brands.py, app/brand/scanner.py, scoring.py), the *)
(* alerts of a scan (app/alerts.py), investigation cases with their        *)
(* evidence (app/routers/cases_routes.py) and the files of the evidence    *)
(* (app/evidence_store.py).                                                *)
(*                                                                         *)
(* One tenant; every brand has a name of its own.  A database failure can  *)
(* refuse any flush, a disk failure any write of a file.                   *)
(***************************************************************************)
EXTENDS UnitOfWork, FiniteSets

CONSTANTS
    Domains,       \* domains a brand owns or a scan looks at
    Officials,     \* sets of domains a brand can be given as its own
    Observations,  \* what the network says of a domain: the evidence
    Labels,        \* status an analyst gives a brand finding
    Assignees,     \* users a case can be assigned to
    Patches,       \* bodies of PATCH /cases/{id}
    Unset,         \* a member the body leaves out
    ALERT_MIN_VERDICT

VARIABLES
    files,   \* evidence files on disk, by the number of their upload
    mails    \* alerts sent: pairs of the key and the id of a brand finding

vars == <<db, slot, served, files, mails>>

brands   == db.brands     \* by id
findings == db.findings   \* brand_findings, UNIQUE (brand_id, domain)
cases    == db.cases      \* investigation_cases, by id
evidence == db.evidence   \* case_evidence, by id

FindingKeys == Ids \X Domains

\* Mutant: the case does not let go of its finding.
BrandSetNull ==
    {[table |-> "findings", column |-> "brand", to |-> "brands",
      ondelete |-> "cascade"],
     [table |-> "cases", column |-> "brand", to |-> "brands",
      ondelete |-> "set null"]}

References ==
    {[table |-> "findings", column |-> "brand", to |-> "brands",
      ondelete |-> "cascade"],
     [table |-> "cases", column |-> "brand", to |-> "brands",
      ondelete |-> "set null"],
     [table |-> "cases", column |-> "finding", to |-> "findings",
      ondelete |-> "set null"],
     [table |-> "evidence", column |-> "case", to |-> "cases",
      ondelete |-> "cascade"],
     [table |-> "evidence", column |-> "finding", to |-> "findings",
      ondelete |-> "set null"]}

ACTIVE   == {"open", "triage", "investigating", "contained"}
TERMINAL == {"closed", "false_positive"}

Verdicts == {"info", "low", "suspicious", "malicious"}

Brand == [id: Ids, status: {"active", "archived"}, official: SUBSET Domains]
BrandFinding ==
    [id: Ids, brand: Ids, verdict: Verdicts, status: {"new"} \cup Labels,
     alerted: BOOLEAN]
InvestigationCase ==
    [id: Ids, brand: Ids \cup {NoRow}, finding: FindingKeys \cup {NoRow},
     snapshot: (FindingKeys \X Ids) \cup {NoRow}, status: ACTIVE \cup TERMINAL,
     closed_at: BOOLEAN, assignee: Assignees \cup {NoRow}]
CaseEvidence == [id: Ids, case: Ids, finding: FindingKeys \cup {NoRow}]

\* What a payload may carry, and a marker that is no data.
ASSUME ConstantsAssumption ==
    /\ Officials \subseteq SUBSET Domains
    /\ Patches \subseteq [assignee: Assignees \cup {NoRow, Unset},
                          status: ACTIVE \cup TERMINAL \cup {Unset}]
    /\ NoRow \notin Ids \cup FindingKeys
    /\ NoRow \notin Brand /\ NoRow \notin BrandFinding
    /\ NoRow \notin InvestigationCase /\ NoRow \notin CaseEvidence

TypeOK ==
    /\ brands \in [Ids -> Brand \cup {NoRow}]
    /\ findings \in [FindingKeys -> BrandFinding \cup {NoRow}]
    /\ cases \in [Ids -> InvestigationCase \cup {NoRow}]
    /\ evidence \in [Ids -> CaseEvidence \cup {NoRow}]
    /\ files \subseteq Ids
    /\ mails \subseteq FindingKeys \X Ids
    /\ served \in 0..MaxRequests
    /\ \A r \in Slots : slot[r].phase \in
         {"idle", "flush", "dispatch", "status", "fields", "saving", "refresh"}

-----------------------------------------------------------------------------
(***************************************************************************)
(* The score of a domain (scoring.py).                                     *)
(***************************************************************************)
\* Ages are in days, Unset when the lookup does not know.
AtMost(age, days) == IF age = Unset THEN FALSE ELSE age <= days

If(test, points) == IF test THEN points ELSE 0

score(o) ==
    (CASE o.similarity >= 90 -> 20
       [] o.similarity >= 75 -> 10
       [] o.similarity >= 60 -> 5
       [] OTHER -> 0)
    + If(o.lure, 8) + If(o.resolves, 6) + If(o.mx, 22)
    + (CASE AtMost(o.age_days, 7) -> 25
         [] AtMost(o.age_days, 30) -> 15
         [] AtMost(o.age_days, 90) -> 6
         [] OTHER -> 0)
    + If(AtMost(o.cert_age_days, 7), 12) + If(o.urlhaus_listed, 45)

\* An active threat, and not only a similar domain that exists.
strong(o) ==
    \/ o.mx \/ o.urlhaus_listed
    \/ AtMost(o.age_days, 30) \/ AtMost(o.cert_age_days, 7)

\* Neither a domain without a strong signal nor a parked one that nobody uses
\* for mail or malware gets beyond "low".
score_finding(o) ==
    LET capped == ~strong(o) \/ (o.parked /\ ~o.mx /\ ~o.urlhaus_listed) IN
    CASE score(o) >= 70 /\ ~capped -> "malicious"
      [] score(o) >= 45 /\ ~capped -> "suspicious"
      [] score(o) >= 15 -> "low"
      [] OTHER -> "info"

VERDICT_RANK == [info |-> 0, low |-> 1, suspicious |-> 2, malicious |-> 3]
should_alert(verdict) == VERDICT_RANK[verdict] >= VERDICT_RANK[ALERT_MIN_VERDICT]

\* A domain that neither resolves nor looks alike is not investigated.
Investigated(o) == o.resolves \/ o.similarity >= 70

-----------------------------------------------------------------------------
(***************************************************************************)
(* Brands.                                                                 *)
(***************************************************************************)
Request(r, op, on, writes) ==
    Begin(r, op, on, writes, "answer") /\ UNCHANGED <<db, files, mails>>

FindingsOf(b) == {k \in FindingKeys : k[1] = b /\ findings[k] # NoRow}

create_brand(r, official) ==
    Request(r, "brand_create", Number,
            {Insert("brands", Number,
                    [id |-> Number, status |-> "active", official |-> official])})

\* update_brand: clear_findings only counts when the domains change.
update_brand(r, b, official, clear) ==
    /\ brands[b] # NoRow /\ brands[b].official # official
    /\ Request(r, IF clear THEN "brand_clear" ELSE "brand_update", b,
         {Update("brands", b, brands[b], [brands[b] EXCEPT !.official = official])}
         \cup {Delete("findings", k, findings[k]) :
                 k \in IF clear THEN FindingsOf(b) ELSE {}})

archive_brand(r, b) ==
    /\ brands[b] # NoRow /\ brands[b].status # "archived"
    /\ Request(r, "brand_archive", b,
         {Update("brands", b, brands[b], [brands[b] EXCEPT !.status = "archived"])})

unarchive_brand(r, b) ==
    /\ brands[b] # NoRow /\ brands[b].status # "active"
    /\ Request(r, "brand_unarchive", b,
         {Update("brands", b, brands[b], [brands[b] EXCEPT !.status = "active"])})

\* Mutant: the findings are not counted.
Unchecked(b, force) == TRUE

\* A brand with findings is only deleted by force.
Deletable(b, force) == force \/ FindingsOf(b) = {}

delete_brand(r, b, force) ==
    /\ brands[b] # NoRow
    /\ Deletable(b, force)
    /\ Request(r, IF force THEN "brand_delete_force" ELSE "brand_delete", b,
               {Delete("brands", b, brands[b])})

-----------------------------------------------------------------------------
(***************************************************************************)
(* The scan: one commit for everything it saw, then the alerts for the     *)
(* rows that are new.                                                      *)
(***************************************************************************)
\* last_seen is always written: the row must still be there.
Rescored(k, verdict) ==
    [Update("findings", k, findings[k], [findings[k] EXCEPT !.verdict = verdict])
       EXCEPT !.needs = {<<"findings", k, findings[k].id>>}]

Discovered(k, n, verdict) ==
    Insert("findings", k,
           [id |-> n, brand |-> k[1], verdict |-> verdict, status |-> "new",
            alerted |-> FALSE])

\* scan_brand; seen: what the lookups say of the candidates.
scan(r, b, seen) ==
    LET looked == {<<b, d>> : d \in {d \in DOMAIN seen \ brands[b].official :
                                       Investigated(seen[d])}}
        verdict == [k \in looked |-> score_finding(seen[k[2]])]
    IN /\ brands[b] # NoRow
       /\ brands[b].status # "archived" /\ brands[b].official # {}
       /\ Begin(r, "scan", b,
            {IF findings[k] = NoRow THEN Discovered(k, Number, verdict[k])
             ELSE Rescored(k, verdict[k]) : k \in looked}, "dispatch")
       /\ UNCHANGED <<db, files, mails>>

\* The findings the scan of r inserted, as far as they are still there.
Inserted(r) == {k \in FindingsOf(slot[r].on) : findings[k].id = slot[r].n}

ToAlert(r) ==
    {k \in Inserted(r) : ~findings[k].alerted /\ should_alert(findings[k].verdict)}

\* send_finding_alert, then the flags are committed at once.
Mails(ks) == {<<k, findings[k].id>> : k \in ks}

Flag(ks) == {Update("findings", k, findings[k],
                    [findings[k] EXCEPT !.alerted = TRUE]) : k \in ks}

\* dispatch_new_findings: a row or a brand that went away is an error 500.
dispatch_new_findings(r) ==
    /\ slot[r].phase = "dispatch"
    /\ brands[slot[r].on] # NoRow
    /\ mails' = mails \cup Mails(ToAlert(r))
    /\ slot' = [slot EXCEPT ![r] =
         IF ToAlert(r) = {} THEN Idle
         ELSE [@ EXCEPT !.phase = "flush", !.writes = Flag(ToAlert(r)),
                        !.then = "answer", !.overtaken = FALSE]]
    /\ UNCHANGED <<db, served, files>>

DispatchFails(r) ==
    /\ slot[r].phase = "dispatch"
    /\ slot' = [slot EXCEPT ![r] = Idle]
    /\ UNCHANGED <<db, served, files, mails>>

update_finding_status(r, k, status) ==
    /\ findings[k] # NoRow /\ findings[k].status # status
    /\ Request(r, "finding_status", k,
         {Update("findings", k, findings[k], [findings[k] EXCEPT !.status = status])})

resend_alert(r, k) ==
    /\ findings[k] # NoRow
    /\ Begin(r, "finding_alert", k, Flag({k}), "answer")
    /\ mails' = mails \cup {<<k, findings[k].id>>}
    /\ UNCHANGED <<db, files>>

-----------------------------------------------------------------------------
(***************************************************************************)
(* Cases.                                                                  *)
(***************************************************************************)
Active(c) == cases[c] # NoRow /\ cases[c].status \in ACTIVE

\* _active_case_for_finding
ActiveCases(k) == {c \in {c \in Ids : Active(c)} : cases[c].finding = k}

\* Mutant: any case is welcome.
Duplicates(k) == {}

\* What stands in the way of a case for the finding k.
Existing(k) == ActiveCases(k)

\* create_case, and open_case_from_finding, which gives both b and k.  The
\* check and the insert are one transaction, and no constraint backs it.
create_case(r, b, k, assignee) ==
    /\ b # NoRow => brands[b] # NoRow
    /\ k # NoRow => /\ findings[k] # NoRow
                    /\ b # NoRow => findings[k].brand = b
                    /\ Existing(k) = {}
    /\ LET snapshot == IF k = NoRow THEN NoRow ELSE <<k, findings[k].id>>
           row == [id |-> Number, brand |-> IF k = NoRow THEN b ELSE k[1],
                   finding |-> k, snapshot |-> snapshot, status |-> "open",
                   closed_at |-> FALSE, assignee |-> assignee]
       IN Request(r, "case_create", k,
            {[Insert("cases", Number, row) EXCEPT !.needs =
                IF k = NoRow THEN {} ELSE {<<"findings", k, findings[k].id>>}]})

\* update_case: the assignment and the new status are each committed by
\* their audit record, the other fields by the handler; a refusal comes too
\* late for what was committed before it.
Refused == [then |-> "refused"]

\* title, description and severity: nothing else depends on them.
FieldsPart(row) == [then |-> "answer", row |-> row]

\* Mutant: a case keeps the time it was closed at.
StaysClosedAt(row, status) ==
    [row EXCEPT !.status = status, !.closed_at = @ \/ status \in TERMINAL]

Moved(row, status) ==
    [row EXCEPT !.status = status,
                !.closed_at = \/ status \in TERMINAL
                              \/ row.status \notin TERMINAL /\ @]

StatusPart(row, body, admin) ==
    IF body.status \in {Unset, row.status} THEN FieldsPart(row)
    ELSE IF \/ body.status \in TERMINAL /\ row.status \in TERMINAL
            \/ {body.status, row.status} \cap TERMINAL # {} /\ ~admin
         THEN Refused
    ELSE [then |-> "fields", row |-> Moved(row, body.status)]

\* Mutant: a member that was left out is written all the same.
WritesUnset(row, body, admin) ==
    IF ~admin THEN Refused
    ELSE IF body.assignee = row.assignee THEN StatusPart(row, body, admin)
    ELSE [then |-> "status", row |-> [row EXCEPT !.assignee = body.assignee]]

AssignPart(row, body, admin) ==
    IF body.assignee = Unset THEN StatusPart(row, body, admin)
    ELSE IF ~admin THEN Refused
    ELSE IF body.assignee = row.assignee THEN StatusPart(row, body, admin)
    ELSE [then |-> "status", row |-> [row EXCEPT !.assignee = body.assignee]]

CaseWrites(c, row) == {Update("cases", c, cases[c], row)}

update_case(r, c, body, admin) ==
    /\ cases[c] # NoRow
    /\ LET part == AssignPart(cases[c], body, admin) IN
       /\ part # Refused
       /\ Begin(r, "case_update", [case |-> c, body |-> body, admin |-> admin],
                CaseWrites(c, part.row), part.then)
    /\ UNCHANGED <<db, files, mails>>

\* After a commit, or a rollback, the case is read again.
update_case_continues(r) ==
    /\ slot[r].phase \in {"status", "fields"}
    /\ LET on == slot[r].on
           row == cases[on.case]
           part == IF slot[r].phase = "status"
                   THEN StatusPart(row, on.body, on.admin) ELSE FieldsPart(row)
       IN slot' = [slot EXCEPT ![r] =
            IF part = Refused THEN Idle
            ELSE [@ EXCEPT !.phase = "flush", !.then = part.then,
                           !.writes = CaseWrites(on.case, part.row),
                           !.overtaken = FALSE]]
    /\ UNCHANGED <<db, served, files, mails>>

-----------------------------------------------------------------------------
(***************************************************************************)
(* Evidence: the file is written while the case it was checked against may *)
(* change, then its row is inserted and read back.                         *)
(***************************************************************************)
\* A finding given with the file must be the one of the case, and of its brand.
Consistent(c, k) ==
    k # NoRow =>
        /\ findings[k] # NoRow
        /\ cases[c].finding \in {NoRow, k}
        /\ cases[c].brand \in {NoRow, k[1]}

add_evidence(r, c, k) ==
    /\ cases[c] # NoRow
    /\ Consistent(c, k)
    /\ BeginAt(r, "saving", "evidence_add", c,
         {[Insert("evidence", Number, [id |-> Number, case |-> c, finding |-> k])
            EXCEPT !.needs =
              IF k = NoRow THEN {} ELSE {<<"findings", k, findings[k].id>>}]},
         "refresh")
    /\ files' = files \cup {Number}
    /\ UNCHANGED <<db, mails>>

\* save_stream, to its end, to EvidenceTooLarge, or to an error of the disk,
\* which leaves what was written.
save_stream(r) ==
    /\ slot[r].phase = "saving"
    /\ slot' = [slot EXCEPT ![r].phase = "flush"]
    /\ UNCHANGED <<db, served, files, mails>>

TooLarge(r) ==
    /\ slot[r].phase = "saving"
    /\ slot' = [slot EXCEPT ![r] = Idle]
    /\ files' = files \ {slot[r].n}
    /\ UNCHANGED <<db, served, mails>>

DiskFails(r) ==
    /\ slot[r].phase = "saving"
    /\ slot' = [slot EXCEPT ![r] = Idle]
    /\ UNCHANGED <<db, served, files, mails>>

\* db.refresh(ev) after the commit, and its failure, which removes the file.
Refreshed(r) ==
    /\ slot[r].phase = "refresh"
    /\ slot' = [slot EXCEPT ![r] = Idle]
    /\ UNCHANGED <<db, served, files, mails>>

RefreshFails(r) ==
    /\ slot[r].phase = "refresh"
    /\ slot' = [slot EXCEPT ![r] = Idle]
    /\ files' = files \ {slot[r].n}
    /\ UNCHANGED <<db, served, mails>>

-----------------------------------------------------------------------------
Flush(r) == Commit(r, References) /\ UNCHANGED <<files, mails>>

\* Mutant: the file stays.
KeepsFile(r) == files

\* An evidence row that was refused takes its file with it.
FilesAfterFailure(r) ==
    IF slot[r].op = "evidence_add" THEN files \ {slot[r].n} ELSE files

\* The database refuses the flush: inside audit.record that is logged and
\* the handler goes on, anywhere else it is an error 500.
FlushFails(r) ==
    /\ slot[r].phase = "flush"
    /\ slot' = [slot EXCEPT ![r] =
         IF slot[r].then \in {"status", "fields"}
         THEN [@ EXCEPT !.phase = slot[r].then, !.writes = {}] ELSE Idle]
    /\ files' = FilesAfterFailure(r)
    /\ UNCHANGED <<db, served, mails>>

Die == Crash /\ UNCHANGED <<files, mails>>

Tables ==
    [brands   |-> [i \in Ids |-> NoRow],
     findings |-> [k \in FindingKeys |-> NoRow],
     cases    |-> [i \in Ids |-> NoRow],
     evidence |-> [i \in Ids |-> NoRow]]

Start(rows, n, alerts) ==
    /\ db = rows
    /\ slot = [r \in Slots |-> Idle]
    /\ served = n
    /\ files = {}
    /\ mails = alerts

Init == Start(Tables, 0, {})

BrandRequest(r) ==
    \/ \E official \in Officials : create_brand(r, official)
    \/ \E b \in Ids :
         \/ \E official \in Officials, clear \in BOOLEAN :
              update_brand(r, b, official, clear)
         \/ archive_brand(r, b)
         \/ unarchive_brand(r, b)
         \/ \E force \in BOOLEAN : delete_brand(r, b, force)
         \/ \E some \in SUBSET Domains : \E seen \in [some -> Observations] :
              scan(r, b, seen)
    \/ \E k \in FindingKeys :
         \/ \E status \in Labels : update_finding_status(r, k, status)
         \/ resend_alert(r, k)

CaseRequest(r) ==
    \/ \E b \in Ids \cup {NoRow}, k \in FindingKeys \cup {NoRow},
          assignee \in Assignees \cup {NoRow} : create_case(r, b, k, assignee)
    \/ \E c \in Ids :
         \/ \E body \in Patches, admin \in BOOLEAN : update_case(r, c, body, admin)
         \/ \E k \in FindingKeys \cup {NoRow} : add_evidence(r, c, k)

Continue(r) ==
    \/ Flush(r) \/ FlushFails(r)
    \/ dispatch_new_findings(r) \/ DispatchFails(r)
    \/ update_case_continues(r)
    \/ save_stream(r) \/ TooLarge(r) \/ DiskFails(r)
    \/ Refreshed(r) \/ RefreshFails(r)

Next ==
    \/ \E r \in Slots : \/ Free(r) /\ BrandRequest(r)
                        \/ Free(r) /\ CaseRequest(r)
                        \/ Continue(r)
    \/ Die

Spec == Init /\ [][Next]_vars

-----------------------------------------------------------------------------
(***************************************************************************)
(* Properties                                                              *)
(***************************************************************************)
\* The step is the flush of r's transaction, which another commit did, or
\* did not, overtake.
Flushes(r) == slot[r].phase = "flush" /\ slot'[r].phase # "flush" /\ db' # db
Raced      == \E r \in Slots : Flushes(r) /\ slot[r].overtaken

Reopens(r) ==
    /\ Flushes(r) /\ slot[r].op = "case_update"
    /\ cases[slot[r].on.case].status \in TERMINAL

\* "An active investigation already exists for this finding" is a check
\* before an insert: a finding gets a second active case when two requests
\* open one at once, or when a closed case is reopened, which checks nothing,
\* and in no other way.
SecondCaseOnlyByReopen ==
    [][\A k \in FindingKeys :
         Cardinality(ActiveCases(k)) = 1 /\ Cardinality(ActiveCases(k)') > 1
         => Raced \/ \E r \in Slots : Reopens(r)]_vars

\* A case has the time it was closed at exactly while it is closed, through
\* refused, half applied and failed PATCHes; only two PATCHes that overlap
\* can tear the status from it.
ClosedAt(row) == row # NoRow => (row.closed_at <=> row.status \in TERMINAL)

ClosedAtTornOnlyInARace ==
    [][\A c \in Ids : ClosedAt(cases[c]) /\ ~ClosedAt(cases'[c]) => Raced]_vars

\* Chain of custody (models.py: a case survives archive, delete and clear):
\* a case names a finding only as long as that is the one its snapshot was
\* taken of, and never a finding that was discovered again later; a piece of
\* evidence names no other finding than its case does.
CustodyKept ==
    /\ \A c \in Ids : cases[c] # NoRow /\ cases[c].finding # NoRow =>
         /\ findings[cases[c].finding] # NoRow
         /\ cases[c].snapshot = <<cases[c].finding, findings[cases[c].finding].id>>
         /\ cases[c].brand = cases[c].finding[1]
    /\ \A e \in Ids : evidence[e] # NoRow /\ evidence[e].finding # NoRow =>
         /\ findings[evidence[e].finding] # NoRow
         /\ cases[evidence[e].case].finding \in {NoRow, evidence[e].finding}

\* Database and disk agree on the evidence once its request is over: a row
\* has its file and a file its row, also when the flush fails or the file is
\* too large.  Only a crash, a disk that fails, and a read after the commit
\* that fails (which removes the file of a row that stays) break it.
Handling(n) == \E r \in Slots : Busy(r) /\ slot[r].n = n
Agree(n)    == Handling(n) \/ (n \in files <=> evidence[n] # NoRow)

EvidenceStored ==
    [][\A n \in Ids : Agree(n) /\ ~Agree(n)' =>
         Die \/ \E r \in Slots : DiskFails(r) \/ RefreshFails(r)]_vars

\* A brand finding goes only when somebody asked for it: with clear_findings,
\* or with force; a deletion without force takes findings along only when a
\* scan committed them after it had counted none.
FindingsDroppedOnRequest ==
    [][\A k \in FindingKeys : findings[k] # NoRow /\ findings'[k] = NoRow =>
         \E r \in Slots : /\ Flushes(r)
                          /\ \/ slot[r].op \in {"brand_clear", "brand_delete_force"}
                             \/ slot[r].op = "brand_delete" /\ slot[r].overtaken]_vars

=============================================================================
