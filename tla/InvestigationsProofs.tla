------------------------ MODULE InvestigationsProofs ------------------------
(***************************************************************************)
(* Theorems about Investigations: its type correctness, the chain of       *)
(* custody and its action properties, for every number of slots and        *)
(* requests and every scan, label, user and body.                          *)
(*                                                                         *)
(* CustodyKept is not inductive: what a flush writes was decided on before *)
(* other transactions committed.  IInv says of every write that is pending *)
(* what it may touch, and of the inserts what the flush checks again       *)
(* (needs) and what no other transaction can change meanwhile.  JInv adds  *)
(* who asked for a write, and what holds of its rows until another commit  *)
(* overtakes it; EInv which files and rows the number of a request has.    *)
(***************************************************************************)
EXTENDS Investigations, UnitOfWorkProofs, FiniteSetTheorems

(***************************************************************************)
(* The inductive invariant.                                                *)
(***************************************************************************)
TableNames == {"brands", "findings", "cases", "evidence"}

\* Columns an UPDATE of the program may name; ids and references are not
\* among them.
BrandColumns(set) ==
    /\ DOMAIN set \subseteq {"status", "official"}
    /\ "status" \in DOMAIN set => set["status"] \in {"active", "archived"}
    /\ "official" \in DOMAIN set => set["official"] \in SUBSET Domains
FindingColumns(set) ==
    /\ DOMAIN set \subseteq {"verdict", "status", "alerted"}
    /\ "verdict" \in DOMAIN set => set["verdict"] \in Verdicts
    /\ "status" \in DOMAIN set => set["status"] \in {"new"} \cup Labels
    /\ "alerted" \in DOMAIN set => set["alerted"] \in BOOLEAN
CaseColumns(set) ==
    /\ DOMAIN set \subseteq {"status", "closed_at", "assignee"}
    /\ "status" \in DOMAIN set => set["status"] \in ACTIVE \cup TERMINAL
    /\ "closed_at" \in DOMAIN set => set["closed_at"] \in BOOLEAN
    /\ "assignee" \in DOMAIN set => set["assignee"] \in Assignees \cup {NoRow}

UpdateOK(w) ==
    \/ \E b \in Ids : w.at = <<"brands", b>> /\ BrandColumns(w.set)
    \/ \E k \in FindingKeys : w.at = <<"findings", k>> /\ FindingColumns(w.set)
    \/ \E c \in Ids : w.at = <<"cases", c>> /\ CaseColumns(w.set)

DeleteOK(w) ==
    \/ \E b \in Ids : w.at = <<"brands", b>>
    \/ \E k \in FindingKeys : w.at = <<"findings", k>>

\* A case and a piece of evidence are inserted with the finding the flush
\* still finds (needs), evidence for a case that has no other finding.
BrandAdded(row) == row \in Brand
FindingAdded(k, row) == row \in BrandFinding /\ row.brand = k[1]
CaseAdded(row, needs) ==
    /\ row \in InvestigationCase
    /\ row.finding # NoRow =>
         \E n \in Ids : /\ <<"findings", row.finding, n>> \in needs
                        /\ row.snapshot = <<row.finding, n>>
                        /\ row.brand = row.finding[1]
EvidenceAdded(row, needs) ==
    /\ row \in CaseEvidence
    /\ cases[row.case] # NoRow
    /\ row.finding # NoRow =>
         /\ \E n \in Ids : <<"findings", row.finding, n>> \in needs
         /\ cases[row.case].finding \in {NoRow, row.finding}

InsertOK(w) ==
    \/ \E b \in Ids : w.at = <<"brands", b>> /\ BrandAdded(w.set)
    \/ \E k \in FindingKeys : w.at = <<"findings", k>> /\ FindingAdded(k, w.set)
    \/ \E c \in Ids : w.at = <<"cases", c>> /\ CaseAdded(w.set, w.needs)
    \/ \E e \in Ids : w.at = <<"evidence", e>> /\ EvidenceAdded(w.set, w.needs)

WriteOK(w) ==
    \/ w.how = "insert" /\ InsertOK(w)
    \/ w.how = "update" /\ UpdateOK(w)
    \/ w.how = "delete" /\ DeleteOK(w)

\* What PATCH /cases/{id} keeps while it goes on after a commit.
PatchOK(on) ==
    /\ DOMAIN on = {"case", "body", "admin"}
    /\ on.case \in Ids /\ cases[on.case] # NoRow
    /\ on.body \in Patches
    /\ on.admin \in BOOLEAN

SlotOK(x) ==
    x.phase # "idle" =>
        /\ DOMAIN x = {"phase", "op", "on", "n", "writes", "then", "overtaken"}
        /\ x.n \in Ids /\ x.overtaken \in BOOLEAN
        /\ x.then \in {"answer", "dispatch", "status", "fields", "refresh"}
        /\ \A w \in x.writes : WriteOK(w)
        /\ {x.phase, x.then} \cap {"status", "fields"} # {} => PatchOK(x.on)
        /\ {x.phase, x.then} \cap {"dispatch"} # {} => x.on \in Ids

\* A finding hangs on its brand, evidence on its case.
Attached ==
    /\ \A k \in FindingKeys : findings[k] # NoRow =>
         findings[k].brand = k[1] /\ brands[k[1]] # NoRow
    /\ \A e \in Ids : evidence[e] # NoRow => cases[evidence[e].case] # NoRow

IInv ==
    /\ TypeOK
    /\ DOMAIN db = TableNames
    /\ DOMAIN slot = Slots
    /\ Attached
    /\ CustodyKept
    /\ \A r \in Slots : SlotOK(slot[r])

-----------------------------------------------------------------------------
(***************************************************************************)
(* The rows a flush leaves, before the foreign keys are looked at.         *)
(***************************************************************************)
Allowed(ws) == (\A w \in ws : WriteOK(w)) /\ ~Raises(ws, References)

LEMMA Tabled ==
    ASSUME IInv
    PROVE  /\ DOMAIN db = {"brands", "findings", "cases", "evidence"}
           /\ db["brands"] \in [Ids -> Brand \cup {NoRow}]
           /\ db["findings"] \in [FindingKeys -> BrandFinding \cup {NoRow}]
           /\ db["cases"] \in [Ids -> InvestigationCase \cup {NoRow}]
           /\ db["evidence"] \in [Ids -> CaseEvidence \cup {NoRow}]
  BY DEF IInv, TypeOK, TableNames, brands, findings, cases, evidence

\* An UPDATE that goes through finds its row, an INSERT finds none.
LEMMA Found ==
    ASSUME NEW ws, Allowed(ws), NEW w \in ws, NEW t, NEW k, w.at = <<t, k>>
    PROVE  /\ w.how = "insert" => db[t][k] = NoRow
           /\ w.how = "update" /\ DOMAIN w.set # {} => db[t][k] # NoRow
<1>1. /\ w.how = "insert" => db[w.at[1]][w.at[2]] = NoRow
      /\ w.how = "update" /\ DOMAIN w.set # {} => ~Stale(w)
  BY DEF Allowed, Raises
<1>2. w.at[1] = t /\ w.at[2] = k
  OBVIOUS
<1>3. QED
  BY <1>1, <1>2 DEF Stale, Gone

\* What WriteOK says of a write of a given table.
LEMMA InsertOf ==
    ASSUME NEW w, WriteOK(w), w.how = "insert", NEW k
    PROVE  /\ w.at = <<"brands", k>> => BrandAdded(w.set)
           /\ w.at = <<"findings", k>> => FindingAdded(k, w.set)
           /\ w.at = <<"cases", k>> => CaseAdded(w.set, w.needs)
           /\ w.at = <<"evidence", k>> => EvidenceAdded(w.set, w.needs)
<1>1. InsertOK(w)
  BY DEF WriteOK
<1>2. PICK at, set, needs : at = w.at /\ set = w.set /\ needs = w.needs
  OBVIOUS
<1>3. \/ at[1] = "brands" /\ BrandAdded(set)
      \/ at[1] = "findings" /\ FindingAdded(at[2], set)
      \/ at[1] = "cases" /\ CaseAdded(set, needs)
      \/ at[1] = "evidence" /\ EvidenceAdded(set, needs)
  <2>1. \/ \E b \in Ids : at = <<"brands", b>> /\ BrandAdded(set)
        \/ \E j \in FindingKeys : at = <<"findings", j>> /\ FindingAdded(j, set)
        \/ \E c \in Ids : at = <<"cases", c>> /\ CaseAdded(set, needs)
        \/ \E e \in Ids : at = <<"evidence", e>> /\ EvidenceAdded(set, needs)
    BY <1>1, <1>2 DEF InsertOK
  <2>2. CASE \E b \in Ids : at = <<"brands", b>> /\ BrandAdded(set)
    BY <2>2
  <2>3. CASE \E j \in FindingKeys : at = <<"findings", j>> /\ FindingAdded(j, set)
    <3>1. PICK j \in FindingKeys : at = <<"findings", j>> /\ FindingAdded(j, set)
      BY <2>3
    <3>2. at[1] = "findings" /\ at[2] = j
      BY <3>1
    <3>3. QED
      BY <3>1, <3>2
  <2>4. CASE \E c \in Ids : at = <<"cases", c>> /\ CaseAdded(set, needs)
    BY <2>4
  <2>5. CASE \E e \in Ids : at = <<"evidence", e>> /\ EvidenceAdded(set, needs)
    BY <2>5
  <2>6. QED
    BY <2>1, <2>2, <2>3, <2>4, <2>5
<1>4. \A t : at = <<t, k>> => at[1] = t /\ at[2] = k
  OBVIOUS
<1>5. QED
  BY <1>2, <1>3, <1>4

LEMMA UpdateOf ==
    ASSUME NEW w, WriteOK(w), w.how \notin {"insert", "delete"}, NEW k
    PROVE  /\ w.how = "update"
           /\ w.at = <<"brands", k>> => BrandColumns(w.set)
           /\ w.at = <<"findings", k>> => FindingColumns(w.set)
           /\ w.at = <<"cases", k>> => CaseColumns(w.set)
           /\ w.at # <<"evidence", k>>
<1>1. w.how = "update" /\ UpdateOK(w)
  BY DEF WriteOK
<1>2. PICK at, set : at = w.at /\ set = w.set
  OBVIOUS
<1>3. \/ at[1] = "brands" /\ BrandColumns(set)
      \/ at[1] = "findings" /\ FindingColumns(set)
      \/ at[1] = "cases" /\ CaseColumns(set)
  BY <1>1, <1>2 DEF UpdateOK
<1>4. \A t : at = <<t, k>> => at[1] = t
  OBVIOUS
<1>5. QED
  BY <1>1, <1>2, <1>3, <1>4

LEMMA DeleteOf ==
    ASSUME NEW w, WriteOK(w), w.how = "delete", NEW k
    PROVE  /\ w.at # <<"cases", k>>
           /\ w.at # <<"evidence", k>>
<1>1. DeleteOK(w)
  BY DEF WriteOK
<1>2. PICK at : at = w.at
  OBVIOUS
<1>3. at[1] = "brands" \/ at[1] = "findings"
  BY <1>1, <1>2 DEF DeleteOK
<1>4. QED
  BY <1>2, <1>3

LEMMA BrandRow ==
    ASSUME IInv, NEW ws, Allowed(ws), NEW b \in Ids
    PROVE  Row("brands", b, ws) \in Brand \cup {NoRow}
<1>1. db["brands"][b] \in Brand \cup {NoRow}
  BY Tabled
<1>2. ASSUME NEW w \in ws, w.at = <<"brands", b>>, w.how = "insert"
      PROVE  w.set \in Brand
  BY <1>2, InsertOf DEF Allowed, BrandAdded
<1>3. ASSUME NEW w \in ws, w.at = <<"brands", b>>,
             w.how \notin {"insert", "delete"}, DOMAIN w.set # {}
      PROVE  Merged(db["brands"][b], w.set) \in Brand
  <2>1. w.how = "update" /\ BrandColumns(w.set)
    BY <1>3, UpdateOf DEF Allowed
  <2>2. db["brands"][b] \in Brand
    BY <1>1, <1>3, <2>1, Found
  <2>3. PICK row, set : row = db["brands"][b] /\ set = w.set
    OBVIOUS
  <2>4. Merged(row, set) \in Brand
    BY <2>1, <2>2, <2>3 DEF Merged, Brand, BrandColumns
  <2>5. QED
    BY <2>3, <2>4
<1>4. PICK old, row : old = db["brands"][b] /\ row = Row("brands", b, ws)
  OBVIOUS
<1>5. Outcome(row, old, ws, <<"brands", b>>)
  BY <1>4, RowCases
<1>6. QED
  BY <1>1, <1>2, <1>3, <1>4, <1>5 DEF Outcome

LEMMA FindingRow ==
    ASSUME IInv, NEW ws, Allowed(ws), NEW k \in FindingKeys,
           Row("findings", k, ws) # NoRow
    PROVE  /\ Row("findings", k, ws) \in BrandFinding
           /\ Row("findings", k, ws).brand = k[1]
           /\ findings[k] # NoRow => Row("findings", k, ws).id = findings[k].id
<1>1. /\ db["findings"][k] \in BrandFinding \cup {NoRow}
      /\ db["findings"][k] # NoRow => db["findings"][k].brand = k[1]
  BY Tabled DEF IInv, Attached, findings
<1>2. ASSUME NEW w \in ws, w.at = <<"findings", k>>, w.how = "insert"
      PROVE  /\ w.set \in BrandFinding /\ w.set.brand = k[1]
             /\ db["findings"][k] = NoRow
  BY <1>2, Found, InsertOf DEF Allowed, FindingAdded
<1>3. ASSUME NEW w \in ws, w.at = <<"findings", k>>,
             w.how \notin {"insert", "delete"}, DOMAIN w.set # {}
      PROVE  LET row == Merged(db["findings"][k], w.set) IN
             /\ row \in BrandFinding /\ row.brand = k[1]
             /\ row.id = db["findings"][k].id
  <2>1. w.how = "update" /\ FindingColumns(w.set)
    BY <1>3, UpdateOf DEF Allowed
  <2>2. db["findings"][k] \in BrandFinding /\ db["findings"][k].brand = k[1]
    BY <1>1, <1>3, <2>1, Found
  <2>3. PICK row, set : row = db["findings"][k] /\ set = w.set
    OBVIOUS
  <2>4. /\ Merged(row, set) \in BrandFinding
        /\ Merged(row, set).brand = row.brand /\ Merged(row, set).id = row.id
    BY <2>1, <2>2, <2>3 DEF Merged, BrandFinding, FindingColumns
  <2>5. QED
    BY <2>2, <2>3, <2>4
<1>4. PICK row : row = Row("findings", k, ws)
  OBVIOUS
<1>5. \/ row = db["findings"][k]
      \/ \E w \in ws : w.at = <<"findings", k>> /\ w.how = "insert" /\ row = w.set
      \/ \E w \in ws : /\ w.at = <<"findings", k>>
                       /\ w.how \notin {"insert", "delete"} /\ DOMAIN w.set # {}
                       /\ row = Merged(db["findings"][k], w.set)
  <2>1. PICK old : old = db["findings"][k]
    OBVIOUS
  <2>2. row # NoRow
    BY <1>4
  <2>3. \/ row = old
        \/ \E w \in ws : w.at = <<"findings", k>> /\ w.how = "insert" /\ row = w.set
        \/ row = NoRow
        \/ \E w \in ws : /\ w.at = <<"findings", k>>
                         /\ w.how \notin {"insert", "delete"} /\ DOMAIN w.set # {}
                         /\ row = Merged(old, w.set)
    <3>1. Outcome(row, old, ws, <<"findings", k>>)
      BY <1>4, <2>1, RowCases
    <3>2. QED
      BY <3>1 DEF Outcome
  <2>4. QED
    BY <2>1, <2>2, <2>3
<1>6. CASE row = db["findings"][k]
  BY <1>1, <1>4, <1>6 DEF findings
<1>7. CASE \E w \in ws : w.at = <<"findings", k>> /\ w.how = "insert" /\ row = w.set
  BY <1>2, <1>4, <1>7 DEF findings
<1>8. CASE \E w \in ws : /\ w.at = <<"findings", k>>
                         /\ w.how \notin {"insert", "delete"} /\ DOMAIN w.set # {}
                         /\ row = Merged(db["findings"][k], w.set)
  BY <1>3, <1>4, <1>8 DEF findings
<1>9. QED
  BY <1>5, <1>6, <1>7, <1>8

\* needs: the finding the row was decided on is still there.
LEMMA Needed ==
    ASSUME NEW ws, Allowed(ws), NEW w \in ws, NEW k, NEW n,
           <<"findings", k, n>> \in w.needs
    PROVE  findings[k] # NoRow /\ findings[k].id = n
<1>1. ~Gone("findings", k, n)
  <2>1. ~Dangling(w, ws, References)
    BY DEF Allowed, Raises
  <2>2. PICK m \in w.needs : m = <<"findings", k, n>>
    OBVIOUS
  <2>3. ~Gone(m[1], m[2], m[3])
    BY <2>1 DEF Dangling
  <2>4. m[1] = "findings" /\ m[2] = k /\ m[3] = n
    BY <2>2
  <2>5. QED
    BY <2>3, <2>4
<1>2. QED
  BY <1>1 DEF Gone, findings

\* A case keeps what it is about; a new one is about a finding that is there.
\* Where the row of a case comes from that a flush leaves.
LEMMA CaseFrom ==
    ASSUME NEW ws, Allowed(ws), NEW c \in Ids
    PROVE  LET row == Row("cases", c, ws) IN
           \/ row = cases[c]
           \/ \E w \in ws : w.at = <<"cases", c>> /\ w.how = "insert" /\ row = w.set
           \/ \E w \in ws : /\ w.at = <<"cases", c>> /\ w.how \notin {"insert", "delete"}
                            /\ DOMAIN w.set # {} /\ row = Merged(cases[c], w.set)
<1>1. \A w \in ws : ~(w.at = <<"cases", c>> /\ w.how = "delete")
  BY DeleteOf DEF Allowed
<1>2. PICK old : old = db["cases"][c]
  OBVIOUS
<1>3. PICK row : row = Row("cases", c, ws)
  OBVIOUS
<1>4. \/ row = old
      \/ \E w \in ws : w.at = <<"cases", c>> /\ w.how = "insert" /\ row = w.set
      \/ \E w \in ws : /\ w.at = <<"cases", c>> /\ w.how \notin {"insert", "delete"}
                       /\ DOMAIN w.set # {} /\ row = Merged(old, w.set)
  <2>1. Outcome(row, old, ws, <<"cases", c>>)
    BY <1>2, <1>3, RowCases
  <2>2. QED
    BY <1>1, <2>1 DEF Outcome
<1>5. QED
  BY <1>2, <1>3, <1>4 DEF cases

LEMMA CaseRow ==
    ASSUME IInv, NEW ws, Allowed(ws), NEW c \in Ids
    PROVE  LET row == Row("cases", c, ws) IN
           /\ row \in InvestigationCase \cup {NoRow}
           /\ cases[c] # NoRow => row # NoRow /\ row.finding = cases[c].finding
           /\ row # NoRow /\ row.finding # NoRow =>
                /\ findings[row.finding] # NoRow
                /\ row.snapshot = <<row.finding, findings[row.finding].id>>
                /\ row.brand = row.finding[1]
<1> DEFINE Custody(row) ==
             row # NoRow /\ row.finding # NoRow =>
                /\ findings[row.finding] # NoRow
                /\ row.snapshot = <<row.finding, findings[row.finding].id>>
                /\ row.brand = row.finding[1]
<1>1. cases[c] \in InvestigationCase \cup {NoRow} /\ Custody(cases[c])
  BY DEF IInv, TypeOK, CustodyKept
<1>2. ASSUME NEW w \in ws, w.at = <<"cases", c>>, w.how = "insert"
      PROVE  w.set \in InvestigationCase /\ Custody(w.set) /\ cases[c] = NoRow
  <2>1. CaseAdded(w.set, w.needs) /\ cases[c] = NoRow
    BY <1>2, Found, InsertOf DEF Allowed, cases
  <2>2. CASE w.set.finding # NoRow
    <3>1. PICK n \in Ids : /\ <<"findings", w.set.finding, n>> \in w.needs
                           /\ w.set.snapshot = <<w.set.finding, n>>
                           /\ w.set.brand = w.set.finding[1]
      BY <2>1, <2>2 DEF CaseAdded
    <3>2. findings[w.set.finding] # NoRow /\ findings[w.set.finding].id = n
      BY <3>1, Needed
    <3>3. QED
      BY <2>1, <3>1, <3>2 DEF CaseAdded
  <2>3. QED
    BY <2>1, <2>2 DEF CaseAdded
<1>3. ASSUME NEW w \in ws, w.at = <<"cases", c>>,
             w.how \notin {"insert", "delete"}, DOMAIN w.set # {}
      PROVE  LET row == Merged(cases[c], w.set) IN
             /\ row \in InvestigationCase /\ cases[c] \in InvestigationCase
             /\ row.finding = cases[c].finding
             /\ row.snapshot = cases[c].snapshot /\ row.brand = cases[c].brand
  <2>1. w.how = "update" /\ CaseColumns(w.set)
    BY <1>3, UpdateOf DEF Allowed
  <2>2. cases[c] \in InvestigationCase
    BY <1>1, <1>3, <2>1, Found DEF cases
  <2>3. PICK row, set : row = cases[c] /\ set = w.set
    OBVIOUS
  <2>4. /\ Merged(row, set) \in InvestigationCase
        /\ Merged(row, set).finding = row.finding
        /\ Merged(row, set).snapshot = row.snapshot
        /\ Merged(row, set).brand = row.brand
    BY <2>1, <2>2, <2>3 DEF Merged, InvestigationCase, CaseColumns
  <2>5. QED
    BY <2>2, <2>3, <2>4
<1>4. PICK row : row = Row("cases", c, ws)
  OBVIOUS
<1>5. \/ row = cases[c]
      \/ \E w \in ws : w.at = <<"cases", c>> /\ w.how = "insert" /\ row = w.set
      \/ \E w \in ws : /\ w.at = <<"cases", c>> /\ w.how \notin {"insert", "delete"}
                       /\ DOMAIN w.set # {} /\ row = Merged(cases[c], w.set)
  BY <1>4, CaseFrom
<1>6. CASE row = cases[c]
  BY <1>1, <1>4, <1>6
<1>7. CASE \E w \in ws : w.at = <<"cases", c>> /\ w.how = "insert" /\ row = w.set
  <2>1. row \in InvestigationCase /\ Custody(row) /\ cases[c] = NoRow
    BY <1>2, <1>7
  <2>2. QED
    BY <1>4, <2>1
<1>8. CASE \E w \in ws : /\ w.at = <<"cases", c>> /\ w.how \notin {"insert", "delete"}
                         /\ DOMAIN w.set # {} /\ row = Merged(cases[c], w.set)
  <2>1. /\ row \in InvestigationCase /\ cases[c] \in InvestigationCase
        /\ row.finding = cases[c].finding
        /\ row.snapshot = cases[c].snapshot /\ row.brand = cases[c].brand
    BY <1>3, <1>8
  <2>2. cases[c] # NoRow /\ row # NoRow
    BY <2>1, ConstantsAssumption
  <2>3. Custody(row)
    BY <1>1, <2>1, <2>2
  <2>4. QED
    BY <1>4, <2>1, <2>2, <2>3
<1>9. QED
  BY <1>5, <1>6, <1>7, <1>8

LEMMA EvidenceRow ==
    ASSUME IInv, NEW ws, Allowed(ws), NEW e \in Ids,
           Row("evidence", e, ws) # NoRow
    PROVE  LET row == Row("evidence", e, ws) IN
           /\ row \in CaseEvidence
           /\ cases[row.case] # NoRow
           /\ row.finding # NoRow =>
                /\ findings[row.finding] # NoRow
                /\ cases[row.case].finding \in {NoRow, row.finding}
<1> DEFINE Belongs(row) ==
             /\ row \in CaseEvidence
             /\ cases[row.case] # NoRow
             /\ row.finding # NoRow =>
                  /\ findings[row.finding] # NoRow
                  /\ cases[row.case].finding \in {NoRow, row.finding}
<1>1. evidence[e] # NoRow => Belongs(evidence[e])
  BY DEF IInv, TypeOK, CustodyKept, Attached
<1>2. ASSUME NEW w \in ws, w.at = <<"evidence", e>>, w.how = "insert"
      PROVE  Belongs(w.set)
  <2>1. EvidenceAdded(w.set, w.needs)
    BY <1>2, InsertOf DEF Allowed
  <2>2. w.set.finding # NoRow => findings[w.set.finding] # NoRow
    BY <2>1, Needed DEF EvidenceAdded
  <2>3. QED
    BY <2>1, <2>2 DEF EvidenceAdded
<1>3. PICK row : row = Row("evidence", e, ws)
  OBVIOUS
<1>4. \/ row = evidence[e]
      \/ \E w \in ws : w.at = <<"evidence", e>> /\ w.how = "insert" /\ row = w.set
  <2>1. Outcome(row, evidence[e], ws, <<"evidence", e>>)
    BY <1>3, RowCases DEF evidence
  <2>2. ASSUME NEW w \in ws, w.at = <<"evidence", e>>, w.how # "insert"
        PROVE  FALSE
    <3>1. WriteOK(w)
      BY DEF Allowed
    <3>2. w.how = "update" \/ w.how = "delete"
      BY <2>2, <3>1 DEF WriteOK
    <3>3. QED
      BY <2>2, <3>1, <3>2, DeleteOf, UpdateOf
  <2>3. QED
    BY <2>1, <2>2 DEF Outcome
<1>5. Belongs(row)
  BY <1>1, <1>2, <1>3, <1>4
<1>6. QED
  BY <1>3, <1>5

-----------------------------------------------------------------------------
(***************************************************************************)
(* The rows after ON DELETE CASCADE and ON DELETE SET NULL.                *)
(***************************************************************************)
\* A column that loses its row is one of the five references.
Loses(rows, t, k, how, c) ==
    \/ /\ t = "findings" /\ c = "brand" /\ how = "cascade"
       /\ Dangles(rows, t, k, c, "brands")
    \/ /\ t = "cases" /\ c = "brand" /\ how = "set null"
       /\ Dangles(rows, t, k, c, "brands")
    \/ /\ t = "cases" /\ c = "finding" /\ how = "set null"
       /\ Dangles(rows, t, k, c, "findings")
    \/ /\ t = "evidence" /\ c = "case" /\ how = "cascade"
       /\ Dangles(rows, t, k, c, "cases")
    \/ /\ t = "evidence" /\ c = "finding" /\ how = "set null"
       /\ Dangles(rows, t, k, c, "findings")

LEMMA LostOf ==
    ASSUME NEW rows, NEW t, NEW k, NEW how, NEW c
    PROVE  c \in Lost(rows, t, k, References, how) <=> Loses(rows, t, k, how, c)
<1> DEFINE Here(table, column, to, ondelete) ==
             /\ table = t /\ column = c /\ ondelete = how
             /\ Dangles(rows, t, k, c, to)
<1>1. PICK refs : refs = References
  OBVIOUS
<1>2. c \in Lost(rows, t, k, refs, how) <=>
        \E f \in refs : Here(f.table, f.column, f.to, f.ondelete)
  BY LostColumn
<1>3. (\E f \in refs : Here(f.table, f.column, f.to, f.ondelete)) <=>
        \/ Here("findings", "brand", "brands", "cascade")
        \/ Here("cases", "brand", "brands", "set null")
        \/ Here("cases", "finding", "findings", "set null")
        \/ Here("evidence", "case", "cases", "cascade")
        \/ Here("evidence", "finding", "findings", "set null")
  <2>1. PICK f1, f2, f3, f4, f5 :
          /\ f1 = [table |-> "findings", column |-> "brand", to |-> "brands",
                   ondelete |-> "cascade"]
          /\ f2 = [table |-> "cases", column |-> "brand", to |-> "brands",
                   ondelete |-> "set null"]
          /\ f3 = [table |-> "cases", column |-> "finding", to |-> "findings",
                   ondelete |-> "set null"]
          /\ f4 = [table |-> "evidence", column |-> "case", to |-> "cases",
                   ondelete |-> "cascade"]
          /\ f5 = [table |-> "evidence", column |-> "finding", to |-> "findings",
                   ondelete |-> "set null"]
    OBVIOUS
  <2>2. refs = {f1, f2, f3, f4, f5}
    BY <1>1, <2>1, Zenon DEF References
  <2> HIDE DEF Here
  <2>3. Here(f1.table, f1.column, f1.to, f1.ondelete)
          <=> Here("findings", "brand", "brands", "cascade")
    BY <2>1
  <2>4. Here(f2.table, f2.column, f2.to, f2.ondelete)
          <=> Here("cases", "brand", "brands", "set null")
    BY <2>1
  <2>5. Here(f3.table, f3.column, f3.to, f3.ondelete)
          <=> Here("cases", "finding", "findings", "set null")
    BY <2>1
  <2>6. Here(f4.table, f4.column, f4.to, f4.ondelete)
          <=> Here("evidence", "case", "cases", "cascade")
    BY <2>1
  <2>7. Here(f5.table, f5.column, f5.to, f5.ondelete)
          <=> Here("evidence", "finding", "findings", "set null")
    BY <2>1
  <2>8. QED
    BY <2>2, <2>3, <2>4, <2>5, <2>6, <2>7
<1>4. QED
  BY <1>1, <1>2, <1>3 DEF Loses

\* Table by table.
LEMMA BrandsLose ==
    ASSUME NEW rows, NEW k, NEW how
    PROVE  Lost(rows, "brands", k, References, how) = {}
<1>1. \A c : c \in Lost(rows, "brands", k, References, how) <=> Loses(rows, "brands", k, how, c)
  BY LostOf
<1>2. \A c : ~Loses(rows, "brands", k, how, c)
  BY DEF Loses
<1>3. QED
  BY <1>1, <1>2

LEMMA FindingsCascade ==
    ASSUME NEW rows, NEW k
    PROVE  Lost(rows, "findings", k, References, "cascade") # {}
             <=> Dangles(rows, "findings", k, "brand", "brands")
<1>1. \A c : c \in Lost(rows, "findings", k, References, "cascade") <=> Loses(rows, "findings", k, "cascade", c)
  BY LostOf
<1>2. \A c : Loses(rows, "findings", k, "cascade", c)
               <=> c = "brand" /\ Dangles(rows, "findings", k, "brand", "brands")
  BY DEF Loses
<1>3. QED
  BY <1>1, <1>2

LEMMA FindingsLose ==
    ASSUME NEW rows, NEW k
    PROVE  Lost(rows, "findings", k, References, "set null") = {}
<1>1. \A c : c \in Lost(rows, "findings", k, References, "set null") <=> Loses(rows, "findings", k, "set null", c)
  BY LostOf
<1>2. \A c : ~Loses(rows, "findings", k, "set null", c)
  BY DEF Loses
<1>3. QED
  BY <1>1, <1>2

LEMMA CasesCascade ==
    ASSUME NEW rows, NEW k
    PROVE  Lost(rows, "cases", k, References, "cascade") = {}
<1>1. \A c : c \in Lost(rows, "cases", k, References, "cascade") <=> Loses(rows, "cases", k, "cascade", c)
  BY LostOf
<1>2. \A c : ~Loses(rows, "cases", k, "cascade", c)
  BY DEF Loses
<1>3. QED
  BY <1>1, <1>2

LEMMA CasesLose ==
    ASSUME NEW rows, NEW k, NEW c
    PROVE  c \in Lost(rows, "cases", k, References, "set null") <=>
             \/ c = "brand" /\ Dangles(rows, "cases", k, "brand", "brands")
             \/ c = "finding" /\ Dangles(rows, "cases", k, "finding", "findings")
<1>1. c \in Lost(rows, "cases", k, References, "set null") <=> Loses(rows, "cases", k, "set null", c)
  BY LostOf
<1>2. Loses(rows, "cases", k, "set null", c) <=>
         \/ c = "brand" /\ Dangles(rows, "cases", k, "brand", "brands")
         \/ c = "finding" /\ Dangles(rows, "cases", k, "finding", "findings")
  BY DEF Loses
<1>3. QED
  BY <1>1, <1>2

LEMMA EvidenceCascade ==
    ASSUME NEW rows, NEW k
    PROVE  Lost(rows, "evidence", k, References, "cascade") # {}
             <=> Dangles(rows, "evidence", k, "case", "cases")
<1>1. \A c : c \in Lost(rows, "evidence", k, References, "cascade") <=> Loses(rows, "evidence", k, "cascade", c)
  BY LostOf
<1>2. \A c : Loses(rows, "evidence", k, "cascade", c)
               <=> c = "case" /\ Dangles(rows, "evidence", k, "case", "cases")
  BY DEF Loses
<1>3. QED
  BY <1>1, <1>2

LEMMA EvidenceLoses ==
    ASSUME NEW rows, NEW k, NEW c
    PROVE  c \in Lost(rows, "evidence", k, References, "set null") <=>
             c = "finding" /\ Dangles(rows, "evidence", k, "finding", "findings")
<1>1. c \in Lost(rows, "evidence", k, References, "set null") <=> Loses(rows, "evidence", k, "set null", c)
  BY LostOf
<1>2. Loses(rows, "evidence", k, "set null", c) <=>
         c = "finding" /\ Dangles(rows, "evidence", k, "finding", "findings")
  BY DEF Loses
<1>3. QED
  BY <1>1, <1>2

\* A flush of allowed writes, row by row.
LEMMA BrandAfter ==
    ASSUME IInv, NEW ws, Allowed(ws), NEW b \in Ids
    PROVE  /\ Kept(ws, References)["brands"][b] = Row("brands", b, ws)
           /\ Flushed(ws, References)["brands"][b] = Row("brands", b, ws)
<1>1. "brands" \in DOMAIN db /\ b \in DOMAIN db["brands"]
  BY Tabled
<1>2. PICK row, kept : /\ row = Row("brands", b, ws)
                       /\ kept = Kept(ws, References)["brands"][b]
  OBVIOUS
<1>3. row \in Brand \cup {NoRow}
  BY <1>2, BrandRow
<1>4. kept = row
  <2>1. Cascaded(kept, row, Lost(RowsOf(ws), "brands", b, References, "cascade"))
    BY <1>1, <1>2, KeptRow
  <2>2. Lost(RowsOf(ws), "brands", b, References, "cascade") = {}
    BY BrandsLose
  <2>3. QED
    BY <2>1, <2>2 DEF Cascaded
<1>5. Flushed(ws, References)["brands"][b] =
        IF kept = NoRow THEN NoRow ELSE [c \in DOMAIN kept |-> kept[c]]
  <2>1. Left(Flushed(ws, References)["brands"][b], kept,
             Lost(Kept(ws, References), "brands", b, References, "set null"))
    BY <1>1, <1>2, FlushedRow
  <2>2. Lost(Kept(ws, References), "brands", b, References, "set null") = {}
    BY BrandsLose
  <2>3. QED
    BY <2>1, <2>2 DEF Left, Nulled
<1>6. row \in Brand => row = [c \in DOMAIN row |-> row[c]]
  BY DEF Brand
<1>7. QED
  BY <1>2, <1>3, <1>4, <1>5, <1>6

LEMMA FindingAfter ==
    ASSUME IInv, NEW ws, Allowed(ws), NEW k \in FindingKeys
    PROVE  /\ Flushed(ws, References)["findings"][k] = Kept(ws, References)["findings"][k]
           /\ Flushed(ws, References)["findings"][k] # NoRow =>
                /\ Flushed(ws, References)["findings"][k] = Row("findings", k, ws)
                /\ Row("brands", k[1], ws) # NoRow
           /\ Row("brands", k[1], ws) # NoRow =>
                Flushed(ws, References)["findings"][k] = Row("findings", k, ws)
<1>1. /\ "findings" \in DOMAIN db /\ k \in DOMAIN db["findings"]
      /\ "brands" \in DOMAIN db /\ k[1] \in DOMAIN db["brands"]
  BY Tabled DEF FindingKeys
<1>2. PICK row, kept, brand : /\ row = Row("findings", k, ws)
                              /\ kept = Kept(ws, References)["findings"][k]
                              /\ brand = Row("brands", k[1], ws)
  OBVIOUS
<1>3. row # NoRow => row \in BrandFinding /\ row.brand = k[1]
  BY <1>2, FindingRow
<1>4. k[1] # NoRow
  BY ConstantsAssumption DEF FindingKeys
<1>5. kept = IF row = NoRow \/ brand = NoRow THEN NoRow ELSE row
  <2>1. /\ RowsOf(ws)["findings"][k] = row /\ RowsOf(ws)["brands"][k[1]] = brand
    BY <1>1, <1>2, TakenRow
  <2>2. row # NoRow => (Lost(RowsOf(ws), "findings", k, References, "cascade") # {}
                          <=> brand = NoRow)
    <3>1. PICK rows : rows = RowsOf(ws)
      OBVIOUS
    <3>2. Lost(rows, "findings", k, References, "cascade") # {} <=>
            Dangles(rows, "findings", k, "brand", "brands")
      BY FindingsCascade
    <3>3. rows["findings"][k] = row /\ rows["brands"][k[1]] = brand
      BY <2>1, <3>1
    <3>4. row # NoRow => (Dangles(rows, "findings", k, "brand", "brands")
                            <=> brand = NoRow)
      BY <1>3, <1>4, <3>3 DEF Dangles
    <3>5. QED
      BY <3>1, <3>2, <3>4
  <2>3. Cascaded(kept, row, Lost(RowsOf(ws), "findings", k, References, "cascade"))
    BY <1>1, <1>2, KeptRow
  <2>4. QED
    BY <2>2, <2>3 DEF Cascaded
<1>6. Flushed(ws, References)["findings"][k] =
        IF kept = NoRow THEN NoRow ELSE [c \in DOMAIN kept |-> kept[c]]
  <2>1. Left(Flushed(ws, References)["findings"][k], kept,
             Lost(Kept(ws, References), "findings", k, References, "set null"))
    BY <1>1, <1>2, FlushedRow
  <2>2. Lost(Kept(ws, References), "findings", k, References, "set null") = {}
    BY FindingsLose
  <2>3. QED
    BY <2>1, <2>2 DEF Left, Nulled
<1>7. row \in BrandFinding => row = [c \in DOMAIN row |-> row[c]]
  BY DEF BrandFinding
<1>8. Flushed(ws, References)["findings"][k] = kept
  BY <1>3, <1>5, <1>6, <1>7
<1>9. QED
  BY <1>2, <1>5, <1>8

LEMMA CaseAfter ==
    ASSUME IInv, NEW ws, Allowed(ws), NEW c \in Ids
    PROVE  LET row   == Row("cases", c, ws)
               after == Flushed(ws, References)["cases"][c]
           IN /\ Kept(ws, References)["cases"][c] = row
              /\ row = NoRow => after = NoRow
              /\ row # NoRow =>
                   /\ after \in InvestigationCase
                   /\ after.snapshot = row.snapshot
                   /\ after.status = row.status
                   /\ after.closed_at = row.closed_at
                   /\ after.finding =
                        IF row.finding = NoRow THEN NoRow
                        ELSE IF Flushed(ws, References)["findings"][row.finding] = NoRow
                        THEN NoRow ELSE row.finding
                   /\ after.brand =
                        IF row.brand = NoRow THEN NoRow
                        ELSE IF Row("brands", row.brand, ws) = NoRow
                        THEN NoRow ELSE row.brand
<1>1. /\ "cases" \in DOMAIN db /\ c \in DOMAIN db["cases"]
  BY Tabled
<1>2. PICK row, kept, lost :
          /\ row = Row("cases", c, ws)
          /\ kept = Kept(ws, References)["cases"][c]
          /\ lost = Lost(Kept(ws, References), "cases", c, References, "set null")
  OBVIOUS
<1>3. row \in InvestigationCase \cup {NoRow}
  BY <1>2, CaseRow
<1>4. kept = row
  <2>1. Cascaded(kept, row, Lost(RowsOf(ws), "cases", c, References, "cascade"))
    BY <1>1, <1>2, KeptRow
  <2>2. Lost(RowsOf(ws), "cases", c, References, "cascade") = {}
    BY CasesCascade
  <2>3. QED
    BY <2>1, <2>2 DEF Cascaded
<1>5. Flushed(ws, References)["cases"][c] =
        IF row = NoRow THEN NoRow ELSE Nulled(row, lost)
  <2>1. Left(Flushed(ws, References)["cases"][c], kept, lost)
    BY <1>1, <1>2, FlushedRow
  <2>2. QED
    BY <1>4, <2>1 DEF Left
<1>6. CASE row # NoRow
  <2>1. row \in InvestigationCase
    BY <1>3, <1>6
  <2>2. /\ row.finding \in FindingKeys \cup {NoRow}
        /\ row.brand \in Ids \cup {NoRow}
    BY <2>1 DEF InvestigationCase
  <2>3. row.finding # NoRow =>
          Kept(ws, References)["findings"][row.finding]
             = Flushed(ws, References)["findings"][row.finding]
    BY <2>2, FindingAfter
  <2>4. row.brand # NoRow =>
          Kept(ws, References)["brands"][row.brand] = Row("brands", row.brand, ws)
    BY <2>2, BrandAfter
  <2>5. /\ "finding" \in lost <=>
             /\ row.finding # NoRow
             /\ Kept(ws, References)["findings"][row.finding] = NoRow
        /\ "brand" \in lost <=>
             /\ row.brand # NoRow
             /\ Kept(ws, References)["brands"][row.brand] = NoRow
        /\ \A x : x \in lost => x \in {"finding", "brand"}
    <3>1. PICK rows : rows = Kept(ws, References)
      OBVIOUS
    <3>2. rows["cases"][c] = row
      BY <1>2, <1>4, <3>1
    <3>3. ASSUME NEW x
          PROVE  x \in lost <=>
             \/ x = "brand" /\ Dangles(rows, "cases", c, "brand", "brands")
             \/ x = "finding" /\ Dangles(rows, "cases", c, "finding", "findings")
      <4>1. lost = Lost(rows, "cases", c, References, "set null")
        BY <1>2, <3>1
      <4>2. QED
        BY <4>1, CasesLose
    <3>4. /\ Dangles(rows, "cases", c, "brand", "brands") <=>
               row.brand # NoRow /\ rows["brands"][row.brand] = NoRow
          /\ Dangles(rows, "cases", c, "finding", "findings") <=>
               row.finding # NoRow /\ rows["findings"][row.finding] = NoRow
      BY <3>2 DEF Dangles
    <3>5. QED
      BY <3>1, <3>3, <3>4
  <2>6. PICK after : /\ after = Flushed(ws, References)["cases"][c]
                     /\ after = [x \in DOMAIN row |-> IF x \in lost THEN NoRow ELSE row[x]]
    BY <1>5, <1>6 DEF Nulled
  <2>7. /\ after.finding = IF "finding" \in lost THEN NoRow ELSE row.finding
        /\ after.brand = IF "brand" \in lost THEN NoRow ELSE row.brand
        /\ after.snapshot = row.snapshot /\ after.status = row.status
        /\ after.closed_at = row.closed_at
        /\ after \in InvestigationCase
    BY <2>1, <2>5, <2>6 DEF InvestigationCase
  <2>8. QED
    BY <1>2, <1>4, <1>6, <2>3, <2>4, <2>5, <2>6, <2>7
<1>7. CASE row = NoRow
  BY <1>2, <1>4, <1>5, <1>7
<1>8. QED
  BY <1>6, <1>7

LEMMA EvidenceAfter ==
    ASSUME IInv, NEW ws, Allowed(ws), NEW e \in Ids
    PROVE  LET row   == Row("evidence", e, ws)
               after == Flushed(ws, References)["evidence"][e]
           IN /\ row = NoRow => after = NoRow
              /\ row # NoRow =>
                   /\ after \in CaseEvidence
                   /\ after.case = row.case
                   /\ after.finding =
                        IF row.finding = NoRow THEN NoRow
                        ELSE IF Flushed(ws, References)["findings"][row.finding] = NoRow
                        THEN NoRow ELSE row.finding
<1>1. /\ "evidence" \in DOMAIN db /\ e \in DOMAIN db["evidence"]
      /\ "cases" \in DOMAIN db /\ DOMAIN db["cases"] = Ids
  BY Tabled
<1>2. PICK row, kept, lost :
          /\ row = Row("evidence", e, ws)
          /\ kept = Kept(ws, References)["evidence"][e]
          /\ lost = Lost(Kept(ws, References), "evidence", e, References, "set null")
  OBVIOUS
<1>3. row # NoRow => row \in CaseEvidence /\ cases[row.case] # NoRow
  BY <1>2, EvidenceRow
<1>4. kept = row
  <2>1. CASE row # NoRow
    <3>1. row.case \in Ids
      BY <1>3, <2>1 DEF CaseEvidence
    <3>2. PICK rows : rows = RowsOf(ws)
      OBVIOUS
    <3>3. rows["evidence"][e] = row
      BY <1>1, <1>2, <3>2, TakenRow
    <3>4. rows["cases"][row.case] # NoRow
      <4>1. PICK c \in Ids : c = row.case
        BY <3>1
      <4>2. Row("cases", c, ws) # NoRow
        BY <1>3, <2>1, <4>1, CaseRow
      <4>3. rows["cases"][c] = Row("cases", c, ws)
        BY <1>1, <3>2, TakenRow
      <4>4. QED
        BY <4>1, <4>2, <4>3
    <3>5. ~Dangles(rows, "evidence", e, "case", "cases")
      BY <3>3, <3>4 DEF Dangles
    <3>6. Lost(RowsOf(ws), "evidence", e, References, "cascade") = {}
      BY <3>2, <3>5, EvidenceCascade
    <3>7. Cascaded(kept, row, Lost(RowsOf(ws), "evidence", e, References, "cascade"))
      BY <1>1, <1>2, KeptRow
    <3>8. QED
      BY <3>6, <3>7 DEF Cascaded
  <2>2. CASE row = NoRow
    <3>1. Cascaded(kept, row, Lost(RowsOf(ws), "evidence", e, References, "cascade"))
      BY <1>1, <1>2, KeptRow
    <3>2. QED
      BY <2>2, <3>1 DEF Cascaded
  <2>3. QED
    BY <2>1, <2>2
<1>5. Flushed(ws, References)["evidence"][e] =
        IF row = NoRow THEN NoRow ELSE Nulled(row, lost)
  <2>1. Left(Flushed(ws, References)["evidence"][e], kept, lost)
    BY <1>1, <1>2, FlushedRow
  <2>2. QED
    BY <1>4, <2>1 DEF Left
<1>6. CASE row # NoRow
  <2>1. row \in CaseEvidence
    BY <1>3, <1>6
  <2>2. row.finding \in FindingKeys \cup {NoRow}
    BY <2>1 DEF CaseEvidence
  <2>3. row.finding # NoRow =>
          Kept(ws, References)["findings"][row.finding]
             = Flushed(ws, References)["findings"][row.finding]
    BY <2>2, FindingAfter
  <2>4. \A x : x \in lost <=>
             /\ x = "finding" /\ row.finding # NoRow
             /\ Kept(ws, References)["findings"][row.finding] = NoRow
    <3>1. PICK rows : rows = Kept(ws, References)
      OBVIOUS
    <3>2. rows["evidence"][e] = row
      BY <1>2, <1>4, <3>1
    <3>3. ASSUME NEW x
          PROVE  x \in lost <=>
             x = "finding" /\ Dangles(rows, "evidence", e, "finding", "findings")
      <4>1. lost = Lost(rows, "evidence", e, References, "set null")
        BY <1>2, <3>1
      <4>2. QED
        BY <4>1, EvidenceLoses
    <3>4. Dangles(rows, "evidence", e, "finding", "findings") <=>
               row.finding # NoRow /\ rows["findings"][row.finding] = NoRow
      BY <3>2 DEF Dangles
    <3>5. QED
      BY <3>1, <3>3, <3>4
  <2>5. PICK after : /\ after = Flushed(ws, References)["evidence"][e]
                     /\ after = [x \in DOMAIN row |-> IF x \in lost THEN NoRow ELSE row[x]]
    BY <1>5, <1>6 DEF Nulled
  <2>6. /\ after.finding = IF "finding" \in lost THEN NoRow ELSE row.finding
        /\ after.case = row.case /\ after \in CaseEvidence
    BY <2>1, <2>4, <2>5 DEF CaseEvidence
  <2>7. QED
    BY <1>2, <1>6, <2>3, <2>4, <2>5, <2>6
<1>7. CASE row = NoRow
  BY <1>2, <1>5, <1>7
<1>8. QED
  BY <1>6, <1>7

-----------------------------------------------------------------------------
(***************************************************************************)
(* A commit.                                                               *)
(***************************************************************************)
\* No case goes, and none gets another finding than the one it has.
CasesStay ==
    \A c \in Ids : cases[c] # NoRow =>
        cases'[c] # NoRow /\ cases'[c].finding \in {NoRow, cases[c].finding}

\* So what is pending stays as it was judged.
LEMMA StillOK ==
    ASSUME CasesStay, NEW w, WriteOK(w)
    PROVE  WriteOK(w)'
<1>1. ASSUME NEW row, NEW needs, EvidenceAdded(row, needs)
      PROVE  EvidenceAdded(row, needs)'
  <2>1. row.case \in Ids /\ cases[row.case] # NoRow
    BY <1>1 DEF EvidenceAdded, CaseEvidence
  <2>2. PICK c \in Ids : c = row.case
    BY <2>1
  <2>3. cases'[c] # NoRow /\ cases'[c].finding \in {NoRow, cases[c].finding}
    BY <2>1, <2>2 DEF CasesStay
  <2>4. cases[c].finding \in {NoRow, row.finding}
          => cases'[c].finding \in {NoRow, row.finding}
    BY <2>3
  <2>5. QED
    BY <1>1, <2>2, <2>3, <2>4 DEF EvidenceAdded
<1>2. InsertOK(w) => InsertOK(w)'
  <2>1. PICK at, set, needs : at = w.at /\ set = w.set /\ needs = w.needs
    OBVIOUS
  <2>2. EvidenceAdded(w.set, w.needs) => EvidenceAdded(w.set, w.needs)'
    BY <1>1
  <2>3. QED
    BY <2>2 DEF InsertOK, BrandAdded, FindingAdded, CaseAdded
<1>3. QED
  BY <1>2 DEF WriteOK, UpdateOK, DeleteOK

LEMMA SlotStays ==
    ASSUME CasesStay, NEW x, SlotOK(x)
    PROVE  SlotOK(x)'
<1>1. PatchOK(x.on) => PatchOK(x.on)'
  BY DEF PatchOK, CasesStay
<1>2. ASSUME x.phase # "idle", NEW w \in x.writes
      PROVE  WriteOK(w)'
  BY <1>2, StillOK DEF SlotOK
<1>3. QED
  BY <1>1, <1>2 DEF SlotOK

\* The tables a flush of allowed writes leaves.
LEMMA TablesAfter ==
    ASSUME IInv, NEW ws, Allowed(ws), db' = Flushed(ws, References)
    PROVE  /\ DOMAIN db' = TableNames
           /\ brands' \in [Ids -> Brand \cup {NoRow}]
           /\ findings' \in [FindingKeys -> BrandFinding \cup {NoRow}]
           /\ cases' \in [Ids -> InvestigationCase \cup {NoRow}]
           /\ evidence' \in [Ids -> CaseEvidence \cup {NoRow}]
<1>1. DOMAIN db' = TableNames
  BY Tabled, FlushedTables DEF TableNames
<1>2. \A t \in {"brands", "findings", "cases", "evidence"} :
        db'[t] = [k \in DOMAIN db[t] |-> Flushed(ws, References)[t][k]]
  BY Tabled, FlushedTables
<1>3. db'["brands"] = [b \in Ids |-> Flushed(ws, References)["brands"][b]]
  BY <1>2, Tabled
<1>4. db'["findings"] = [k \in FindingKeys |-> Flushed(ws, References)["findings"][k]]
  BY <1>2, Tabled
<1>5. db'["cases"] = [c \in Ids |-> Flushed(ws, References)["cases"][c]]
  BY <1>2, Tabled
<1>6. db'["evidence"] = [e \in Ids |-> Flushed(ws, References)["evidence"][e]]
  BY <1>2, Tabled
<1>7. \A b \in Ids : Flushed(ws, References)["brands"][b] \in Brand \cup {NoRow}
  BY BrandAfter, BrandRow
<1>8. \A k \in FindingKeys :
        Flushed(ws, References)["findings"][k] \in BrandFinding \cup {NoRow}
  <2> TAKE k \in FindingKeys
  <2>1. PICK after, row : /\ after = Flushed(ws, References)["findings"][k]
                          /\ row = Row("findings", k, ws)
    OBVIOUS
  <2>2. after # NoRow => after = row
    BY <2>1, FindingAfter
  <2>3. row # NoRow => row \in BrandFinding
    BY <2>1, FindingRow
  <2>4. QED
    BY <2>1, <2>2, <2>3
<1>9. \A c \in Ids :
        Flushed(ws, References)["cases"][c] \in InvestigationCase \cup {NoRow}
  BY CaseAfter
<1>10. \A e \in Ids :
        Flushed(ws, References)["evidence"][e] \in CaseEvidence \cup {NoRow}
  BY EvidenceAfter
<1>11. brands' \in [Ids -> Brand \cup {NoRow}]
  BY <1>3, <1>7 DEF brands
<1>12. findings' \in [FindingKeys -> BrandFinding \cup {NoRow}]
  BY <1>4, <1>8 DEF findings
<1>13. cases' \in [Ids -> InvestigationCase \cup {NoRow}]
  BY <1>5, <1>9 DEF cases
<1>14. evidence' \in [Ids -> CaseEvidence \cup {NoRow}]
  BY <1>6, <1>10 DEF evidence
<1>15. QED
  BY <1>1, <1>11, <1>12, <1>13, <1>14

\* A flush of allowed writes leaves the cases, the references and the custody.
LEMMA CaseStays ==
    ASSUME IInv, NEW ws, Allowed(ws), db' = Flushed(ws, References)
    PROVE  CasesStay
<1>1. ASSUME NEW c \in Ids, cases[c] # NoRow
      PROVE  cases'[c] # NoRow /\ cases'[c].finding \in {NoRow, cases[c].finding}
  <2>1. PICK row, after : /\ row = Row("cases", c, ws)
                          /\ after = Flushed(ws, References)["cases"][c]
    OBVIOUS
  <2>2. row # NoRow /\ row.finding = cases[c].finding
    BY <1>1, <2>1, CaseRow
  <2>3. after \in InvestigationCase /\ after.finding \in {NoRow, row.finding}
    BY <2>1, <2>2, CaseAfter
  <2>4. after # NoRow
    BY <2>3, ConstantsAssumption
  <2>5. cases'[c] = after
    BY <2>1 DEF cases
  <2>6. QED
    BY <2>2, <2>3, <2>4, <2>5
<1>2. QED
  BY <1>1 DEF CasesStay

LEMMA AttachedAfter ==
    ASSUME IInv, NEW ws, Allowed(ws), db' = Flushed(ws, References)
    PROVE  Attached'
<1>1. ASSUME NEW k \in FindingKeys, findings'[k] # NoRow
      PROVE  findings'[k].brand = k[1] /\ brands'[k[1]] # NoRow
  <2>1. PICK row, after, b : /\ row = Row("findings", k, ws)
                             /\ after = Flushed(ws, References)["findings"][k]
                             /\ b = k[1]
    OBVIOUS
  <2>2. findings'[k] = after
    BY <2>1 DEF findings
  <2>3. b \in Ids
    BY <2>1 DEF FindingKeys
  <2>4. after = row /\ Row("brands", b, ws) # NoRow
    BY <1>1, <2>1, <2>2, FindingAfter
  <2>5. row.brand = b
    BY <1>1, <2>1, <2>2, <2>4, FindingRow
  <2>6. brands'[b] = Row("brands", b, ws)
    BY <2>3, BrandAfter DEF brands
  <2>7. QED
    BY <2>1, <2>2, <2>4, <2>5, <2>6
<1>2. ASSUME NEW e \in Ids, evidence'[e] # NoRow
      PROVE  cases'[evidence'[e].case] # NoRow
  <2>1. PICK row, after : /\ row = Row("evidence", e, ws)
                          /\ after = Flushed(ws, References)["evidence"][e]
    OBVIOUS
  <2>2. evidence'[e] = after
    BY <2>1 DEF evidence
  <2>3. row # NoRow /\ after.case = row.case
    BY <1>2, <2>1, <2>2, EvidenceAfter
  <2>4. row \in CaseEvidence /\ cases[row.case] # NoRow
    BY <2>1, <2>3, EvidenceRow
  <2>5. row.case \in Ids
    BY <2>4 DEF CaseEvidence
  <2>6. CasesStay
    BY CaseStays
  <2>7. cases'[row.case] # NoRow
    BY <2>4, <2>5, <2>6 DEF CasesStay
  <2>8. QED
    BY <2>2, <2>3, <2>7
<1>3. QED
  BY <1>1, <1>2 DEF Attached

LEMMA CustodyAfter ==
    ASSUME IInv, NEW ws, Allowed(ws), db' = Flushed(ws, References)
    PROVE  CustodyKept'
<1>1. ASSUME NEW k \in FindingKeys, findings[k] # NoRow, findings'[k] # NoRow
      PROVE  /\ findings'[k].id = findings[k].id
             /\ Row("brands", k[1], ws) # NoRow
  <2>1. PICK row, after : /\ row = Row("findings", k, ws)
                          /\ after = Flushed(ws, References)["findings"][k]
    OBVIOUS
  <2>2. findings'[k] = after
    BY <2>1 DEF findings
  <2>3. after = row /\ Row("brands", k[1], ws) # NoRow
    BY <1>1, <2>1, <2>2, FindingAfter
  <2>4. row.id = findings[k].id
    BY <1>1, <2>1, <2>2, <2>3, FindingRow
  <2>5. QED
    BY <2>2, <2>3, <2>4
<1>2. ASSUME NEW c \in Ids, cases'[c] # NoRow, cases'[c].finding # NoRow
      PROVE  /\ findings'[cases'[c].finding] # NoRow
             /\ cases'[c].snapshot =
                  <<cases'[c].finding, findings'[cases'[c].finding].id>>
             /\ cases'[c].brand = cases'[c].finding[1]
  <2>1. PICK row, after : /\ row = Row("cases", c, ws)
                          /\ after = Flushed(ws, References)["cases"][c]
    OBVIOUS
  <2>2. cases'[c] = after
    BY <2>1 DEF cases
  <2>3. /\ row # NoRow
        /\ after.snapshot = row.snapshot
        /\ after.finding = IF row.finding = NoRow THEN NoRow
                           ELSE IF Flushed(ws, References)["findings"][row.finding] = NoRow
                           THEN NoRow ELSE row.finding
        /\ after.brand = IF row.brand = NoRow THEN NoRow
                         ELSE IF Row("brands", row.brand, ws) = NoRow
                         THEN NoRow ELSE row.brand
    BY <1>2, <2>1, <2>2, CaseAfter
  <2>4. /\ row.finding # NoRow /\ after.finding = row.finding
        /\ findings'[row.finding] # NoRow
    BY <1>2, <2>2, <2>3 DEF findings
  <2>5. /\ row \in InvestigationCase
        /\ findings[row.finding] # NoRow
        /\ row.snapshot = <<row.finding, findings[row.finding].id>>
        /\ row.brand = row.finding[1]
    BY <2>1, <2>3, <2>4, CaseRow
  <2>6. row.finding \in FindingKeys
    BY <2>4, <2>5 DEF InvestigationCase
  <2>7. PICK k \in FindingKeys : k = row.finding
    BY <2>6
  <2>8. findings'[k].id = findings[k].id /\ Row("brands", k[1], ws) # NoRow
    BY <1>1, <2>4, <2>5, <2>7
  <2>9. k[1] # NoRow
    BY ConstantsAssumption DEF FindingKeys
  <2>10. after.brand = k[1]
    BY <2>3, <2>5, <2>7, <2>8, <2>9
  <2>11. QED
    BY <2>2, <2>3, <2>4, <2>5, <2>7, <2>8, <2>10
<1>3. ASSUME NEW e \in Ids, evidence'[e] # NoRow, evidence'[e].finding # NoRow
      PROVE  /\ findings'[evidence'[e].finding] # NoRow
             /\ cases'[evidence'[e].case].finding \in {NoRow, evidence'[e].finding}
  <2>1. PICK row, after : /\ row = Row("evidence", e, ws)
                          /\ after = Flushed(ws, References)["evidence"][e]
    OBVIOUS
  <2>2. evidence'[e] = after
    BY <2>1 DEF evidence
  <2>3. /\ row # NoRow /\ after.case = row.case
        /\ after.finding = IF row.finding = NoRow THEN NoRow
                           ELSE IF Flushed(ws, References)["findings"][row.finding] = NoRow
                           THEN NoRow ELSE row.finding
    BY <1>3, <2>1, <2>2, EvidenceAfter
  <2>4. /\ row.finding # NoRow /\ after.finding = row.finding
        /\ findings'[row.finding] # NoRow
    BY <1>3, <2>2, <2>3 DEF findings
  <2>5. /\ row \in CaseEvidence /\ cases[row.case] # NoRow
        /\ cases[row.case].finding \in {NoRow, row.finding}
    BY <2>1, <2>3, <2>4, EvidenceRow
  <2>6. row.case \in Ids
    BY <2>5 DEF CaseEvidence
  <2>7. CasesStay
    BY CaseStays
  <2>8. cases'[row.case].finding \in {NoRow, cases[row.case].finding}
    BY <2>5, <2>6, <2>7 DEF CasesStay
  <2>9. QED
    BY <2>2, <2>3, <2>4, <2>5, <2>8
<1>4. QED
  BY <1>2, <1>3 DEF CustodyKept

Phases == {"idle", "flush", "dispatch", "status", "fields", "saving", "refresh"}
Thens  == {"answer", "dispatch", "status", "fields", "refresh"}

LEMMA CommitOK ==
    ASSUME IInv, NEW r \in Slots, Commit(r, References), UNCHANGED <<files, mails>>
    PROVE  IInv'
<1>1. PICK ws : ws = slot[r].writes
  OBVIOUS
<1>2. Allowed(ws) /\ db' = Flushed(ws, References)
  <2>1. SlotOK(slot[r]) /\ slot[r].phase = "flush"
    BY DEF IInv, Commit
  <2>2. QED
    BY <1>1, <2>1 DEF SlotOK, Allowed, Commit
<1>3. CasesStay
  BY <1>2, CaseStays
<1>4. ASSUME NEW q \in Slots
      PROVE  SlotOK(slot[q])' /\ slot'[q].phase \in Phases
  <2>1. PICK x : x = slot[q]
    OBVIOUS
  <2>2. SlotOK(x) /\ SlotOK(x)' /\ x.phase \in Phases
    BY <1>3, <2>1, SlotStays DEF IInv, TypeOK, Phases
  <2>3. SlotOK(Idle)' /\ Idle.phase \in Phases
    BY DEF SlotOK, Idle, Phases
  <2>4. CASE slot'[q] = Idle
    BY <2>3, <2>4
  <2>5. CASE q = r /\ x.then # "answer"
    <3>1. x.phase = "flush" /\ slot'[q] = After(q)
      BY <2>1, <2>5 DEF Commit
    <3>2. PICK y : y = [x EXCEPT !.phase = x.then, !.writes = {}, !.overtaken = FALSE]
      OBVIOUS
    <3>3. slot'[q] = y
      BY <2>1, <2>5, <3>1, <3>2 DEF After
    <3>4. DOMAIN x = {"phase", "op", "on", "n", "writes", "then", "overtaken"}
      BY <2>2, <3>1 DEF SlotOK
    <3>5. /\ DOMAIN y = DOMAIN x /\ y.on = x.on /\ y.n = x.n
          /\ y.overtaken = FALSE /\ y.then = x.then
          /\ y.writes = {} /\ y.phase = x.then
      BY <3>2, <3>4
    <3>6. x.then \in Thens
      BY <2>2, <3>1 DEF SlotOK, Thens
    <3>7. SlotOK(y)' /\ y.phase \in Phases
      BY <2>2, <2>5, <3>1, <3>5, <3>6 DEF SlotOK, Thens, Phases
    <3>8. QED
      BY <3>3, <3>7
  <2>6. CASE q # r /\ Busy(q)
    <3>1. PICK late : late = (db' # db)
      OBVIOUS
    <3>2. slot'[q] = [x EXCEPT !.overtaken = @ \/ late]
      BY <2>1, <2>6, <3>1 DEF Commit
    <3>3. PICK y : y = [x EXCEPT !.overtaken = x.overtaken \/ late]
      OBVIOUS
    <3>4. /\ x.phase # "idle" /\ x.overtaken \in BOOLEAN
          /\ DOMAIN x = {"phase", "op", "on", "n", "writes", "then", "overtaken"}
      BY <2>1, <2>2, <2>6 DEF SlotOK, Busy
    <3>5. slot'[q] = y
      BY <3>2, <3>3, <3>4
    <3>6. /\ DOMAIN y = DOMAIN x /\ y.on = x.on /\ y.n = x.n
          /\ y.overtaken = (x.overtaken \/ late) /\ y.then = x.then
          /\ y.writes = x.writes /\ y.phase = x.phase
      BY <3>3, <3>4
    <3>7. y.overtaken \in BOOLEAN
      BY <3>4, <3>6
    <3>8. SlotOK(y)' /\ y.phase \in Phases
      BY <2>2, <3>4, <3>6, <3>7 DEF SlotOK
    <3>9. QED
      BY <3>5, <3>8
  <2>7. QED
    <3>1. slot'[q] = IF q = r THEN After(r)
                     ELSE IF Busy(q)
                     THEN [slot[q] EXCEPT !.overtaken = @ \/ db' # db] ELSE Idle
      BY DEF Commit
    <3>2. q = r /\ x.then = "answer" => slot'[q] = Idle
      BY <2>1, <3>1 DEF After
    <3>3. q # r /\ ~Busy(q) => slot'[q] = Idle
      BY <3>1
    <3>4. QED
      BY <2>4, <2>5, <2>6, <3>2, <3>3
<1>5. DOMAIN slot' = Slots
  BY DEF Commit
<1>6. TypeOK'
  <2>1. files' \subseteq Ids /\ mails' \subseteq FindingKeys \X Ids
    BY DEF IInv, TypeOK
  <2>2. served' \in 0..MaxRequests
    BY DEF IInv, TypeOK, Commit
  <2>3. QED
    BY <1>2, <1>4, <2>1, <2>2, TablesAfter DEF TypeOK, Phases
<1>7. QED
  BY <1>2, <1>4, <1>5, <1>6, TablesAfter, AttachedAfter, CustodyAfter DEF IInv

\* A step of one request that leaves the database alone.
LEMMA SlotStep ==
    ASSUME IInv, NEW r \in Slots, NEW y, slot' = [slot EXCEPT ![r] = y],
           SlotOK(y), y.phase \in Phases,
           UNCHANGED db, served' \in 0..MaxRequests,
           files' \subseteq Ids, mails' \subseteq FindingKeys \X Ids
    PROVE  IInv'
<1>1. CasesStay
  <2>1. cases' = cases
    BY DEF cases
  <2>2. QED
    BY <2>1 DEF CasesStay
<1>2. ASSUME NEW q \in Slots
      PROVE  SlotOK(slot[q])' /\ slot'[q].phase \in Phases
  <2>1. PICK x : x = slot[q] /\ SlotOK(x) /\ x.phase \in Phases
    BY DEF IInv, TypeOK, Phases
  <2>2. SlotOK(x)' /\ SlotOK(y)'
    BY <1>1, <2>1, SlotStays
  <2>3. slot'[q] = IF q = r THEN y ELSE x
    BY <2>1 DEF IInv
  <2>4. QED
    BY <2>1, <2>2, <2>3
<1>3. DOMAIN slot' = Slots
  BY DEF IInv
<1>4. /\ brands' = brands /\ findings' = findings /\ cases' = cases
      /\ evidence' = evidence
  BY DEF brands, findings, cases, evidence
<1>5. TypeOK'
  BY <1>2, <1>4 DEF IInv, TypeOK, Phases
<1>6. Attached' /\ CustodyKept'
  BY <1>4 DEF IInv, Attached, CustodyKept
<1>7. QED
  BY <1>2, <1>3, <1>5, <1>6 DEF IInv

LEMMA BeginOK ==
    ASSUME IInv, NEW r \in Slots,
           NEW phase \in {"flush", "saving"}, NEW op, NEW on, NEW writes,
           NEW then \in Thens, BeginAt(r, phase, op, on, writes, then),
           \A w \in writes : WriteOK(w),
           then \in {"status", "fields"} => PatchOK(on),
           then = "dispatch" => on \in Ids,
           UNCHANGED db, files' \subseteq Ids, mails' \subseteq FindingKeys \X Ids
    PROVE  IInv'
<1>1. PICK n : n = Number
  OBVIOUS
<1>2. PICK y : y = [phase |-> phase, op |-> op, on |-> on, n |-> n,
                    writes |-> writes, then |-> then, overtaken |-> FALSE]
  OBVIOUS
<1>3. slot' = [slot EXCEPT ![r] = y]
  BY <1>1, <1>2 DEF BeginAt
<1>4. n \in Ids /\ served' \in 0..MaxRequests
  BY <1>1, MaxRequestsNat DEF BeginAt, Free, Number, Ids, IInv, TypeOK
<1>5. /\ DOMAIN y = {"phase", "op", "on", "n", "writes", "then", "overtaken"}
      /\ y.phase = phase /\ y.on = on /\ y.n = n /\ y.writes = writes
      /\ y.then = then /\ y.overtaken = FALSE
  BY <1>2
<1>6. SlotOK(y) /\ y.phase \in Phases
  BY <1>4, <1>5 DEF SlotOK, Thens, Phases
<1>7. QED
  BY <1>3, <1>4, <1>6, SlotStep

-----------------------------------------------------------------------------
(***************************************************************************)
(* What the handlers write is allowed.                                     *)
(***************************************************************************)
LEMMA BrandUpdateOK ==
    ASSUME NEW b \in Ids, NEW old \in Brand, NEW new \in Brand, new.id = old.id
    PROVE  WriteOK(Update("brands", b, old, new))
<1>1. PICK w : w = Update("brands", b, old, new)
  OBVIOUS
<1>2. PICK set : set = w.set
  OBVIOUS
<1>3. /\ w.at = <<"brands", b>> /\ w.how = "update"
      /\ DOMAIN set = {c \in DOMAIN old : new[c] # old[c]}
      /\ \A c \in DOMAIN set : set[c] = new[c]
  BY <1>1, <1>2, Updated
<1>4. BrandColumns(set)
  BY <1>3 DEF BrandColumns, Brand
<1>5. WriteOK(w)
  BY <1>2, <1>3, <1>4 DEF WriteOK, UpdateOK
<1>6. QED
  BY <1>1, <1>5

LEMMA FindingUpdateOK ==
    ASSUME NEW k \in FindingKeys, NEW old \in BrandFinding,
           NEW new \in BrandFinding, new.id = old.id, new.brand = old.brand
    PROVE  WriteOK(Update("findings", k, old, new))
<1>1. PICK w : w = Update("findings", k, old, new)
  OBVIOUS
<1>2. PICK set : set = w.set
  OBVIOUS
<1>3. /\ w.at = <<"findings", k>> /\ w.how = "update"
      /\ DOMAIN set = {c \in DOMAIN old : new[c] # old[c]}
      /\ \A c \in DOMAIN set : set[c] = new[c]
  BY <1>1, <1>2, Updated
<1>4. FindingColumns(set)
  BY <1>3 DEF FindingColumns, BrandFinding
<1>5. WriteOK(w)
  BY <1>2, <1>3, <1>4 DEF WriteOK, UpdateOK
<1>6. QED
  BY <1>1, <1>5

\* The columns of a case that no request changes.
SameSubject(old, new) ==
    /\ new.id = old.id /\ new.brand = old.brand
    /\ new.finding = old.finding /\ new.snapshot = old.snapshot

LEMMA CaseUpdateOK ==
    ASSUME NEW c \in Ids, NEW old \in InvestigationCase,
           NEW new \in InvestigationCase, SameSubject(old, new)
    PROVE  WriteOK(Update("cases", c, old, new))
<1>1. PICK w : w = Update("cases", c, old, new)
  OBVIOUS
<1>2. PICK set : set = w.set
  OBVIOUS
<1>3. /\ w.at = <<"cases", c>> /\ w.how = "update"
      /\ DOMAIN set = {x \in DOMAIN old : new[x] # old[x]}
      /\ \A x \in DOMAIN set : set[x] = new[x]
  BY <1>1, <1>2, Updated
<1>4. CaseColumns(set)
  BY <1>3 DEF CaseColumns, InvestigationCase, SameSubject
<1>5. WriteOK(w)
  BY <1>2, <1>3, <1>4 DEF WriteOK, UpdateOK
<1>6. QED
  BY <1>1, <1>5

LEMMA DeletionOK ==
    ASSUME NEW row
    PROVE  /\ \A b \in Ids : WriteOK(Delete("brands", b, row))
           /\ \A k \in FindingKeys : WriteOK(Delete("findings", k, row))
<1>1. ASSUME NEW t, NEW k
      PROVE  /\ Delete(t, k, row).at = <<t, k>>
             /\ Delete(t, k, row).how = "delete"
  BY Removed
<1>2. QED
  BY <1>1 DEF WriteOK, DeleteOK

\* A write with the rows it needs is otherwise the same write.
LEMMA Needing ==
    ASSUME NEW t, NEW k, NEW old, NEW new, NEW needs
    PROVE  LET w == [Update(t, k, old, new) EXCEPT !.needs = needs] IN
           /\ w.at = <<t, k>> /\ w.how = "update"
           /\ w.set = Update(t, k, old, new).set /\ w.needs = needs
  BY DEF Update

LEMMA FlagOK ==
    ASSUME IInv, NEW ks, \A k \in ks : k \in FindingKeys /\ findings[k] # NoRow
    PROVE  /\ \A w \in Flag(ks) : WriteOK(w)
           /\ Mails(ks) \subseteq FindingKeys \X Ids
<1>1. ASSUME NEW k \in ks
      PROVE  /\ WriteOK(Update("findings", k, findings[k],
                               [findings[k] EXCEPT !.alerted = TRUE]))
             /\ <<k, findings[k].id>> \in FindingKeys \X Ids
  <2>1. PICK old : old = findings[k]
    OBVIOUS
  <2>2. k \in FindingKeys /\ old \in BrandFinding
    BY <1>1, <2>1 DEF IInv, TypeOK
  <2>3. PICK new : new = [old EXCEPT !.alerted = TRUE]
    OBVIOUS
  <2>4. new \in BrandFinding /\ new.id = old.id /\ new.brand = old.brand
    BY <2>2, <2>3 DEF BrandFinding
  <2>5. WriteOK(Update("findings", k, old, new))
    BY <2>2, <2>4, FindingUpdateOK
  <2>6. old.id \in Ids
    BY <2>2 DEF BrandFinding
  <2>7. QED
    BY <2>1, <2>2, <2>3, <2>5, <2>6
<1>2. QED
  BY <1>1 DEF Flag, Mails

LEMMA RequestOK ==
    ASSUME IInv, NEW r \in Slots, NEW op, NEW on, NEW writes,
           Request(r, op, on, writes), \A w \in writes : WriteOK(w)
    PROVE  IInv'
<1>1. /\ BeginAt(r, "flush", op, on, writes, "answer")
      /\ UNCHANGED db /\ UNCHANGED files /\ UNCHANGED mails
  BY DEF Request, Begin
<1>2. files' \subseteq Ids /\ mails' \subseteq FindingKeys \X Ids
  BY <1>1 DEF IInv, TypeOK
<1>3. "answer" \in Thens /\ "answer" \notin {"status", "fields"} /\ "answer" # "dispatch"
  BY DEF Thens
<1>4. QED
  BY <1>1, <1>2, <1>3, BeginOK

LEMMA NumberOK ==
    ASSUME IInv, NEW r, Free(r)
    PROVE  Number \in Ids
  BY MaxRequestsNat DEF Free, Number, Ids, IInv, TypeOK

LEMMA CreateBrandOK ==
    ASSUME IInv, NEW r \in Slots, NEW official \in Officials, create_brand(r, official)
    PROVE  IInv'
<1>1. PICK n, row : n = Number
                    /\ row = [id |-> n, status |-> "active", official |-> official]
  OBVIOUS
<1>2. PICK w : w = Insert("brands", n, row)
  OBVIOUS
<1>3. Request(r, "brand_create", n, {w})
  BY <1>1, <1>2 DEF create_brand
<1>4. n \in Ids
  BY <1>1, <1>3, NumberOK DEF Request, Begin, BeginAt
<1>5. row \in Brand
  BY <1>1, <1>4, ConstantsAssumption DEF Brand
<1>6. w.at = <<"brands", n>> /\ w.how = "insert" /\ w.set = row
  BY <1>2, Added
<1>7. WriteOK(w)
  BY <1>4, <1>5, <1>6 DEF WriteOK, InsertOK, BrandAdded
<1>8. QED
  BY <1>3, <1>7, RequestOK

LEMMA UpdateBrandOK ==
    ASSUME IInv, NEW r \in Slots, NEW b \in Ids, NEW official \in Officials,
           NEW clear \in BOOLEAN, update_brand(r, b, official, clear)
    PROVE  IInv'
<1>1. PICK old, new : old = brands[b] /\ new = [old EXCEPT !.official = official]
  OBVIOUS
<1>2. old \in Brand
  BY <1>1 DEF IInv, TypeOK, update_brand
<1>3. new \in Brand /\ new.id = old.id
  BY <1>1, <1>2, ConstantsAssumption DEF Brand
<1>4. PICK op, drops :
          /\ op = IF clear THEN "brand_clear" ELSE "brand_update"
          /\ drops = {Delete("findings", k, findings[k]) :
                        k \in IF clear THEN FindingsOf(b) ELSE {}}
  OBVIOUS
<1>5. Request(r, op, b, {Update("brands", b, old, new)} \cup drops)
  BY <1>1, <1>4 DEF update_brand
<1>6. WriteOK(Update("brands", b, old, new))
  BY <1>2, <1>3, BrandUpdateOK
<1>7. \A w \in drops : WriteOK(w)
  BY <1>4, DeletionOK DEF FindingsOf
<1>8. QED
  BY <1>5, <1>6, <1>7, RequestOK

LEMMA StatusBrandOK ==
    ASSUME IInv, NEW r \in Slots, NEW b \in Ids,
           archive_brand(r, b) \/ unarchive_brand(r, b)
    PROVE  IInv'
<1>1. PICK op \in {"brand_archive", "brand_unarchive"},
           status \in {"active", "archived"} :
        Request(r, op, b,
          {Update("brands", b, brands[b], [brands[b] EXCEPT !.status = status])})
  <2>1. CASE archive_brand(r, b)
    BY <2>1 DEF archive_brand
  <2>2. CASE unarchive_brand(r, b)
    BY <2>2 DEF unarchive_brand
  <2>3. QED
    BY <2>1, <2>2
<1>2. PICK old, new : old = brands[b] /\ new = [old EXCEPT !.status = status]
  OBVIOUS
<1>3. old \in Brand
  BY <1>2 DEF IInv, TypeOK, archive_brand, unarchive_brand
<1>4. new \in Brand /\ new.id = old.id
  BY <1>1, <1>2, <1>3 DEF Brand
<1>5. WriteOK(Update("brands", b, old, new))
  BY <1>3, <1>4, BrandUpdateOK
<1>6. Request(r, op, b, {Update("brands", b, old, new)})
  BY <1>1, <1>2
<1>7. QED
  BY <1>5, <1>6, RequestOK

LEMMA DeleteBrandOK ==
    ASSUME IInv, NEW r \in Slots, NEW b \in Ids, NEW force \in BOOLEAN,
           delete_brand(r, b, force)
    PROVE  IInv'
<1>1. PICK op, w : /\ op = IF force THEN "brand_delete_force" ELSE "brand_delete"
                   /\ w = Delete("brands", b, brands[b])
  OBVIOUS
<1>2. Request(r, op, b, {w})
  BY <1>1 DEF delete_brand
<1>3. WriteOK(w)
  BY <1>1, DeletionOK
<1>4. QED
  BY <1>2, <1>3, RequestOK

LEMMA Scored ==
    ASSUME NEW o
    PROVE  score_finding(o) \in Verdicts
  BY DEF score_finding, Verdicts

\* scan: a row that is there is scored again, any other is inserted.
LEMMA ScanOK ==
    ASSUME IInv, NEW r \in Slots, NEW b \in Ids,
           NEW some \in SUBSET Domains, NEW seen \in [some -> Observations],
           scan(r, b, seen)
    PROVE  IInv'
<1>1. PICK looked, verdict :
        /\ looked = {<<b, d>> : d \in {d \in DOMAIN seen \ brands[b].official :
                                          Investigated(seen[d])}}
        /\ verdict = [k \in looked |-> score_finding(seen[k[2]])]
        /\ Begin(r, "scan", b,
             {IF findings[k] = NoRow THEN Discovered(k, Number, verdict[k])
              ELSE Rescored(k, verdict[k]) : k \in looked}, "dispatch")
        /\ UNCHANGED <<db, files, mails>>
  BY DEF scan
<1>2. Number \in Ids
  BY <1>1, NumberOK DEF Begin, BeginAt
<1>3. ASSUME NEW k \in looked
      PROVE  WriteOK(IF findings[k] = NoRow THEN Discovered(k, Number, verdict[k])
                     ELSE Rescored(k, verdict[k]))
  <2>1. k \in FindingKeys
    BY <1>1, <1>3 DEF FindingKeys
  <2>2. PICK v : v = verdict[k]
    OBVIOUS
  <2>3. v \in Verdicts
    BY <1>1, <1>3, <2>2, Scored
  <2>4. CASE findings[k] = NoRow
    <3>1. PICK n, row : /\ n = Number
                        /\ row = [id |-> n, brand |-> k[1], verdict |-> v,
                                  status |-> "new", alerted |-> FALSE]
      OBVIOUS
    <3>2. row \in BrandFinding /\ row.brand = k[1]
      BY <1>2, <2>1, <2>3, <3>1 DEF BrandFinding, FindingKeys
    <3>3. PICK w : w = Insert("findings", k, row)
      OBVIOUS
    <3>4. w.at = <<"findings", k>> /\ w.how = "insert" /\ w.set = row
      BY <3>3, Added
    <3>5. WriteOK(w)
      BY <2>1, <3>2, <3>4 DEF WriteOK, InsertOK, FindingAdded
    <3>6. w = Discovered(k, Number, verdict[k])
      BY <2>2, <3>1, <3>3 DEF Discovered
    <3>7. QED
      BY <2>4, <3>5, <3>6
  <2>5. CASE findings[k] # NoRow
    <3>1. PICK old, new : old = findings[k] /\ new = [old EXCEPT !.verdict = v]
      OBVIOUS
    <3>2. old \in BrandFinding
      BY <2>1, <2>5, <3>1 DEF IInv, TypeOK
    <3>3. new \in BrandFinding /\ new.id = old.id /\ new.brand = old.brand
      BY <2>3, <3>1, <3>2 DEF BrandFinding
    <3>4. PICK u, needs : /\ u = Update("findings", k, old, new)
                          /\ needs = {<<"findings", k, old.id>>}
      OBVIOUS
    <3>5. WriteOK(u) /\ u.at = <<"findings", k>> /\ u.how = "update"
      BY <2>1, <3>2, <3>3, <3>4, FindingUpdateOK, Updated
    <3>6. PICK w : w = [Update("findings", k, old, new) EXCEPT !.needs = needs]
      OBVIOUS
    <3>7. w.at = u.at /\ w.how = u.how /\ w.set = u.set
      BY <3>4, <3>5, <3>6, Needing
    <3>8. WriteOK(w)
      BY <3>5, <3>7 DEF WriteOK, UpdateOK
    <3>9. w = Rescored(k, verdict[k])
      BY <2>2, <3>1, <3>4, <3>6 DEF Rescored
    <3>10. QED
      BY <2>5, <3>8, <3>9
  <2>6. QED
    BY <2>4, <2>5
<1>4. PICK writes : writes =
             {IF findings[k] = NoRow THEN Discovered(k, Number, verdict[k])
              ELSE Rescored(k, verdict[k]) : k \in looked}
  OBVIOUS
<1>5. \A w \in writes : WriteOK(w)
  BY <1>3, <1>4
<1>6. /\ BeginAt(r, "flush", "scan", b, writes, "dispatch")
      /\ UNCHANGED db /\ UNCHANGED files /\ UNCHANGED mails
  BY <1>1, <1>4 DEF Begin
<1>7. files' \subseteq Ids /\ mails' \subseteq FindingKeys \X Ids
  BY <1>6 DEF IInv, TypeOK
<1>8. "dispatch" \in Thens /\ "dispatch" \notin {"status", "fields"}
  BY DEF Thens
<1>9. QED
  BY <1>5, <1>6, <1>7, <1>8, BeginOK

LEMMA FindingStatusOK ==
    ASSUME IInv, NEW r \in Slots, NEW k \in FindingKeys, NEW status \in Labels,
           update_finding_status(r, k, status)
    PROVE  IInv'
<1>1. PICK old, new : old = findings[k] /\ new = [old EXCEPT !.status = status]
  OBVIOUS
<1>2. old \in BrandFinding
  BY <1>1 DEF IInv, TypeOK, update_finding_status
<1>3. new \in BrandFinding /\ new.id = old.id /\ new.brand = old.brand
  BY <1>1, <1>2 DEF BrandFinding
<1>4. WriteOK(Update("findings", k, old, new))
  BY <1>2, <1>3, FindingUpdateOK
<1>5. Request(r, "finding_status", k, {Update("findings", k, old, new)})
  BY <1>1 DEF update_finding_status
<1>6. QED
  BY <1>4, <1>5, RequestOK

LEMMA ResendOK ==
    ASSUME IInv, NEW r \in Slots, NEW k \in FindingKeys, resend_alert(r, k)
    PROVE  IInv'
<1>1. PICK writes : writes = Flag({k})
  OBVIOUS
<1>2. /\ \A w \in writes : WriteOK(w)
      /\ Mails({k}) \subseteq FindingKeys \X Ids
  BY <1>1, FlagOK DEF resend_alert
<1>3. /\ BeginAt(r, "flush", "finding_alert", k, writes, "answer")
      /\ UNCHANGED db /\ UNCHANGED files /\ mails' = mails \cup Mails({k})
  BY <1>1 DEF resend_alert, Begin, Mails
<1>4. files' \subseteq Ids /\ mails' \subseteq FindingKeys \X Ids
  BY <1>2, <1>3 DEF IInv, TypeOK
<1>5. "answer" \in Thens /\ "answer" \notin {"status", "fields"} /\ "answer" # "dispatch"
  BY DEF Thens
<1>6. QED
  BY <1>2, <1>3, <1>4, <1>5, BeginOK

LEMMA DispatchOK ==
    ASSUME IInv, NEW r \in Slots, dispatch_new_findings(r)
    PROVE  IInv'
<1>1. \A k \in ToAlert(r) : k \in FindingKeys /\ findings[k] # NoRow
  BY DEF ToAlert, Inserted, FindingsOf
<1>2. PICK x, ks : x = slot[r] /\ ks = ToAlert(r)
  OBVIOUS
<1>3. /\ \A w \in Flag(ks) : WriteOK(w)
      /\ Mails(ks) \subseteq FindingKeys \X Ids
  BY <1>1, <1>2, FlagOK
<1>4. SlotOK(x) /\ x.phase = "dispatch"
  BY <1>2 DEF IInv, dispatch_new_findings
<1>5. PICK y : y = IF ks = {} THEN Idle
                   ELSE [x EXCEPT !.phase = "flush", !.writes = Flag(ks),
                                  !.then = "answer", !.overtaken = FALSE]
  OBVIOUS
<1>6. slot' = [slot EXCEPT ![r] = y]
  BY <1>2, <1>5 DEF dispatch_new_findings, IInv
<1>7. SlotOK(y) /\ y.phase \in Phases
  <2>1. CASE ks = {}
    BY <1>5, <2>1 DEF SlotOK, Idle, Phases
  <2>2. CASE ks # {}
    <3>1. DOMAIN x = {"phase", "op", "on", "n", "writes", "then", "overtaken"}
      BY <1>4 DEF SlotOK
    <3>2. /\ DOMAIN y = DOMAIN x /\ y.phase = "flush" /\ y.n = x.n
          /\ y.writes = Flag(ks) /\ y.then = "answer" /\ y.overtaken = FALSE
      BY <1>5, <2>2, <3>1
    <3>3. QED
      BY <1>3, <1>4, <3>2 DEF SlotOK, Phases
  <2>3. QED
    BY <2>1, <2>2
<1>8. /\ UNCHANGED db /\ served' \in 0..MaxRequests
      /\ files' \subseteq Ids /\ mails' \subseteq FindingKeys \X Ids
  BY <1>2, <1>3 DEF dispatch_new_findings, IInv, TypeOK
<1>9. QED
  BY <1>6, <1>7, <1>8, SlotStep

LEMMA CreateCaseOK ==
    ASSUME IInv, NEW r \in Slots, NEW b \in Ids \cup {NoRow},
           NEW k \in FindingKeys \cup {NoRow}, NEW assignee \in Assignees \cup {NoRow},
           create_case(r, b, k, assignee)
    PROVE  IInv'
<1>1. PICK n, snapshot, needs :
        /\ n = Number
        /\ snapshot = IF k = NoRow THEN NoRow ELSE <<k, findings[k].id>>
        /\ needs = IF k = NoRow THEN {} ELSE {<<"findings", k, findings[k].id>>}
  OBVIOUS
<1>2. PICK row : row = [id |-> n, brand |-> IF k = NoRow THEN b ELSE k[1],
                        finding |-> k, snapshot |-> snapshot, status |-> "open",
                        closed_at |-> FALSE, assignee |-> assignee]
  OBVIOUS
<1>3. PICK w : w = [Insert("cases", n, row) EXCEPT !.needs = needs]
  OBVIOUS
<1>4. Request(r, "case_create", k, {w})
  BY <1>1, <1>2, <1>3 DEF create_case
<1>5. n \in Ids
  <2>1. Free(r)
    BY <1>4 DEF Request, Begin, BeginAt
  <2>2. QED
    BY <1>1, <2>1, NumberOK
<1>6. w.at = <<"cases", n>> /\ w.how = "insert" /\ w.set = row /\ w.needs = needs
  BY <1>3 DEF Insert
<1>7. k # NoRow => k \in FindingKeys /\ findings[k] # NoRow /\ k[1] \in Ids
  <2>1. k # NoRow => findings[k] # NoRow
    BY DEF create_case
  <2>2. k # NoRow => k[1] \in Ids
    BY DEF FindingKeys
  <2>3. QED
    BY <2>1, <2>2
<1>8. k # NoRow => findings[k].id \in Ids
  BY <1>7 DEF IInv, TypeOK, BrandFinding
<1>9. row \in InvestigationCase
  <2>1. snapshot \in (FindingKeys \X Ids) \cup {NoRow}
    BY <1>1, <1>7, <1>8
  <2>2. (IF k = NoRow THEN b ELSE k[1]) \in Ids \cup {NoRow}
    BY <1>7
  <2>3. "open" \in ACTIVE \cup TERMINAL
    BY DEF ACTIVE
  <2>4. QED
    BY <1>2, <1>5, <2>1, <2>2, <2>3 DEF InvestigationCase
<1>10. CaseAdded(row, needs)
  <2>1. /\ row.finding = k /\ row.snapshot = snapshot
        /\ row.brand = IF k = NoRow THEN b ELSE k[1]
    BY <1>2
  <2>2. CASE k # NoRow
    <3>1. PICK m \in Ids : m = findings[k].id
      BY <1>8, <2>2
    <3>2. /\ <<"findings", row.finding, m>> \in needs
          /\ row.snapshot = <<row.finding, m>>
          /\ row.brand = row.finding[1]
      BY <1>1, <2>1, <2>2, <3>1
    <3>3. QED
      BY <1>9, <3>2 DEF CaseAdded
  <2>3. CASE k = NoRow
    BY <1>9, <2>1, <2>3 DEF CaseAdded
  <2>4. QED
    BY <2>2, <2>3
<1>11. WriteOK(w)
  BY <1>5, <1>6, <1>10 DEF WriteOK, InsertOK
<1>12. QED
  BY <1>4, <1>11, RequestOK

\* The parts of PATCH /cases/{id}: refused, or another status or assignee.
PartOK(part, row) ==
    part # Refused =>
        /\ part.then \in {"answer", "fields", "status"}
        /\ part.row \in InvestigationCase
        /\ SameSubject(row, part.row)

LEMMA StatusPartOK ==
    ASSUME NEW row \in InvestigationCase, NEW body \in Patches, NEW admin \in BOOLEAN
    PROVE  PartOK(StatusPart(row, body, admin), row)
<1>1. body.status \in ACTIVE \cup TERMINAL \cup {Unset}
  BY ConstantsAssumption
<1>2. PartOK(FieldsPart(row), row)
  BY DEF PartOK, FieldsPart, SameSubject
<1>3. PartOK(Refused, row)
  BY DEF PartOK
<1>4. ASSUME body.status \in ACTIVE \cup TERMINAL
      PROVE  PartOK([then |-> "fields", row |-> Moved(row, body.status)], row)
  <2>1. PICK new : new = Moved(row, body.status)
    OBVIOUS
  <2>2. new \in InvestigationCase /\ SameSubject(row, new)
    BY <1>4, <2>1 DEF Moved, InvestigationCase, SameSubject
  <2>3. QED
    BY <2>1, <2>2 DEF PartOK
<1>5. CASE body.status \in {Unset, row.status}
  BY <1>2, <1>5 DEF StatusPart
<1>6. CASE body.status \notin {Unset, row.status}
  BY <1>1, <1>3, <1>4, <1>6 DEF StatusPart
<1>7. QED
  BY <1>5, <1>6

LEMMA AssignPartOK ==
    ASSUME NEW row \in InvestigationCase, NEW body \in Patches, NEW admin \in BOOLEAN
    PROVE  PartOK(AssignPart(row, body, admin), row)
<1>1. body.assignee \in Assignees \cup {NoRow, Unset}
  BY ConstantsAssumption
<1>2. PartOK(StatusPart(row, body, admin), row)
  BY StatusPartOK
<1>3. PartOK(Refused, row)
  BY DEF PartOK
<1>4. ASSUME body.assignee # Unset
      PROVE  PartOK([then |-> "status", row |-> [row EXCEPT !.assignee = body.assignee]],
                    row)
  <2>1. PICK new : new = [row EXCEPT !.assignee = body.assignee]
    OBVIOUS
  <2>2. new \in InvestigationCase /\ SameSubject(row, new)
    BY <1>1, <1>4, <2>1 DEF InvestigationCase, SameSubject
  <2>3. QED
    BY <2>1, <2>2 DEF PartOK
<1>5. QED
  BY <1>2, <1>3, <1>4 DEF AssignPart

LEMMA CaseWritesOK ==
    ASSUME IInv, NEW c \in Ids, cases[c] # NoRow, NEW part, part # Refused,
           PartOK(part, cases[c])
    PROVE  \A w \in CaseWrites(c, part.row) : WriteOK(w)
<1>1. PICK old, new : old = cases[c] /\ new = part.row
  OBVIOUS
<1>2. old \in InvestigationCase
  BY <1>1 DEF IInv, TypeOK
<1>3. new \in InvestigationCase /\ SameSubject(old, new)
  BY <1>1 DEF PartOK
<1>4. WriteOK(Update("cases", c, old, new))
  BY <1>2, <1>3, CaseUpdateOK
<1>5. QED
  BY <1>1, <1>4 DEF CaseWrites

LEMMA UpdateCaseOK ==
    ASSUME IInv, NEW r \in Slots, NEW c \in Ids, NEW body \in Patches,
           NEW admin \in BOOLEAN, update_case(r, c, body, admin)
    PROVE  IInv'
<1>1. PICK part, on : /\ part = AssignPart(cases[c], body, admin)
                      /\ on = [case |-> c, body |-> body, admin |-> admin]
  OBVIOUS
<1>2. PICK writes, then : writes = CaseWrites(c, part.row) /\ then = part.then
  OBVIOUS
<1>3. /\ cases[c] # NoRow /\ part # Refused
      /\ BeginAt(r, "flush", "case_update", on, writes, then)
      /\ UNCHANGED db /\ UNCHANGED files /\ UNCHANGED mails
  BY <1>1, <1>2 DEF update_case, Begin
<1>4. cases[c] \in InvestigationCase
  BY <1>3 DEF IInv, TypeOK
<1>5. PartOK(part, cases[c])
  BY <1>1, <1>4, AssignPartOK
<1>6. \A w \in writes : WriteOK(w)
  BY <1>2, <1>3, <1>5, CaseWritesOK
<1>7. then \in Thens /\ then # "dispatch"
  BY <1>2, <1>3, <1>5 DEF PartOK, Thens
<1>8. PatchOK(on)
  BY <1>1, <1>3 DEF PatchOK
<1>9. files' \subseteq Ids /\ mails' \subseteq FindingKeys \X Ids
  BY <1>3 DEF IInv, TypeOK
<1>10. QED
  BY <1>3, <1>6, <1>7, <1>8, <1>9, BeginOK

LEMMA UpdateContinuesOK ==
    ASSUME IInv, NEW r \in Slots, update_case_continues(r)
    PROVE  IInv'
<1>1. PICK x, on : x = slot[r] /\ on = x.on
  OBVIOUS
<1>2. PICK row : row = cases[on.case]
  OBVIOUS
<1>3. PICK part : part = IF x.phase = "status"
                         THEN StatusPart(row, on.body, on.admin) ELSE FieldsPart(row)
  OBVIOUS
<1>4. SlotOK(x) /\ x.phase \in {"status", "fields"}
  BY <1>1 DEF IInv, update_case_continues
<1>5. PatchOK(on)
  BY <1>1, <1>4 DEF SlotOK
<1>6. PICK c \in Ids : c = on.case /\ cases[c] # NoRow
  BY <1>5 DEF PatchOK
<1>7. row \in InvestigationCase
  BY <1>2, <1>6 DEF IInv, TypeOK
<1>8. PartOK(part, row)
  <2>1. PartOK(FieldsPart(row), row)
    BY <1>7 DEF PartOK, FieldsPart, SameSubject
  <2>2. PartOK(StatusPart(row, on.body, on.admin), row)
    BY <1>5, <1>7, StatusPartOK DEF PatchOK
  <2>3. QED
    BY <1>3, <2>1, <2>2
<1>9. PICK y : y = IF part = Refused THEN Idle
                   ELSE [x EXCEPT !.phase = "flush", !.then = part.then,
                                  !.writes = CaseWrites(c, part.row),
                                  !.overtaken = FALSE]
  OBVIOUS
<1>10. slot' = [slot EXCEPT ![r] = y]
  BY <1>1, <1>2, <1>3, <1>6, <1>9 DEF update_case_continues, IInv
<1>11. SlotOK(y) /\ y.phase \in Phases
  <2>1. CASE part = Refused
    BY <1>9, <2>1 DEF SlotOK, Idle, Phases
  <2>2. CASE part # Refused
    <3>1. DOMAIN x = {"phase", "op", "on", "n", "writes", "then", "overtaken"}
      BY <1>4 DEF SlotOK
    <3>2. /\ DOMAIN y = DOMAIN x /\ y.phase = "flush" /\ y.n = x.n /\ y.on = on
          /\ y.writes = CaseWrites(c, part.row) /\ y.then = part.then
          /\ y.overtaken = FALSE
      BY <1>1, <1>9, <2>2, <3>1
    <3>3. \A w \in y.writes : WriteOK(w)
      BY <1>2, <1>6, <1>8, <2>2, <3>2, CaseWritesOK
    <3>4. part.then \in {"answer", "fields", "status"}
      BY <1>8, <2>2 DEF PartOK
    <3>5. QED
      BY <1>4, <1>5, <3>2, <3>3, <3>4 DEF SlotOK, Phases
  <2>3. QED
    BY <2>1, <2>2
<1>12. /\ UNCHANGED db /\ served' \in 0..MaxRequests
       /\ files' \subseteq Ids /\ mails' \subseteq FindingKeys \X Ids
  BY DEF update_case_continues, IInv, TypeOK
<1>13. QED
  BY <1>10, <1>11, <1>12, SlotStep

LEMMA AddEvidenceOK ==
    ASSUME IInv, NEW r \in Slots, NEW c \in Ids, NEW k \in FindingKeys \cup {NoRow},
           add_evidence(r, c, k)
    PROVE  IInv'
<1>1. PICK n, needs :
        /\ n = Number
        /\ needs = IF k = NoRow THEN {} ELSE {<<"findings", k, findings[k].id>>}
  OBVIOUS
<1>2. PICK row : row = [id |-> n, case |-> c, finding |-> k]
  OBVIOUS
<1>3. PICK w : w = [Insert("evidence", n, row) EXCEPT !.needs = needs]
  OBVIOUS
<1>4. PICK writes : writes = {w}
  OBVIOUS
<1>5. /\ BeginAt(r, "saving", "evidence_add", c, writes, "refresh")
      /\ files' = files \cup {n} /\ UNCHANGED db /\ UNCHANGED mails
  BY <1>1, <1>2, <1>3, <1>4 DEF add_evidence
<1>6. n \in Ids
  <2>1. Free(r)
    BY <1>5 DEF BeginAt
  <2>2. QED
    BY <1>1, <2>1, NumberOK
<1>7. w.at = <<"evidence", n>> /\ w.how = "insert" /\ w.set = row /\ w.needs = needs
  BY <1>3 DEF Insert
<1>8. /\ cases[c] # NoRow
      /\ k # NoRow => findings[k] # NoRow /\ cases[c].finding \in {NoRow, k}
  BY DEF add_evidence, Consistent
<1>9. k # NoRow => findings[k].id \in Ids
  BY <1>8 DEF IInv, TypeOK, BrandFinding
<1>10. EvidenceAdded(row, needs)
  <2>1. row.case = c /\ row.finding = k /\ row \in CaseEvidence
    BY <1>2, <1>6 DEF CaseEvidence
  <2>2. k # NoRow => \E m \in Ids : <<"findings", row.finding, m>> \in needs
    BY <1>1, <1>9, <2>1
  <2>3. QED
    BY <1>8, <2>1, <2>2 DEF EvidenceAdded
<1>11. \A v \in writes : WriteOK(v)
  BY <1>4, <1>6, <1>7, <1>10 DEF WriteOK, InsertOK
<1>12. files' \subseteq Ids /\ mails' \subseteq FindingKeys \X Ids
  BY <1>5, <1>6 DEF IInv, TypeOK
<1>13. "refresh" \in Thens /\ "refresh" \notin {"status", "fields"} /\ "refresh" # "dispatch"
  BY DEF Thens
<1>14. QED
  BY <1>5, <1>11, <1>12, <1>13, BeginOK

\* The steps that end a request.
LEMMA EndsOK ==
    ASSUME IInv, NEW r \in Slots, slot' = [slot EXCEPT ![r] = Idle],
           UNCHANGED <<db, served, mails>>, files' \subseteq files
    PROVE  IInv'
<1>1. SlotOK(Idle) /\ Idle.phase \in Phases
  BY DEF SlotOK, Idle, Phases
<1>2. /\ served' \in 0..MaxRequests /\ files' \subseteq Ids
      /\ mails' \subseteq FindingKeys \X Ids
  BY DEF IInv, TypeOK
<1>3. QED
  BY <1>1, <1>2, SlotStep

LEMMA SaveStreamOK ==
    ASSUME IInv, NEW r \in Slots, save_stream(r)
    PROVE  IInv'
<1>1. PICK x : x = slot[r]
  OBVIOUS
<1>2. SlotOK(x) /\ x.phase = "saving"
  BY <1>1 DEF IInv, save_stream
<1>3. PICK y : y = [x EXCEPT !.phase = "flush"]
  OBVIOUS
<1>4. slot' = [slot EXCEPT ![r] = y]
  BY <1>1, <1>3 DEF save_stream, IInv
<1>5. DOMAIN x = {"phase", "op", "on", "n", "writes", "then", "overtaken"}
  BY <1>2 DEF SlotOK
<1>6. /\ DOMAIN y = DOMAIN x /\ y.on = x.on /\ y.n = x.n /\ y.then = x.then
      /\ y.writes = x.writes /\ y.overtaken = x.overtaken /\ y.phase = "flush"
  BY <1>3, <1>5
<1>7. SlotOK(y) /\ y.phase \in Phases
  BY <1>2, <1>6 DEF SlotOK, Phases
<1>8. /\ UNCHANGED db /\ served' \in 0..MaxRequests
      /\ files' \subseteq Ids /\ mails' \subseteq FindingKeys \X Ids
  BY DEF save_stream, IInv, TypeOK
<1>9. QED
  BY <1>4, <1>7, <1>8, SlotStep

LEMMA FlushFailsOK ==
    ASSUME IInv, NEW r \in Slots, FlushFails(r)
    PROVE  IInv'
<1>1. PICK x : x = slot[r]
  OBVIOUS
<1>2. SlotOK(x) /\ x.phase = "flush"
  BY <1>1 DEF IInv, FlushFails
<1>3. PICK y : y = IF x.then \in {"status", "fields"}
                   THEN [x EXCEPT !.phase = x.then, !.writes = {}] ELSE Idle
  OBVIOUS
<1>4. slot' = [slot EXCEPT ![r] = y]
  BY <1>1, <1>3 DEF FlushFails, IInv
<1>5. SlotOK(y) /\ y.phase \in Phases
  <2>1. CASE x.then \in {"status", "fields"}
    <3>1. DOMAIN x = {"phase", "op", "on", "n", "writes", "then", "overtaken"}
      BY <1>2 DEF SlotOK
    <3>2. /\ DOMAIN y = DOMAIN x /\ y.on = x.on /\ y.n = x.n /\ y.then = x.then
          /\ y.writes = {} /\ y.overtaken = x.overtaken /\ y.phase = x.then
      BY <1>3, <2>1, <3>1
    <3>3. QED
      BY <1>2, <2>1, <3>2 DEF SlotOK, Phases
  <2>2. CASE x.then \notin {"status", "fields"}
    BY <1>3, <2>2 DEF SlotOK, Idle, Phases
  <2>3. QED
    BY <2>1, <2>2
<1>6. /\ UNCHANGED db /\ served' \in 0..MaxRequests
      /\ files' \subseteq Ids /\ mails' \subseteq FindingKeys \X Ids
  BY DEF FlushFails, FilesAfterFailure, IInv, TypeOK
<1>7. QED
  BY <1>4, <1>5, <1>6, SlotStep

LEMMA DieOK ==
    ASSUME IInv, Die
    PROVE  IInv'
<1>1. /\ slot' = [r \in Slots |-> Idle]
      /\ UNCHANGED db /\ UNCHANGED served /\ UNCHANGED files /\ UNCHANGED mails
  BY DEF Die, Crash
<1>2. /\ brands' = brands /\ findings' = findings /\ cases' = cases
      /\ evidence' = evidence
  BY <1>1 DEF brands, findings, cases, evidence
<1>3. \A q \in Slots : SlotOK(slot[q])' /\ slot'[q].phase \in Phases
  BY <1>1 DEF SlotOK, Idle, Phases
<1>4. TypeOK'
  BY <1>1, <1>2, <1>3 DEF IInv, TypeOK, Phases
<1>5. Attached' /\ CustodyKept'
  BY <1>2 DEF IInv, Attached, CustodyKept
<1>6. QED
  BY <1>1, <1>3, <1>4, <1>5 DEF IInv

LEMMA InitOK ==
    ASSUME Init
    PROVE  IInv
<1>1. /\ db = Tables /\ slot = [r \in Slots |-> Idle]
      /\ served = 0 /\ files = {} /\ mails = {}
  BY DEF Init, Start
<1>2. /\ brands = [i \in Ids |-> NoRow] /\ findings = [k \in FindingKeys |-> NoRow]
      /\ cases = [i \in Ids |-> NoRow] /\ evidence = [i \in Ids |-> NoRow]
      /\ DOMAIN db = TableNames
  BY <1>1 DEF Tables, brands, findings, cases, evidence, TableNames
<1>3. \A q \in Slots : SlotOK(slot[q]) /\ slot[q].phase \in Phases
  BY <1>1 DEF SlotOK, Idle, Phases
<1>4. TypeOK
  BY <1>1, <1>2, <1>3, MaxRequestsNat DEF TypeOK, Phases
<1>5. Attached /\ CustodyKept
  BY <1>2 DEF Attached, CustodyKept
<1>6. QED
  BY <1>1, <1>2, <1>3, <1>4, <1>5 DEF IInv

LEMMA StutterOK ==
    ASSUME IInv, UNCHANGED vars
    PROVE  IInv'
<1>1. /\ UNCHANGED db /\ UNCHANGED slot /\ UNCHANGED served /\ UNCHANGED files
      /\ UNCHANGED mails
  BY DEF vars
<1>2. /\ brands' = brands /\ findings' = findings /\ cases' = cases
      /\ evidence' = evidence
  BY <1>1 DEF brands, findings, cases, evidence
<1>3. CasesStay
  BY <1>2 DEF CasesStay
<1>4. \A q \in Slots : SlotOK(slot[q])'
  <2> TAKE q \in Slots
  <2>1. PICK x : x = slot[q] /\ SlotOK(x)
    BY DEF IInv
  <2>2. SlotOK(x)'
    BY <1>3, <2>1, SlotStays
  <2>3. QED
    BY <1>1, <2>1, <2>2
<1>5. TypeOK' /\ Attached' /\ CustodyKept'
  BY <1>1, <1>2 DEF IInv, TypeOK, Attached, CustodyKept
<1>6. QED
  BY <1>1, <1>4, <1>5 DEF IInv

LEMMA BrandRequestOK ==
    ASSUME IInv, NEW r \in Slots, BrandRequest(r)
    PROVE  IInv'
<1>1. CASE \E official \in Officials : create_brand(r, official)
  BY <1>1, CreateBrandOK
<1>2. ASSUME NEW b \in Ids, NEW official \in Officials, NEW clear \in BOOLEAN,
             update_brand(r, b, official, clear)
      PROVE  IInv'
  BY <1>2, UpdateBrandOK
<1>3. ASSUME NEW b \in Ids, archive_brand(r, b) \/ unarchive_brand(r, b)
      PROVE  IInv'
  BY <1>3, StatusBrandOK
<1>4. ASSUME NEW b \in Ids, NEW force \in BOOLEAN, delete_brand(r, b, force)
      PROVE  IInv'
  BY <1>4, DeleteBrandOK
<1>5. ASSUME NEW b \in Ids, NEW some \in SUBSET Domains,
             NEW seen \in [some -> Observations], scan(r, b, seen)
      PROVE  IInv'
  BY <1>5, ScanOK
<1>6. ASSUME NEW k \in FindingKeys, NEW status \in Labels,
             update_finding_status(r, k, status)
      PROVE  IInv'
  BY <1>6, FindingStatusOK
<1>7. ASSUME NEW k \in FindingKeys, resend_alert(r, k)
      PROVE  IInv'
  BY <1>7, ResendOK
<1>8. QED
  BY <1>1, <1>2, <1>3, <1>4, <1>5, <1>6, <1>7 DEF BrandRequest

LEMMA CaseRequestOK ==
    ASSUME IInv, NEW r \in Slots, CaseRequest(r)
    PROVE  IInv'
<1>1. ASSUME NEW b \in Ids \cup {NoRow}, NEW k \in FindingKeys \cup {NoRow},
             NEW assignee \in Assignees \cup {NoRow}, create_case(r, b, k, assignee)
      PROVE  IInv'
  BY <1>1, CreateCaseOK
<1>2. ASSUME NEW c \in Ids, NEW body \in Patches, NEW admin \in BOOLEAN,
             update_case(r, c, body, admin)
      PROVE  IInv'
  BY <1>2, UpdateCaseOK
<1>3. ASSUME NEW c \in Ids, NEW k \in FindingKeys \cup {NoRow}, add_evidence(r, c, k)
      PROVE  IInv'
  BY <1>3, AddEvidenceOK
<1>4. QED
  BY <1>1, <1>2, <1>3 DEF CaseRequest

LEMMA ContinueOK ==
    ASSUME IInv, NEW r \in Slots, Continue(r)
    PROVE  IInv'
<1>1. CASE Flush(r)
  BY <1>1, CommitOK DEF Flush
<1>2. CASE FlushFails(r)
  BY <1>2, FlushFailsOK
<1>3. CASE dispatch_new_findings(r)
  BY <1>3, DispatchOK
<1>4. CASE DispatchFails(r)
  BY <1>4, EndsOK DEF DispatchFails
<1>5. CASE update_case_continues(r)
  BY <1>5, UpdateContinuesOK
<1>6. CASE save_stream(r)
  BY <1>6, SaveStreamOK
<1>7. CASE TooLarge(r)
  BY <1>7, EndsOK DEF TooLarge
<1>8. CASE DiskFails(r)
  BY <1>8, EndsOK DEF DiskFails
<1>9. CASE Refreshed(r)
  BY <1>9, EndsOK DEF Refreshed
<1>10. CASE RefreshFails(r)
  BY <1>10, EndsOK DEF RefreshFails
<1>11. QED
  BY <1>1, <1>2, <1>3, <1>4, <1>5, <1>6, <1>7, <1>8, <1>9, <1>10 DEF Continue

LEMMA NextOK ==
    ASSUME IInv, [Next]_vars
    PROVE  IInv'
<1>1. ASSUME NEW r \in Slots, BrandRequest(r) \/ CaseRequest(r) \/ Continue(r)
      PROVE  IInv'
  BY <1>1, BrandRequestOK, CaseRequestOK, ContinueOK
<1>2. CASE Die
  BY <1>2, DieOK
<1>3. CASE UNCHANGED vars
  BY <1>3, StutterOK
<1>4. QED
  BY <1>1, <1>2, <1>3 DEF Next

-----------------------------------------------------------------------------
(***************************************************************************)
(* The theorems.                                                           *)
(***************************************************************************)
\* Whatever is pending was allowed, and the tables hold together.
THEOREM Sound == Spec => []IInv
<1>1. Init => IInv
  BY InitOK
<1>2. IInv /\ [Next]_vars => IInv'
  BY NextOK
<1>3. QED
  BY <1>1, <1>2, PTL DEF Spec

\* Every table holds rows of its type, and every request is in a phase.
THEOREM TypeCorrect == Spec => []TypeOK
<1>1. IInv => TypeOK
  BY DEF IInv
<1>2. QED
  BY <1>1, Sound, PTL

\* Chain of custody: a case names the finding its snapshot was taken of or
\* none, and its evidence no other, through every deletion, archive, clear
\* and every new discovery of the same domain, for any number of requests at
\* once.
THEOREM ChainOfCustody == Spec => []CustodyKept
<1>1. IInv => CustodyKept
  BY DEF IInv
<1>2. QED
  BY <1>1, Sound, PTL

-----------------------------------------------------------------------------
(***************************************************************************)
(* What a pending write was decided on, for the properties of the steps:   *)
(* always who may write it, and, until another commit overtakes the        *)
(* transaction, what held of the rows it was decided on.                   *)
(***************************************************************************)
AskedFor(w, op, on, n) ==
    /\ w.how = "delete" =>
         \/ w.at[1] = "findings" /\ op = "brand_clear"
         \/ w.at[1] = "brands" /\ op \in {"brand_delete", "brand_delete_force"}
    /\ w.how = "update" /\ w.at[1] = "cases" =>
         op = "case_update" /\ w.at[2] = on.case
    /\ w.at[1] = "evidence" => op = "evidence_add" /\ w.at[2] = n

TimelyFor(w, op) ==
    /\ w.how = "delete" /\ op = "brand_delete" => FindingsOf(w.at[2]) = {}
    /\ w.how = "update" /\ w.at[1] = "cases" =>
         (ClosedAt(cases[w.at[2]]) => ClosedAt(Merged(cases[w.at[2]], w.set)))
    /\ w.how = "insert" /\ w.at[1] = "cases" =>
         /\ ClosedAt(w.set)
         /\ w.set.finding # NoRow => ActiveCases(w.set.finding) = {}

Asked(x) ==
    x.phase # "idle" =>
        /\ {x.phase, x.then} \cap {"status", "fields"} # {} => x.op = "case_update"
        /\ \A w \in x.writes : AskedFor(w, x.op, x.on, x.n)

Timely(x) ==
    x.phase # "idle" /\ ~x.overtaken => \A w \in x.writes : TimelyFor(w, x.op)

JInv == \A r \in Slots : Asked(slot[r]) /\ Timely(slot[r])

LEMMA TimelyStays ==
    ASSUME UNCHANGED db, NEW x, Timely(x)
    PROVE  Timely(x)'
<1>1. ASSUME NEW w, NEW op, TimelyFor(w, op)
      PROVE  TimelyFor(w, op)'
  <2>1. findings' = findings /\ cases' = cases
    BY DEF findings, cases
  <2>2. FindingsOf(w.at[2])' = FindingsOf(w.at[2])
    BY <2>1 DEF FindingsOf
  <2>3. ActiveCases(w.set.finding)' = ActiveCases(w.set.finding)
    BY <2>1 DEF ActiveCases, Active
  <2>4. QED
    BY <1>1, <2>1, <2>2, <2>3 DEF TimelyFor
<1>2. QED
  BY <1>1 DEF Timely

LEMMA SlotJ ==
    ASSUME IInv, JInv, NEW r \in Slots, NEW y, slot' = [slot EXCEPT ![r] = y],
           UNCHANGED db, Asked(y), Timely(y)
    PROVE  JInv'
<1>1. ASSUME NEW q \in Slots
      PROVE  Asked(slot[q])' /\ Timely(slot[q])'
  <2>1. PICK x : x = slot[q] /\ Asked(x) /\ Timely(x)
    BY DEF JInv
  <2>2. Timely(x)' /\ Timely(y)'
    BY <2>1, TimelyStays
  <2>3. slot'[q] = IF q = r THEN y ELSE x
    BY <2>1 DEF IInv
  <2>4. Asked(slot'[q])
    BY <2>1, <2>3
  <2>5. QED
    BY <2>1, <2>2, <2>3, <2>4 DEF Asked
<1>2. QED
  BY <1>1 DEF JInv

LEMMA BeginJ ==
    ASSUME IInv, JInv, NEW r \in Slots,
           NEW phase \in {"flush", "saving"}, NEW op, NEW on, NEW writes, NEW then,
           BeginAt(r, phase, op, on, writes, then), UNCHANGED db,
           then \in {"status", "fields"} => op = "case_update",
           \A w \in writes : AskedFor(w, op, on, Number) /\ TimelyFor(w, op)
    PROVE  JInv'
<1>1. PICK n : n = Number
  OBVIOUS
<1>2. PICK y : y = [phase |-> phase, op |-> op, on |-> on, n |-> n,
                    writes |-> writes, then |-> then, overtaken |-> FALSE]
  OBVIOUS
<1>3. slot' = [slot EXCEPT ![r] = y]
  BY <1>1, <1>2 DEF BeginAt
<1>4. /\ y.phase = phase /\ y.op = op /\ y.on = on /\ y.n = n
      /\ y.writes = writes /\ y.then = then /\ y.overtaken = FALSE
  BY <1>2
<1>5. Asked(y)
  BY <1>1, <1>4 DEF Asked
<1>6. Timely(y)
  BY <1>4 DEF Timely
<1>7. QED
  BY <1>3, <1>5, <1>6, SlotJ

LEMMA CommitJ ==
    ASSUME IInv, JInv, NEW r \in Slots, Commit(r, References)
    PROVE  JInv'
<1>1. ASSUME NEW q \in Slots
      PROVE  Asked(slot[q])' /\ Timely(slot[q])'
  <2>1. PICK x : x = slot[q]
    OBVIOUS
  <2>2. SlotOK(x) /\ Asked(x) /\ Timely(x)
    BY <2>1 DEF IInv, JInv
  <2>3. Asked(Idle) /\ Timely(Idle)'
    BY DEF Asked, Timely, Idle
  <2>4. CASE slot'[q] = Idle
    <3>1. Asked(slot'[q])
      BY <2>3, <2>4
    <3>2. QED
      BY <2>3, <2>4, <3>1 DEF Asked
  <2>5. CASE q = r /\ x.then # "answer"
    <3>1. x.phase = "flush" /\ slot'[q] = After(q)
      BY <2>1, <2>5 DEF Commit
    <3>2. PICK y : y = [x EXCEPT !.phase = x.then, !.writes = {}, !.overtaken = FALSE]
      OBVIOUS
    <3>3. slot'[q] = y
      BY <2>1, <2>5, <3>1, <3>2 DEF After
    <3>4. DOMAIN x = {"phase", "op", "on", "n", "writes", "then", "overtaken"}
      BY <2>2, <3>1 DEF SlotOK
    <3>5. /\ y.writes = {} /\ y.phase = x.then /\ y.then = x.then /\ y.op = x.op
      BY <3>2, <3>4
    <3>6. Asked(y) /\ Timely(y)'
      BY <2>2, <3>1, <3>5 DEF Asked, Timely
    <3>7. Asked(slot'[q])
      BY <3>3, <3>6
    <3>8. QED
      BY <3>3, <3>6, <3>7 DEF Asked
  <2>6. CASE q # r /\ Busy(q)
    <3>1. PICK late : late = (db' # db)
      OBVIOUS
    <3>2. slot'[q] = [x EXCEPT !.overtaken = @ \/ late]
      BY <2>1, <2>6, <3>1 DEF Commit
    <3>3. PICK y : y = [x EXCEPT !.overtaken = x.overtaken \/ late]
      OBVIOUS
    <3>4. /\ x.phase # "idle"
          /\ DOMAIN x = {"phase", "op", "on", "n", "writes", "then", "overtaken"}
      BY <2>1, <2>2, <2>6 DEF SlotOK, Busy
    <3>5. slot'[q] = y
      BY <3>2, <3>3, <3>4
    <3>6. /\ y.on = x.on /\ y.n = x.n /\ y.op = x.op
          /\ y.overtaken = (x.overtaken \/ late) /\ y.then = x.then
          /\ y.writes = x.writes /\ y.phase = x.phase
      BY <3>3, <3>4
    <3>7. Asked(y)
      BY <2>2, <3>6 DEF Asked
    <3>8. Timely(y)'
      <4>1. CASE late
        BY <3>6, <4>1 DEF Timely
      <4>2. CASE ~late
        <5>1. Timely(x)'
          BY <2>2, <3>1, <4>2, TimelyStays
        <5>2. QED
          BY <3>6, <4>2, <5>1 DEF Timely
      <4>3. QED
        BY <4>1, <4>2
    <3>9. Asked(slot'[q])
      BY <3>5, <3>7
    <3>10. QED
      BY <3>5, <3>8, <3>9 DEF Asked
  <2>7. QED
    <3>1. slot'[q] = IF q = r THEN After(r)
                     ELSE IF Busy(q)
                     THEN [slot[q] EXCEPT !.overtaken = @ \/ db' # db] ELSE Idle
      BY DEF Commit
    <3>2. q = r /\ x.then = "answer" => slot'[q] = Idle
      BY <2>1, <3>1 DEF After
    <3>3. q # r /\ ~Busy(q) => slot'[q] = Idle
      BY <3>1
    <3>4. QED
      BY <2>4, <2>5, <2>6, <3>2, <3>3
<1>2. QED
  BY <1>1 DEF JInv

\* Brands and findings are inserted and updated by anybody at any time.
Harmless(w) == w.how \in {"insert", "update"} /\ w.at[1] \in {"brands", "findings"}

LEMMA HarmlessOK ==
    ASSUME NEW w, Harmless(w), NEW op, NEW on, NEW n
    PROVE  AskedFor(w, op, on, n) /\ TimelyFor(w, op)
  BY DEF Harmless, AskedFor, TimelyFor

LEMMA HarmlessRequest ==
    ASSUME IInv, JInv, NEW r \in Slots, NEW op, NEW on, NEW writes,
           Request(r, op, on, writes), \A w \in writes : Harmless(w)
    PROVE  JInv'
<1>1. BeginAt(r, "flush", op, on, writes, "answer") /\ UNCHANGED db
  BY DEF Request, Begin
<1>2. \A w \in writes : AskedFor(w, op, on, Number) /\ TimelyFor(w, op)
  BY HarmlessOK
<1>3. "answer" \notin {"status", "fields"}
  OBVIOUS
<1>4. QED
  BY <1>1, <1>2, <1>3, BeginJ

LEMMA HarmlessUpdate ==
    ASSUME NEW t \in {"brands", "findings"}, NEW k, NEW old, NEW new
    PROVE  Harmless(Update(t, k, old, new))
<1>1. PICK w : w = Update(t, k, old, new)
  OBVIOUS
<1>2. w.at = <<t, k>> /\ w.how = "update"
  BY <1>1, Updated
<1>3. QED
  BY <1>1, <1>2 DEF Harmless

LEMMA HarmlessInsert ==
    ASSUME NEW t \in {"brands", "findings"}, NEW k, NEW row
    PROVE  Harmless(Insert(t, k, row))
<1>1. PICK w : w = Insert(t, k, row)
  OBVIOUS
<1>2. w.at = <<t, k>> /\ w.how = "insert"
  BY <1>1, Added
<1>3. QED
  BY <1>1, <1>2 DEF Harmless

LEMMA HarmlessFlag ==
    ASSUME NEW ks
    PROVE  \A w \in Flag(ks) : Harmless(w)
<1>1. \A k \in ks : Harmless(Update("findings", k, findings[k],
                                   [findings[k] EXCEPT !.alerted = TRUE]))
  BY HarmlessUpdate
<1>2. QED
  BY <1>1 DEF Flag

LEMMA UpdateBrandJ ==
    ASSUME IInv, JInv, NEW r \in Slots, NEW b \in Ids, NEW official \in Officials,
           NEW clear \in BOOLEAN, update_brand(r, b, official, clear)
    PROVE  JInv'
<1>1. PICK u, op, drops :
          /\ u = Update("brands", b, brands[b], [brands[b] EXCEPT !.official = official])
          /\ op = IF clear THEN "brand_clear" ELSE "brand_update"
          /\ drops = {Delete("findings", k, findings[k]) :
                        k \in IF clear THEN FindingsOf(b) ELSE {}}
  OBVIOUS
<1>2. PICK writes : writes = {u} \cup drops
  OBVIOUS
<1>3. BeginAt(r, "flush", op, b, writes, "answer") /\ UNCHANGED db
  BY <1>1, <1>2 DEF update_brand, Request, Begin
<1>4. AskedFor(u, op, b, Number) /\ TimelyFor(u, op)
  BY <1>1, HarmlessUpdate, HarmlessOK
<1>5. ASSUME NEW w \in drops
      PROVE  AskedFor(w, op, b, Number) /\ TimelyFor(w, op)
  <2>1. clear = TRUE /\ \E k : w = Delete("findings", k, findings[k])
    BY <1>1, <1>5
  <2>2. PICK k : w = Delete("findings", k, findings[k])
    BY <2>1
  <2>3. w.at = <<"findings", k>> /\ w.how = "delete"
    BY <2>2, Removed
  <2>4. op = "brand_clear"
    BY <1>1, <2>1
  <2>5. QED
    BY <2>3, <2>4 DEF AskedFor, TimelyFor
<1>6. "answer" \notin {"status", "fields"}
  OBVIOUS
<1>7. \A w \in writes : AskedFor(w, op, b, Number) /\ TimelyFor(w, op)
  BY <1>2, <1>4, <1>5
<1>8. QED
  BY <1>3, <1>6, <1>7, BeginJ

LEMMA DeleteBrandJ ==
    ASSUME IInv, JInv, NEW r \in Slots, NEW b \in Ids, NEW force \in BOOLEAN,
           delete_brand(r, b, force)
    PROVE  JInv'
<1>1. PICK op, w : /\ op = IF force THEN "brand_delete_force" ELSE "brand_delete"
                   /\ w = Delete("brands", b, brands[b])
  OBVIOUS
<1>2. PICK writes : writes = {w}
  OBVIOUS
<1>3. BeginAt(r, "flush", op, b, writes, "answer") /\ UNCHANGED db
  BY <1>1, <1>2 DEF delete_brand, Request, Begin
<1>4. op = "brand_delete" => FindingsOf(b) = {}
  BY <1>1 DEF delete_brand, Deletable
<1>5. w.at = <<"brands", b>> /\ w.how = "delete"
  BY <1>1, Removed
<1>6. AskedFor(w, op, b, Number) /\ TimelyFor(w, op)
  BY <1>1, <1>4, <1>5 DEF AskedFor, TimelyFor
<1>7. "answer" \notin {"status", "fields"}
  OBVIOUS
<1>8. \A v \in writes : AskedFor(v, op, b, Number) /\ TimelyFor(v, op)
  BY <1>2, <1>6
<1>9. QED
  BY <1>3, <1>7, <1>8, BeginJ

LEMMA ScanJ ==
    ASSUME IInv, JInv, NEW r \in Slots, NEW b \in Ids, NEW seen, scan(r, b, seen)
    PROVE  JInv'
<1>1. PICK looked, verdict, writes :
        /\ writes = {IF findings[k] = NoRow THEN Discovered(k, Number, verdict[k])
                     ELSE Rescored(k, verdict[k]) : k \in looked}
        /\ Begin(r, "scan", b, writes, "dispatch")
        /\ UNCHANGED <<db, files, mails>>
  BY DEF scan
<1>2. ASSUME NEW k, NEW n, NEW v
      PROVE  Harmless(Discovered(k, n, v))
  BY HarmlessInsert DEF Discovered
<1>3. ASSUME NEW k, NEW v
      PROVE  Harmless(Rescored(k, v))
  <2>1. PICK old, new, needs : /\ old = findings[k] /\ new = [findings[k] EXCEPT !.verdict = v]
                               /\ needs = {<<"findings", k, findings[k].id>>}
    OBVIOUS
  <2>2. PICK w : w = [Update("findings", k, old, new) EXCEPT !.needs = needs]
    OBVIOUS
  <2>3. w.at = <<"findings", k>> /\ w.how = "update"
    BY <2>2, Needing
  <2>4. w = Rescored(k, v)
    BY <2>1, <2>2 DEF Rescored
  <2>5. QED
    BY <2>3, <2>4 DEF Harmless
<1>4. \A w \in writes : Harmless(w)
  BY <1>1, <1>2, <1>3
<1>5. \A w \in writes : AskedFor(w, "scan", b, Number) /\ TimelyFor(w, "scan")
  BY <1>4, HarmlessOK
<1>6. BeginAt(r, "flush", "scan", b, writes, "dispatch") /\ UNCHANGED db
  BY <1>1 DEF Begin
<1>7. "dispatch" \notin {"status", "fields"}
  OBVIOUS
<1>8. QED
  BY <1>5, <1>6, <1>7, BeginJ

LEMMA CreateCaseJ ==
    ASSUME IInv, JInv, NEW r \in Slots, NEW b, NEW k, NEW assignee,
           create_case(r, b, k, assignee)
    PROVE  JInv'
<1>1. PICK n, snapshot, needs :
        /\ n = Number
        /\ snapshot = IF k = NoRow THEN NoRow ELSE <<k, findings[k].id>>
        /\ needs = IF k = NoRow THEN {} ELSE {<<"findings", k, findings[k].id>>}
  OBVIOUS
<1>2. PICK row : row = [id |-> n, brand |-> IF k = NoRow THEN b ELSE k[1],
                        finding |-> k, snapshot |-> snapshot, status |-> "open",
                        closed_at |-> FALSE, assignee |-> assignee]
  OBVIOUS
<1>3. PICK w : w = [Insert("cases", n, row) EXCEPT !.needs = needs]
  OBVIOUS
<1>4. Request(r, "case_create", k, {w})
  BY <1>1, <1>2, <1>3 DEF create_case
<1>5. PICK writes : writes = {w}
  OBVIOUS
<1>6. BeginAt(r, "flush", "case_create", k, writes, "answer") /\ UNCHANGED db
  BY <1>4, <1>5 DEF Request, Begin
<1>7. w.at = <<"cases", n>> /\ w.how = "insert" /\ w.set = row
  BY <1>3 DEF Insert
<1>8. k # NoRow => ActiveCases(k) = {}
  BY DEF create_case, Existing
<1>9. ClosedAt(row) /\ row.finding = k
  BY <1>2 DEF ClosedAt, TERMINAL
<1>10. AskedFor(w, "case_create", k, Number) /\ TimelyFor(w, "case_create")
  BY <1>7, <1>8, <1>9 DEF AskedFor, TimelyFor
<1>11. "answer" \notin {"status", "fields"}
  OBVIOUS
<1>12. \A v \in writes : AskedFor(v, "case_create", k, Number) /\ TimelyFor(v, "case_create")
  BY <1>5, <1>10
<1>13. QED
  BY <1>6, <1>11, <1>12, BeginJ

\* No part of PATCH /cases/{id} tears the status from closed_at.
LEMMA StatusPartCloses ==
    ASSUME NEW row \in InvestigationCase, ClosedAt(row), NEW body, NEW admin,
           StatusPart(row, body, admin) # Refused
    PROVE  ClosedAt(StatusPart(row, body, admin).row)
<1>1. PICK status, closed : status = row.status /\ closed = row.closed_at
  OBVIOUS
<1>2. /\ closed \in BOOLEAN
      /\ row # NoRow => (closed <=> status \in TERMINAL)
  BY <1>1 DEF InvestigationCase, ClosedAt
<1>3. row # NoRow
  BY ConstantsAssumption
<1>4. ClosedAt(FieldsPart(row).row)
  BY DEF FieldsPart
<1>5. ClosedAt(Moved(row, body.status))
  <2>1. PICK to : to = body.status
    OBVIOUS
  <2>2. PICK closing : closing = (\/ to \in TERMINAL
                                  \/ status \notin TERMINAL /\ closed)
    OBVIOUS
  <2>3. PICK new : new = [row EXCEPT !.status = to, !.closed_at = closing]
    OBVIOUS
  <2>4. new.status = to /\ new.closed_at = closing
    BY <2>3 DEF InvestigationCase
  <2>5. new.closed_at <=> new.status \in TERMINAL
    BY <1>2, <1>3, <2>2, <2>4
  <2>6. new = Moved(row, to)
    BY <1>1, <2>2, <2>3 DEF Moved, InvestigationCase
  <2>7. QED
    BY <2>1, <2>5, <2>6 DEF ClosedAt
<1>6. QED
  BY <1>4, <1>5 DEF StatusPart

LEMMA AssignPartCloses ==
    ASSUME NEW row \in InvestigationCase, ClosedAt(row), NEW body, NEW admin,
           AssignPart(row, body, admin) # Refused
    PROVE  ClosedAt(AssignPart(row, body, admin).row)
<1>1. StatusPart(row, body, admin) # Refused => ClosedAt(StatusPart(row, body, admin).row)
  BY StatusPartCloses
<1>2. ClosedAt([row EXCEPT !.assignee = body.assignee])
  <2>1. PICK new : new = [row EXCEPT !.assignee = body.assignee]
    OBVIOUS
  <2>2. new.status = row.status /\ new.closed_at = row.closed_at
    BY <2>1 DEF InvestigationCase
  <2>3. row # NoRow
    BY ConstantsAssumption
  <2>4. QED
    BY <2>1, <2>2, <2>3 DEF ClosedAt
<1>3. QED
  BY <1>1, <1>2 DEF AssignPart

LEMMA CaseWritesJ ==
    ASSUME IInv, NEW c \in Ids, cases[c] # NoRow, NEW new \in InvestigationCase,
           ClosedAt(cases[c]) => ClosedAt(new), NEW on, on.case = c, NEW n
    PROVE  \A w \in CaseWrites(c, new) :
             AskedFor(w, "case_update", on, n) /\ TimelyFor(w, "case_update")
<1>1. PICK old : old = cases[c]
  OBVIOUS
<1>2. old \in InvestigationCase
  BY <1>1 DEF IInv, TypeOK
<1>3. PICK w : w = Update("cases", c, old, new)
  OBVIOUS
<1>4. w.at = <<"cases", c>> /\ w.how = "update"
  BY <1>3, Updated
<1>5. Merged(old, w.set) = new
  <2>1. DOMAIN new = DOMAIN old /\ new = [x \in DOMAIN new |-> new[x]]
    BY <1>2 DEF InvestigationCase
  <2>2. Merged(old, Update("cases", c, old, new).set) = [x \in DOMAIN old |-> new[x]]
    BY <2>1, UpdatedRow
  <2>3. QED
    BY <1>3, <2>1, <2>2
<1>6. AskedFor(w, "case_update", on, n)
  BY <1>4 DEF AskedFor
<1>7. TimelyFor(w, "case_update")
  BY <1>1, <1>4, <1>5 DEF TimelyFor
<1>8. CaseWrites(c, new) = {w}
  BY <1>1, <1>3 DEF CaseWrites
<1>9. QED
  BY <1>6, <1>7, <1>8

LEMMA UpdateCaseJ ==
    ASSUME IInv, JInv, NEW r \in Slots, NEW c \in Ids, NEW body \in Patches,
           NEW admin \in BOOLEAN, update_case(r, c, body, admin)
    PROVE  JInv'
<1>1. PICK part, on : /\ part = AssignPart(cases[c], body, admin)
                      /\ on = [case |-> c, body |-> body, admin |-> admin]
  OBVIOUS
<1>2. PICK writes, then : writes = CaseWrites(c, part.row) /\ then = part.then
  OBVIOUS
<1>3. /\ cases[c] # NoRow /\ part # Refused
      /\ BeginAt(r, "flush", "case_update", on, writes, then) /\ UNCHANGED db
  BY <1>1, <1>2 DEF update_case, Begin
<1>4. cases[c] \in InvestigationCase
  BY <1>3 DEF IInv, TypeOK
<1>5. part.row \in InvestigationCase
  BY <1>1, <1>3, <1>4, AssignPartOK DEF PartOK
<1>6. ClosedAt(cases[c]) => ClosedAt(part.row)
  BY <1>1, <1>3, <1>4, AssignPartCloses
<1>7. on.case = c
  BY <1>1
<1>8. \A w \in writes :
        AskedFor(w, "case_update", on, Number) /\ TimelyFor(w, "case_update")
  BY <1>2, <1>3, <1>5, <1>6, <1>7, CaseWritesJ
<1>9. QED
  BY <1>3, <1>8, BeginJ

LEMMA UpdateContinuesJ ==
    ASSUME IInv, JInv, NEW r \in Slots, update_case_continues(r)
    PROVE  JInv'
<1>1. PICK x, on : x = slot[r] /\ on = x.on
  OBVIOUS
<1>2. PICK row : row = cases[on.case]
  OBVIOUS
<1>3. PICK part : part = IF x.phase = "status"
                         THEN StatusPart(row, on.body, on.admin) ELSE FieldsPart(row)
  OBVIOUS
<1>4. SlotOK(x) /\ Asked(x) /\ x.phase \in {"status", "fields"}
  BY <1>1 DEF IInv, JInv, update_case_continues
<1>5. PatchOK(on) /\ x.op = "case_update"
  BY <1>1, <1>4 DEF SlotOK, Asked
<1>6. PICK c \in Ids : c = on.case /\ cases[c] # NoRow
  BY <1>5 DEF PatchOK
<1>7. row \in InvestigationCase
  BY <1>2, <1>6 DEF IInv, TypeOK
<1>8. part # Refused =>
        part.row \in InvestigationCase /\ (ClosedAt(row) => ClosedAt(part.row))
  <2>1. CASE x.phase = "status"
    <3>1. part = StatusPart(row, on.body, on.admin)
      BY <1>3, <2>1
    <3>2. PartOK(part, row)
      BY <1>5, <1>7, <3>1, StatusPartOK DEF PatchOK
    <3>3. part # Refused /\ ClosedAt(row) => ClosedAt(part.row)
      BY <1>7, <3>1, StatusPartCloses
    <3>4. QED
      BY <3>2, <3>3 DEF PartOK
  <2>2. CASE x.phase # "status"
    BY <1>3, <1>7, <2>2 DEF FieldsPart
  <2>3. QED
    BY <2>1, <2>2
<1>9. PICK y : y = IF part = Refused THEN Idle
                   ELSE [x EXCEPT !.phase = "flush", !.then = part.then,
                                  !.writes = CaseWrites(c, part.row),
                                  !.overtaken = FALSE]
  OBVIOUS
<1>10. slot' = [slot EXCEPT ![r] = y] /\ UNCHANGED db
  BY <1>1, <1>2, <1>3, <1>6, <1>9 DEF update_case_continues, IInv
<1>11. Asked(y) /\ Timely(y)
  <2>1. CASE part = Refused
    BY <1>9, <2>1 DEF Asked, Timely, Idle
  <2>2. CASE part # Refused
    <3>1. DOMAIN x = {"phase", "op", "on", "n", "writes", "then", "overtaken"}
      BY <1>4 DEF SlotOK
    <3>2. /\ y.op = x.op /\ y.on = on /\ y.n = x.n
          /\ y.writes = CaseWrites(c, part.row)
      BY <1>1, <1>9, <2>2, <3>1
    <3>3. \A w \in y.writes :
            AskedFor(w, "case_update", on, x.n) /\ TimelyFor(w, "case_update")
      BY <1>2, <1>6, <1>8, <2>2, <3>2, CaseWritesJ
    <3>4. QED
      BY <1>5, <3>2, <3>3 DEF Asked, Timely
  <2>3. QED
    BY <2>1, <2>2
<1>12. QED
  BY <1>10, <1>11, SlotJ

LEMMA AddEvidenceJ ==
    ASSUME IInv, JInv, NEW r \in Slots, NEW c, NEW k, add_evidence(r, c, k)
    PROVE  JInv'
<1>1. PICK n, needs :
        /\ n = Number
        /\ needs = IF k = NoRow THEN {} ELSE {<<"findings", k, findings[k].id>>}
  OBVIOUS
<1>2. PICK row : row = [id |-> n, case |-> c, finding |-> k]
  OBVIOUS
<1>3. PICK w : w = [Insert("evidence", n, row) EXCEPT !.needs = needs]
  OBVIOUS
<1>4. PICK writes : writes = {w}
  OBVIOUS
<1>5. BeginAt(r, "saving", "evidence_add", c, writes, "refresh") /\ UNCHANGED db
  BY <1>1, <1>2, <1>3, <1>4 DEF add_evidence
<1>6. w.at = <<"evidence", n>> /\ w.how = "insert"
  BY <1>3 DEF Insert
<1>7. AskedFor(w, "evidence_add", c, Number) /\ TimelyFor(w, "evidence_add")
  BY <1>1, <1>6 DEF AskedFor, TimelyFor
<1>8. "refresh" \notin {"status", "fields"}
  OBVIOUS
<1>9. \A v \in writes :
        AskedFor(v, "evidence_add", c, Number) /\ TimelyFor(v, "evidence_add")
  BY <1>4, <1>7
<1>10. QED
  BY <1>5, <1>8, <1>9, BeginJ

LEMMA DispatchJ ==
    ASSUME IInv, JInv, NEW r \in Slots, dispatch_new_findings(r)
    PROVE  JInv'
<1>1. PICK x, ks : x = slot[r] /\ ks = ToAlert(r)
  OBVIOUS
<1>2. SlotOK(x) /\ x.phase = "dispatch"
  BY <1>1 DEF IInv, dispatch_new_findings
<1>3. PICK y : y = IF ks = {} THEN Idle
                   ELSE [x EXCEPT !.phase = "flush", !.writes = Flag(ks),
                                  !.then = "answer", !.overtaken = FALSE]
  OBVIOUS
<1>4. slot' = [slot EXCEPT ![r] = y] /\ UNCHANGED db
  BY <1>1, <1>3 DEF dispatch_new_findings, IInv
<1>5. Asked(y) /\ Timely(y)
  <2>1. CASE ks = {}
    BY <1>3, <2>1 DEF Asked, Timely, Idle
  <2>2. CASE ks # {}
    <3>1. DOMAIN x = {"phase", "op", "on", "n", "writes", "then", "overtaken"}
      BY <1>2 DEF SlotOK
    <3>2. y.phase = "flush" /\ y.writes = Flag(ks) /\ y.then = "answer"
      BY <1>3, <2>2, <3>1
    <3>3. \A w \in y.writes : Harmless(w)
      BY <3>2, HarmlessFlag
    <3>4. \A w \in y.writes : AskedFor(w, y.op, y.on, y.n) /\ TimelyFor(w, y.op)
      BY <3>3, HarmlessOK
    <3>5. QED
      BY <3>2, <3>4 DEF Asked, Timely
  <2>3. QED
    BY <2>1, <2>2
<1>6. QED
  BY <1>4, <1>5, SlotJ

LEMMA SaveStreamJ ==
    ASSUME IInv, JInv, NEW r \in Slots, save_stream(r)
    PROVE  JInv'
<1>1. PICK x : x = slot[r]
  OBVIOUS
<1>2. SlotOK(x) /\ Asked(x) /\ Timely(x) /\ x.phase = "saving"
  BY <1>1 DEF IInv, JInv, save_stream
<1>3. PICK y : y = [x EXCEPT !.phase = "flush"]
  OBVIOUS
<1>4. slot' = [slot EXCEPT ![r] = y] /\ UNCHANGED db
  BY <1>1, <1>3 DEF save_stream, IInv
<1>5. DOMAIN x = {"phase", "op", "on", "n", "writes", "then", "overtaken"}
  BY <1>2 DEF SlotOK
<1>6. /\ y.op = x.op /\ y.on = x.on /\ y.n = x.n /\ y.then = x.then
      /\ y.writes = x.writes /\ y.overtaken = x.overtaken /\ y.phase = "flush"
  BY <1>3, <1>5
<1>7. Asked(y) /\ Timely(y)
  BY <1>2, <1>6 DEF Asked, Timely
<1>8. QED
  BY <1>4, <1>7, SlotJ

LEMMA FlushFailsJ ==
    ASSUME IInv, JInv, NEW r \in Slots, FlushFails(r)
    PROVE  JInv'
<1>1. PICK x : x = slot[r]
  OBVIOUS
<1>2. SlotOK(x) /\ Asked(x) /\ x.phase = "flush"
  BY <1>1 DEF IInv, JInv, FlushFails
<1>3. PICK y : y = IF x.then \in {"status", "fields"}
                   THEN [x EXCEPT !.phase = x.then, !.writes = {}] ELSE Idle
  OBVIOUS
<1>4. slot' = [slot EXCEPT ![r] = y] /\ UNCHANGED db
  BY <1>1, <1>3 DEF FlushFails, IInv
<1>5. Asked(y) /\ Timely(y)
  <2>1. CASE x.then \in {"status", "fields"}
    <3>1. DOMAIN x = {"phase", "op", "on", "n", "writes", "then", "overtaken"}
      BY <1>2 DEF SlotOK
    <3>2. /\ y.op = x.op /\ y.then = x.then /\ y.writes = {} /\ y.phase = x.then
      BY <1>3, <2>1, <3>1
    <3>3. QED
      BY <1>2, <2>1, <3>2 DEF Asked, Timely
  <2>2. CASE x.then \notin {"status", "fields"}
    BY <1>3, <2>2 DEF Asked, Timely, Idle
  <2>3. QED
    BY <2>1, <2>2
<1>6. QED
  BY <1>4, <1>5, SlotJ

LEMMA EndsJ ==
    ASSUME IInv, JInv, NEW r \in Slots, slot' = [slot EXCEPT ![r] = Idle], UNCHANGED db
    PROVE  JInv'
<1>1. Asked(Idle) /\ Timely(Idle)
  BY DEF Asked, Timely, Idle
<1>2. QED
  BY <1>1, SlotJ

LEMMA BrandRequestJ ==
    ASSUME IInv, JInv, NEW r \in Slots, BrandRequest(r)
    PROVE  JInv'
<1>1. ASSUME NEW official \in Officials, create_brand(r, official)
      PROVE  JInv'
  <2>1. PICK w : w = Insert("brands", Number, [id |-> Number, status |-> "active",
                                               official |-> official])
    OBVIOUS
  <2>2. PICK writes : writes = {w}
    OBVIOUS
  <2>3. Request(r, "brand_create", Number, writes)
    BY <1>1, <2>1, <2>2 DEF create_brand
  <2>4. \A v \in writes : Harmless(v)
    BY <2>1, <2>2, HarmlessInsert
  <2>5. QED
    BY <2>3, <2>4, HarmlessRequest
<1>2. ASSUME NEW b \in Ids, NEW official \in Officials, NEW clear \in BOOLEAN,
             update_brand(r, b, official, clear)
      PROVE  JInv'
  BY <1>2, UpdateBrandJ
<1>3. ASSUME NEW b \in Ids, archive_brand(r, b) \/ unarchive_brand(r, b)
      PROVE  JInv'
  <2>1. PICK op, new : \/ /\ op = "brand_archive"
                          /\ new = [brands[b] EXCEPT !.status = "archived"]
                          /\ archive_brand(r, b)
                       \/ /\ op = "brand_unarchive"
                          /\ new = [brands[b] EXCEPT !.status = "active"]
                          /\ unarchive_brand(r, b)
    BY <1>3
  <2>2. PICK writes : writes = {Update("brands", b, brands[b], new)}
    OBVIOUS
  <2>3. Request(r, op, b, writes)
    BY <2>1, <2>2 DEF archive_brand, unarchive_brand
  <2>4. \A w \in writes : Harmless(w)
    BY <2>2, HarmlessUpdate
  <2>5. QED
    BY <2>3, <2>4, HarmlessRequest
<1>4. ASSUME NEW b \in Ids, NEW force \in BOOLEAN, delete_brand(r, b, force)
      PROVE  JInv'
  BY <1>4, DeleteBrandJ
<1>5. ASSUME NEW b \in Ids, NEW some \in SUBSET Domains,
             NEW seen \in [some -> Observations], scan(r, b, seen)
      PROVE  JInv'
  BY <1>5, ScanJ
<1>6. ASSUME NEW k \in FindingKeys, NEW status \in Labels,
             update_finding_status(r, k, status)
      PROVE  JInv'
  <2>1. PICK writes : writes = {Update("findings", k, findings[k],
                                       [findings[k] EXCEPT !.status = status])}
    OBVIOUS
  <2>2. Request(r, "finding_status", k, writes)
    BY <1>6, <2>1 DEF update_finding_status
  <2>3. \A w \in writes : Harmless(w)
    BY <2>1, HarmlessUpdate
  <2>4. QED
    BY <2>2, <2>3, HarmlessRequest
<1>7. ASSUME NEW k \in FindingKeys, resend_alert(r, k)
      PROVE  JInv'
  <2>1. PICK writes : writes = Flag({k})
    OBVIOUS
  <2>2. BeginAt(r, "flush", "finding_alert", k, writes, "answer") /\ UNCHANGED db
    BY <1>7, <2>1 DEF resend_alert, Begin
  <2>3. \A w \in writes : /\ AskedFor(w, "finding_alert", k, Number)
                          /\ TimelyFor(w, "finding_alert")
    BY <2>1, HarmlessFlag, HarmlessOK
  <2>4. "answer" \notin {"status", "fields"}
    OBVIOUS
  <2>5. QED
    BY <2>2, <2>3, <2>4, BeginJ
<1>8. QED
  BY <1>1, <1>2, <1>3, <1>4, <1>5, <1>6, <1>7 DEF BrandRequest

LEMMA CaseRequestJ ==
    ASSUME IInv, JInv, NEW r \in Slots, CaseRequest(r)
    PROVE  JInv'
<1>1. ASSUME NEW b \in Ids \cup {NoRow}, NEW k \in FindingKeys \cup {NoRow},
             NEW assignee \in Assignees \cup {NoRow}, create_case(r, b, k, assignee)
      PROVE  JInv'
  BY <1>1, CreateCaseJ
<1>2. ASSUME NEW c \in Ids, NEW body \in Patches, NEW admin \in BOOLEAN,
             update_case(r, c, body, admin)
      PROVE  JInv'
  BY <1>2, UpdateCaseJ
<1>3. ASSUME NEW c \in Ids, NEW k \in FindingKeys \cup {NoRow}, add_evidence(r, c, k)
      PROVE  JInv'
  BY <1>3, AddEvidenceJ
<1>4. QED
  BY <1>1, <1>2, <1>3 DEF CaseRequest

LEMMA ContinueJ ==
    ASSUME IInv, JInv, NEW r \in Slots, Continue(r)
    PROVE  JInv'
<1>1. CASE Flush(r)
  BY <1>1, CommitJ DEF Flush
<1>2. CASE FlushFails(r)
  BY <1>2, FlushFailsJ
<1>3. CASE dispatch_new_findings(r)
  BY <1>3, DispatchJ
<1>4. CASE DispatchFails(r)
  BY <1>4, EndsJ DEF DispatchFails
<1>5. CASE update_case_continues(r)
  BY <1>5, UpdateContinuesJ
<1>6. CASE save_stream(r)
  BY <1>6, SaveStreamJ
<1>7. CASE TooLarge(r)
  BY <1>7, EndsJ DEF TooLarge
<1>8. CASE DiskFails(r)
  BY <1>8, EndsJ DEF DiskFails
<1>9. CASE Refreshed(r)
  BY <1>9, EndsJ DEF Refreshed
<1>10. CASE RefreshFails(r)
  BY <1>10, EndsJ DEF RefreshFails
<1>11. QED
  BY <1>1, <1>2, <1>3, <1>4, <1>5, <1>6, <1>7, <1>8, <1>9, <1>10 DEF Continue

LEMMA NextJ ==
    ASSUME IInv, JInv, [Next]_vars
    PROVE  JInv'
<1>1. ASSUME NEW r \in Slots, BrandRequest(r) \/ CaseRequest(r) \/ Continue(r)
      PROVE  JInv'
  BY <1>1, BrandRequestJ, CaseRequestJ, ContinueJ
<1>2. CASE Die
  BY <1>2 DEF Die, Crash, JInv, Asked, Timely, Idle
<1>3. CASE UNCHANGED vars
  <2>1. slot' = slot /\ UNCHANGED db
    BY <1>3 DEF vars
  <2>2. ASSUME NEW q \in Slots
        PROVE  Asked(slot[q])' /\ Timely(slot[q])'
    <3>1. PICK x : x = slot[q] /\ Asked(x) /\ Timely(x)
      BY DEF JInv
    <3>2. Timely(x)'
      BY <2>1, <3>1, TimelyStays
    <3>3. Asked(slot'[q]) /\ slot'[q] = x
      BY <2>1, <3>1
    <3>4. QED
      BY <3>2, <3>3 DEF Asked
  <2>3. QED
    BY <2>2 DEF JInv
<1>4. QED
  BY <1>1, <1>2, <1>3 DEF Next

LEMMA Decided == Spec => [](IInv /\ JInv)
<1>1. Init => JInv
  <2>1. Init => \A r \in Slots : slot[r] = Idle
    BY DEF Init, Start
  <2>2. Asked(Idle) /\ Timely(Idle)
    BY DEF Asked, Timely, Idle
  <2>3. QED
    BY <2>1, <2>2 DEF JInv
<1>2. IInv /\ JInv /\ [Next]_vars => IInv' /\ JInv'
  BY NextOK, NextJ
<1>3. QED
  BY InitOK, <1>1, <1>2, PTL DEF Spec

-----------------------------------------------------------------------------
(***************************************************************************)
(* Only a flush changes the database.                                      *)
(***************************************************************************)
LEMMA OnlyCommits ==
    ASSUME [Next]_vars, db' # db
    PROVE  \E r \in Slots : Flush(r)
<1>1. ASSUME NEW r \in Slots, BrandRequest(r)
      PROVE  UNCHANGED db
  BY <1>1 DEF BrandRequest, create_brand, update_brand, archive_brand,
              unarchive_brand, delete_brand, scan, update_finding_status,
              resend_alert, Request
<1>2. ASSUME NEW r \in Slots, CaseRequest(r)
      PROVE  UNCHANGED db
  BY <1>2 DEF CaseRequest, create_case, update_case, add_evidence, Request
<1>3. ASSUME NEW r \in Slots, Continue(r)
      PROVE  Flush(r) \/ UNCHANGED db
  BY <1>3 DEF Continue, FlushFails, dispatch_new_findings, DispatchFails,
              update_case_continues, save_stream, TooLarge, DiskFails,
              Refreshed, RefreshFails
<1>4. Die \/ UNCHANGED vars => UNCHANGED db
  BY DEF Die, Crash, vars
<1>5. QED
  BY <1>1, <1>2, <1>3, <1>4 DEF Next

\* What is known of a flush that changes the database.
LEMMA FlushStep ==
    ASSUME IInv, JInv, NEW r \in Slots, Flush(r), db' # db
    PROVE  /\ Flushes(r)
           /\ slot[r].phase # "idle" /\ slot[r].overtaken \in BOOLEAN
           /\ Allowed(slot[r].writes)
           /\ db' = Flushed(slot[r].writes, References)
           /\ \A w \in slot[r].writes :
                /\ AskedFor(w, slot[r].op, slot[r].on, slot[r].n)
                /\ ~slot[r].overtaken => TimelyFor(w, slot[r].op)
<1>1. Commit(r, References)
  BY DEF Flush
<1>2. PICK x : x = slot[r]
  OBVIOUS
<1>3. x.phase = "flush" /\ SlotOK(x) /\ Asked(x) /\ Timely(x)
  BY <1>1, <1>2 DEF Commit, IInv, JInv
<1>4. slot'[r].phase # "flush"
  <2>1. slot'[r] = IF x.then = "answer" THEN Idle
                   ELSE [x EXCEPT !.phase = x.then, !.writes = {}, !.overtaken = FALSE]
    BY <1>1, <1>2 DEF Commit, After
  <2>2. PICK y : y = [x EXCEPT !.phase = x.then, !.writes = {}, !.overtaken = FALSE]
    OBVIOUS
  <2>3. /\ x.then # "flush"
        /\ DOMAIN x = {"phase", "op", "on", "n", "writes", "then", "overtaken"}
    BY <1>3 DEF SlotOK
  <2>4. y.phase = x.then
    BY <2>2, <2>3
  <2>5. Idle.phase = "idle"
    BY DEF Idle
  <2>6. QED
    BY <2>1, <2>2, <2>3, <2>4, <2>5
<1>5. Flushes(r)
  BY <1>2, <1>3, <1>4 DEF Flushes
<1>6. Allowed(x.writes) /\ x.overtaken \in BOOLEAN
  BY <1>1, <1>2, <1>3 DEF SlotOK, Allowed, Commit
<1>7. \A w \in x.writes : /\ AskedFor(w, x.op, x.on, x.n)
                          /\ ~x.overtaken => TimelyFor(w, x.op)
  BY <1>3 DEF Asked, Timely
<1>8. QED
  BY <1>1, <1>2, <1>3, <1>5, <1>6, <1>7 DEF Commit

-----------------------------------------------------------------------------
(***************************************************************************)
(* Findings go on request.                                                 *)
(***************************************************************************)
\* A brand, or a finding, that a flush takes away was deleted by it.
LEMMA BrandGoes ==
    ASSUME IInv, NEW ws, Allowed(ws), NEW b \in Ids,
           brands[b] # NoRow, Row("brands", b, ws) = NoRow
    PROVE  \E w \in ws : w.at = <<"brands", b>> /\ w.how = "delete"
<1>1. db["brands"][b] \in Brand /\ db["brands"][b] # NoRow
  BY Tabled DEF brands
<1>2. ASSUME NEW w \in ws, w.at = <<"brands", b>>
      PROVE  w.how # "insert"
  BY <1>1, <1>2, Found
<1>3. ASSUME NEW w \in ws, w.at = <<"brands", b>>, w.how \notin {"insert", "delete"}
      PROVE  Merged(db["brands"][b], w.set) # NoRow
  <2>1. BrandColumns(w.set)
    BY <1>3, UpdateOf DEF Allowed
  <2>2. PICK row, set : row = db["brands"][b] /\ set = w.set
    OBVIOUS
  <2>3. Merged(row, set) \in Brand
    BY <1>1, <2>1, <2>2 DEF Merged, Brand, BrandColumns
  <2>4. QED
    BY <2>2, <2>3, ConstantsAssumption
<1>4. \A w \in ws : w.at = <<"brands", b>> =>
        /\ w.how # "insert"
        /\ w.how # "delete" => Merged(db["brands"][b], w.set) # NoRow
  BY <1>2, <1>3
<1>5. QED
  BY <1>1, <1>4, RowGoes

LEMMA FindingGoes ==
    ASSUME IInv, NEW ws, Allowed(ws), NEW k \in FindingKeys,
           findings[k] # NoRow, Row("findings", k, ws) = NoRow
    PROVE  \E w \in ws : w.at = <<"findings", k>> /\ w.how = "delete"
<1>1. db["findings"][k] \in BrandFinding /\ db["findings"][k] # NoRow
  BY Tabled DEF findings
<1>2. ASSUME NEW w \in ws, w.at = <<"findings", k>>
      PROVE  w.how # "insert"
  BY <1>1, <1>2, Found
<1>3. ASSUME NEW w \in ws, w.at = <<"findings", k>>, w.how \notin {"insert", "delete"}
      PROVE  Merged(db["findings"][k], w.set) # NoRow
  <2>1. FindingColumns(w.set)
    BY <1>3, UpdateOf DEF Allowed
  <2>2. PICK row, set : row = db["findings"][k] /\ set = w.set
    OBVIOUS
  <2>3. Merged(row, set) \in BrandFinding
    BY <1>1, <2>1, <2>2 DEF Merged, BrandFinding, FindingColumns
  <2>4. QED
    BY <2>2, <2>3, ConstantsAssumption
<1>4. \A w \in ws : w.at = <<"findings", k>> =>
        /\ w.how # "insert"
        /\ w.how # "delete" => Merged(db["findings"][k], w.set) # NoRow
  BY <1>2, <1>3
<1>5. QED
  BY <1>1, <1>4, RowGoes

\* FindingsDroppedOnRequest: a brand finding goes only with clear_findings,
\* with a forced deletion of its brand, or with one that was overtaken since
\* it counted no findings.
LEMMA DropStep ==
    ASSUME IInv, JInv, [Next]_vars, NEW k \in FindingKeys,
           findings[k] # NoRow, findings'[k] = NoRow
    PROVE  \E r \in Slots :
             /\ Flushes(r)
             /\ \/ slot[r].op \in {"brand_clear", "brand_delete_force"}
                \/ slot[r].op = "brand_delete" /\ slot[r].overtaken
<1>1. db' # db
  BY DEF findings
<1>2. PICK r \in Slots : Flush(r)
  BY <1>1, OnlyCommits
<1>3. PICK ws, op, on, n : /\ ws = slot[r].writes /\ op = slot[r].op
                           /\ on = slot[r].on /\ n = slot[r].n
  OBVIOUS
<1>4. /\ Flushes(r) /\ Allowed(ws) /\ slot[r].overtaken \in BOOLEAN
      /\ db' = Flushed(ws, References)
      /\ \A w \in ws : /\ AskedFor(w, op, on, n)
                       /\ ~slot[r].overtaken => TimelyFor(w, op)
  BY <1>1, <1>2, <1>3, FlushStep
<1>5. k[1] \in Ids /\ brands[k[1]] # NoRow
  BY DEF FindingKeys, IInv, Attached
<1>6. Flushed(ws, References)["findings"][k] = NoRow
  BY <1>4 DEF findings
<1>7. \/ Row("findings", k, ws) = NoRow
      \/ Row("brands", k[1], ws) = NoRow
  BY <1>4, <1>6, FindingAfter
<1>8. CASE Row("findings", k, ws) = NoRow
  <2>1. PICK w \in ws : w.at = <<"findings", k>> /\ w.how = "delete"
    BY <1>4, <1>8, FindingGoes
  <2>2. w.at[1] = "findings" /\ AskedFor(w, op, on, n)
    BY <1>4, <2>1
  <2>3. op = "brand_clear"
    BY <2>1, <2>2 DEF AskedFor
  <2>4. QED
    BY <1>3, <1>4, <2>3
<1>9. CASE Row("brands", k[1], ws) = NoRow
  <2>1. PICK w \in ws : w.at = <<"brands", k[1]>> /\ w.how = "delete"
    BY <1>4, <1>5, <1>9, BrandGoes
  <2>2. w.at[1] = "brands" /\ w.at[2] = k[1] /\ AskedFor(w, op, on, n)
    BY <1>4, <2>1
  <2>3. op \in {"brand_delete", "brand_delete_force"}
    BY <2>1, <2>2 DEF AskedFor
  <2>4. k \in FindingsOf(w.at[2])
    BY <2>2 DEF FindingsOf
  <2>5. op = "brand_delete" => slot[r].overtaken
    BY <1>4, <2>1, <2>4 DEF TimelyFor
  <2>6. QED
    BY <1>3, <1>4, <2>3, <2>5
<1>10. QED
  BY <1>7, <1>8, <1>9

\* A finding of a brand goes only when a caller clears the findings, forces the
\* deletion, or plainly deletes a brand whose findings were discovered after
\* delete_brand had counted them (app/routers/brands.py).
THEOREM DroppedOnRequest == Spec => FindingsDroppedOnRequest
<1>1. IInv /\ JInv /\ [Next]_vars =>
        [\A k \in FindingKeys : findings[k] # NoRow /\ findings'[k] = NoRow =>
         \E r \in Slots : /\ Flushes(r)
                          /\ \/ slot[r].op \in {"brand_clear", "brand_delete_force"}
                             \/ slot[r].op = "brand_delete" /\ slot[r].overtaken]_vars
  BY DropStep
<1>2. QED
  BY <1>1, Decided, PTL DEF Spec, FindingsDroppedOnRequest

-----------------------------------------------------------------------------
(***************************************************************************)
(* Cases: when they were closed, and how many are open for a finding.      *)
(***************************************************************************)
\* ClosedAtTornOnlyInARace: what one PATCH writes is right for the row it
\* read, so only a row another commit changed meanwhile is torn.
LEMMA TornStep ==
    ASSUME IInv, JInv, [Next]_vars, NEW c \in Ids,
           ClosedAt(cases[c]), ~ClosedAt(cases'[c])
    PROVE  Raced
<1>1. db' # db
  BY DEF cases
<1>2. PICK r \in Slots : Flush(r)
  BY <1>1, OnlyCommits
<1>3. PICK ws, op, on, n : /\ ws = slot[r].writes /\ op = slot[r].op
                           /\ on = slot[r].on /\ n = slot[r].n
  OBVIOUS
<1>4. /\ Flushes(r) /\ Allowed(ws) /\ slot[r].overtaken \in BOOLEAN
      /\ db' = Flushed(ws, References)
      /\ ~slot[r].overtaken => \A w \in ws : TimelyFor(w, op)
  BY <1>1, <1>2, <1>3, FlushStep
<1>5. SUFFICES ASSUME ~slot[r].overtaken
               PROVE  FALSE
  BY <1>4 DEF Raced
<1>6. PICK row, after : /\ row = Row("cases", c, ws)
                        /\ after = Flushed(ws, References)["cases"][c]
  OBVIOUS
<1>7. after = cases'[c]
  BY <1>4, <1>6 DEF cases
<1>8. after # NoRow
  BY <1>7 DEF ClosedAt
<1>9. row # NoRow /\ after.status = row.status /\ after.closed_at = row.closed_at
  BY <1>4, <1>6, <1>8, CaseAfter
<1>10. ~ClosedAt(row)
  BY <1>7, <1>9 DEF ClosedAt
<1>11. \/ row = cases[c]
       \/ \E w \in ws : w.at = <<"cases", c>> /\ w.how = "insert" /\ row = w.set
       \/ \E w \in ws : /\ w.at = <<"cases", c>> /\ w.how \notin {"insert", "delete"}
                        /\ DOMAIN w.set # {} /\ row = Merged(cases[c], w.set)
  BY <1>4, <1>6, CaseFrom
<1>12. ASSUME NEW w \in ws, w.at = <<"cases", c>>, w.how = "insert"
       PROVE  ClosedAt(w.set)
  <2>1. w.at[1] = "cases" /\ TimelyFor(w, op)
    BY <1>4, <1>5, <1>12
  <2>2. QED
    BY <1>12, <2>1 DEF TimelyFor
<1>13. ASSUME NEW w \in ws, w.at = <<"cases", c>>, w.how \notin {"insert", "delete"}
       PROVE  ClosedAt(Merged(cases[c], w.set))
  <2>1. /\ w.at[1] = "cases" /\ w.at[2] = c /\ TimelyFor(w, op)
        /\ w.how = "update"
    BY <1>4, <1>5, <1>13, UpdateOf DEF Allowed
  <2>2. QED
    BY <1>13, <2>1 DEF TimelyFor
<1>14. QED
  BY <1>10, <1>11, <1>12, <1>13

\* closed_at is set exactly while a case is resolved or closed, but for a
\* request that another commit overtook: update_case writes the columns that
\* differ from what it read (app/routers/cases_routes.py).
THEOREM TornOnlyInARace == Spec => ClosedAtTornOnlyInARace
<1>1. IInv /\ JInv /\ [Next]_vars =>
        [\A c \in Ids : ClosedAt(cases[c]) /\ ~ClosedAt(cases'[c]) => Raced]_vars
  BY TornStep
<1>2. QED
  BY <1>1, Decided, PTL DEF Spec, ClosedAtTornOnlyInARace

\* SecondCaseOnlyByReopen: a flush that nothing overtook adds a case to the
\* active ones of a finding only when there was none, or by reopening it.
LEMMA ActiveStep ==
    ASSUME IInv, JInv, [Next]_vars, NEW k \in FindingKeys, ActiveCases(k) # {},
           ~Raced, \A r \in Slots : ~Reopens(r)
    PROVE  ActiveCases(k)' \subseteq ActiveCases(k)
<1>1. CASE db' = db
  BY <1>1 DEF ActiveCases, Active, cases
<1>2. CASE db' # db
  <2>1. PICK r \in Slots : Flush(r)
    BY <1>2, OnlyCommits
  <2>2. PICK ws, op, on, n : /\ ws = slot[r].writes /\ op = slot[r].op
                             /\ on = slot[r].on /\ n = slot[r].n
    OBVIOUS
  <2>3. /\ Flushes(r) /\ Allowed(ws) /\ slot[r].overtaken \in BOOLEAN
        /\ db' = Flushed(ws, References)
        /\ \A w \in ws : /\ AskedFor(w, op, on, n)
                         /\ ~slot[r].overtaken => TimelyFor(w, op)
    BY <1>2, <2>1, <2>2, FlushStep
  <2>4. ~slot[r].overtaken
    BY <2>3 DEF Raced
  <2>5. op = "case_update" => cases[on.case].status \notin TERMINAL
    BY <2>2, <2>3 DEF Reopens
  <2>6. ASSUME NEW c \in ActiveCases(k)'
        PROVE  c \in ActiveCases(k)
    <3>1. c \in Ids /\ k # NoRow
      BY ConstantsAssumption DEF ActiveCases
    <3>2. PICK row, after, old : /\ row = Row("cases", c, ws)
                                 /\ after = Flushed(ws, References)["cases"][c]
                                 /\ old = cases[c]
      OBVIOUS
    <3>3. after # NoRow /\ after.status \in ACTIVE /\ after.finding = k
      <4>1. after = cases'[c]
        BY <2>3, <3>2 DEF cases
      <4>2. QED
        BY <4>1 DEF ActiveCases, Active
    <3>4. /\ row # NoRow /\ after.status = row.status
          /\ after.finding \in {NoRow, row.finding}
      BY <2>3, <3>1, <3>2, <3>3, CaseAfter
    <3>5. row.status \in ACTIVE /\ row.finding = k
      BY <3>1, <3>3, <3>4
    <3>6. /\ old \in InvestigationCase \cup {NoRow}
          /\ old # NoRow => row.finding = old.finding
      BY <2>3, <3>1, <3>2, CaseRow DEF IInv, TypeOK
    <3>7. \/ row = old
          \/ \E w \in ws : w.at = <<"cases", c>> /\ w.how = "insert" /\ row = w.set
          \/ \E w \in ws : /\ w.at = <<"cases", c>> /\ w.how \notin {"insert", "delete"}
                           /\ DOMAIN w.set # {}
      BY <2>3, <3>1, <3>2, CaseFrom
    <3>8. CASE row = old
      BY <3>1, <3>2, <3>4, <3>5, <3>8 DEF ActiveCases, Active
    <3>9. ASSUME NEW w \in ws, w.at = <<"cases", c>>, w.how = "insert", row = w.set
          PROVE  FALSE
      <4>1. w.at[1] = "cases" /\ TimelyFor(w, op)
        BY <2>3, <2>4, <3>9
      <4>2. ActiveCases(w.set.finding) = {}
        BY <3>1, <3>5, <3>9, <4>1 DEF TimelyFor
      <4>3. QED
        BY <3>5, <3>9, <4>2
    <3>10. ASSUME NEW w \in ws, w.at = <<"cases", c>>, w.how \notin {"insert", "delete"},
                  DOMAIN w.set # {}
           PROVE  c \in ActiveCases(k)
      <4>1. /\ w.at[1] = "cases" /\ w.at[2] = c /\ AskedFor(w, op, on, n)
            /\ w.how = "update"
        BY <2>3, <3>10, UpdateOf DEF Allowed
      <4>2. op = "case_update" /\ on.case = c
        BY <4>1 DEF AskedFor
      <4>3. old # NoRow
        BY <2>3, <3>2, <3>10, <4>1, Found DEF cases
      <4>4. old.status \in ACTIVE
        BY <2>5, <3>2, <3>6, <4>2, <4>3 DEF InvestigationCase
      <4>5. old.finding = k
        BY <3>5, <3>6, <4>3
      <4>6. QED
        BY <3>1, <3>2, <4>3, <4>4, <4>5 DEF ActiveCases, Active
    <3>11. QED
      BY <3>7, <3>8, <3>9, <3>10
  <2>7. QED
    BY <2>6
<1>3. QED
  BY <1>1, <1>2

LEMMA SecondStep ==
    ASSUME IInv, JInv, [Next]_vars, NEW k \in FindingKeys,
           Cardinality(ActiveCases(k)) = 1, Cardinality(ActiveCases(k)') > 1
    PROVE  Raced \/ \E r \in Slots : Reopens(r)
<1>1. PICK S, T : S = ActiveCases(k) /\ T = ActiveCases(k)'
  OBVIOUS
<1>2. IsFiniteSet(S)
  <2>1. IsFiniteSet(Ids)
    BY MaxRequestsNat, FS_Interval DEF Ids
  <2>2. S \subseteq Ids
    BY <1>1 DEF ActiveCases
  <2>3. QED
    BY <2>1, <2>2, FS_Subset
<1>3. S # {}
  BY <1>1, FS_EmptySet
<1>4. SUFFICES ASSUME ~Raced, \A r \in Slots : ~Reopens(r)
               PROVE  FALSE
  OBVIOUS
<1>5. T \subseteq S
  BY <1>1, <1>3, <1>4, ActiveStep
<1>6. Cardinality(T) \in Nat /\ Cardinality(T) <= Cardinality(S)
  BY <1>2, <1>5, FS_Subset, FS_CardinalityType
<1>7. Cardinality(S) = 1 /\ Cardinality(T) > 1
  BY <1>1
<1>8. QED
  BY <1>6, <1>7

\* A finding gets a second active case only from a request another one overtook
\* or from update_case reopening a closed one: open_case_from_finding
\* looks for an active case and no index does (app/routers/cases_routes.py).
THEOREM SecondOnlyByReopen == Spec => SecondCaseOnlyByReopen
<1>1. IInv /\ JInv /\ [Next]_vars =>
        [\A k \in FindingKeys :
         Cardinality(ActiveCases(k)) = 1 /\ Cardinality(ActiveCases(k)') > 1
         => Raced \/ \E r \in Slots : Reopens(r)]_vars
  BY SecondStep
<1>2. QED
  BY <1>1, Decided, PTL DEF Spec, SecondCaseOnlyByReopen

-----------------------------------------------------------------------------
(***************************************************************************)
(* Evidence on disk.  The file of an upload is there before its row is,    *)
(* under a number no other request has, and nobody else writes that row:   *)
(* so the request that goes on alone decides whether both stay.            *)
(***************************************************************************)
\* The one row an upload is to insert.
Filing(ws, n) ==
    \E w : ws = {w} /\ w.at = <<"evidence", n>> /\ w.how = "insert"

Storing(x) ==
    /\ x.then = "refresh" /\ x.phase \in {"saving", "flush", "refresh"}
    /\ x.n \in files
    /\ evidence[x.n] # NoRow <=> x.phase = "refresh"
    /\ x.phase # "refresh" => Filing(x.writes, x.n)

\* Any other request: there is neither a row nor a file of its number.
Storeless(x) ==
    /\ x.then # "refresh" /\ x.phase \notin {"saving", "refresh"}
    /\ x.n \notin files /\ evidence[x.n] = NoRow

Filed(x) ==
    x.phase # "idle" =>
        /\ x.n <= served
        /\ x.op = "evidence_add" => Storing(x)
        /\ x.op # "evidence_add" => Storeless(x)

EInv ==
    /\ \A r \in Slots : Filed(slot[r])
    /\ \A r, q \in Slots : r # q /\ Busy(r) /\ Busy(q) => slot[r].n # slot[q].n
    /\ \A n \in Ids : n > served => n \notin files /\ evidence[n] = NoRow

LEMMA Numbered ==
    ASSUME IInv, EInv, NEW r \in Slots, Busy(r)
    PROVE  slot[r].n \in Ids /\ slot[r].n <= served
  BY DEF IInv, EInv, SlotOK, Filed, Busy

\* A request that leaves the rows, and the files of the others, alone.
LEMMA FiledStays ==
    ASSUME NEW x, Filed(x), x.phase # "idle" => x.n \in Ids, served <= served',
           served \in Int, served' \in Int,
           x.phase # "idle" => /\ x.n \in files' <=> x.n \in files
                               /\ evidence'[x.n] = NoRow <=> evidence[x.n] = NoRow
    PROVE  Filed(x)'
  BY DEF Filed, Storing, Storeless, Ids

LEMMA SlotE ==
    ASSUME IInv, EInv, NEW r \in Slots, Busy(r), NEW y, slot' = [slot EXCEPT ![r] = y],
           UNCHANGED db, UNCHANGED served,
           \A n \in Ids : n # slot[r].n => (n \in files' <=> n \in files),
           y.phase = "idle" \/ (y.n = slot[r].n /\ Filed(y)')
    PROVE  EInv'
<1>1. PICK m : m = slot[r].n
  OBVIOUS
<1>2. m \in Ids /\ m <= served /\ served \in Int
  BY <1>1, Numbered DEF IInv, TypeOK
<1>3. evidence' = evidence
  BY DEF evidence
<1>4. ASSUME NEW q \in Slots
      PROVE  Filed(slot[q])' /\ (Busy(q)' => Busy(q) /\ slot'[q].n = slot[q].n)
  <2>1. CASE q = r
    <3>1. slot'[q] = y
      BY <2>1 DEF IInv
    <3>2. Filed(y)'
      BY DEF Filed
    <3>3. QED
      BY <1>1, <2>1, <3>1, <3>2 DEF Busy
  <2>2. CASE q # r
    <3>1. PICK x : x = slot[q]
      OBVIOUS
    <3>2. slot'[q] = x
      BY <2>2, <3>1 DEF IInv
    <3>3. Filed(x) /\ (x.phase # "idle" => x.n \in Ids /\ x.n # m)
      BY <1>1, <2>2, <3>1, Numbered DEF EInv, Busy
    <3>4. Filed(x)'
      BY <1>1, <1>2, <1>3, <3>3, FiledStays
    <3>5. QED
      BY <3>1, <3>2, <3>4 DEF Busy
  <2>3. QED
    BY <2>1, <2>2
<1>5. \A q, p \in Slots : (q # p /\ Busy(q) /\ Busy(p) => slot[q].n # slot[p].n)'
  <2> TAKE q, p \in Slots
  <2>1. q # p /\ Busy(q)' /\ Busy(p)' => slot[q].n # slot[p].n
    BY <1>4 DEF EInv
  <2>2. QED
    BY <1>4, <2>1
<1>6. \A n \in Ids : n > served => n # m
  BY <1>2 DEF Ids
<1>7. \A n \in Ids : (n > served => n \notin files /\ evidence[n] = NoRow)'
  BY <1>1, <1>3, <1>6 DEF EInv
<1>8. QED
  BY <1>4, <1>5, <1>7 DEF EInv

LEMMA BeginE ==
    ASSUME IInv, EInv, NEW r \in Slots,
           NEW phase \in {"flush", "saving"}, NEW op, NEW on, NEW writes, NEW then,
           BeginAt(r, phase, op, on, writes, then), UNCHANGED db,
           op = "evidence_add" =>
             /\ phase = "saving" /\ then = "refresh" /\ Filing(writes, Number)
             /\ files' = files \cup {Number},
           op # "evidence_add" =>
             phase = "flush" /\ then # "refresh" /\ files' = files
    PROVE  EInv'
<1>1. PICK n : n = Number
  OBVIOUS
<1>2. PICK y : y = [phase |-> phase, op |-> op, on |-> on, n |-> n,
                    writes |-> writes, then |-> then, overtaken |-> FALSE]
  OBVIOUS
<1>3. slot' = [slot EXCEPT ![r] = y] /\ served' = n /\ n = served + 1
  BY <1>1, <1>2 DEF BeginAt, Number
<1>4. /\ y.phase = phase /\ y.op = op /\ y.on = on /\ y.n = n
      /\ y.writes = writes /\ y.then = then
  BY <1>2
<1>5. evidence' = evidence
  BY DEF evidence
<1>6. n \in Ids /\ served \in Int /\ served' \in Int /\ served <= served' /\ n > served
  <2>1. n \in Ids
    BY <1>1, NumberOK DEF BeginAt
  <2>2. served \in Int
    BY DEF IInv, TypeOK
  <2>3. QED
    BY <1>3, <2>1, <2>2
<1>7. n \notin files /\ evidence[n] = NoRow
  BY <1>6 DEF EInv
<1>8. \A m \in Ids : m # n => (m \in files' <=> m \in files)
  BY <1>1
<1>9. Filed(y)'
  <2>1. y.n <= served'
    BY <1>3, <1>4, <1>6
  <2>2. op = "evidence_add" => Storing(y)'
    BY <1>1, <1>4, <1>5, <1>7 DEF Storing
  <2>3. op # "evidence_add" => Storeless(y)'
    BY <1>1, <1>4, <1>5, <1>7 DEF Storeless
  <2>4. QED
    BY <1>4, <2>1, <2>2, <2>3 DEF Filed
<1>10. ASSUME NEW q \in Slots, q # r
       PROVE  /\ slot'[q] = slot[q] /\ Filed(slot[q])'
              /\ Busy(q) => slot[q].n \in Ids /\ slot[q].n # n
  <2>1. PICK x : x = slot[q]
    OBVIOUS
  <2>2. slot'[q] = x
    BY <1>10, <2>1, <1>3 DEF IInv
  <2>3. Filed(x) /\ (x.phase # "idle" => x.n \in Ids /\ x.n <= served)
    BY <2>1, Numbered DEF EInv, Busy
  <2>4. x.phase # "idle" => x.n # n
    BY <1>6, <2>3 DEF Ids
  <2>5. Filed(x)'
    BY <1>5, <1>6, <1>8, <2>3, <2>4, FiledStays
  <2>6. QED
    BY <2>1, <2>2, <2>3, <2>4, <2>5 DEF Busy
<1>11. slot'[r] = y
  BY <1>3 DEF IInv
<1>12. \A q \in Slots : Filed(slot[q])'
  BY <1>9, <1>10, <1>11
<1>13. \A q, p \in Slots : (q # p /\ Busy(q) /\ Busy(p) => slot[q].n # slot[p].n)'
  <2> TAKE q, p \in Slots
  <2>1. CASE q # r /\ p # r
    BY <1>10, <2>1 DEF EInv, Busy
  <2>2. CASE q = r \/ p = r
    BY <1>4, <1>10, <1>11, <2>2 DEF Busy
  <2>3. QED
    BY <2>1, <2>2
<1>14. \A m \in Ids : (m > served => m \notin files /\ evidence[m] = NoRow)'
  <2> TAKE m \in Ids
  <2>1. m > served' => m > served /\ m # n
    BY <1>3, <1>6 DEF Ids
  <2>2. QED
    BY <1>5, <1>8, <2>1 DEF EInv
<1>15. QED
  BY <1>12, <1>13, <1>14 DEF EInv

\* What a flush makes of the evidence it does not write, and of that it files.
LEMMA EvidenceKeeps ==
    ASSUME IInv, NEW ws, Allowed(ws), db' = Flushed(ws, References),
           NEW e \in Ids, \A w \in ws : w.at # <<"evidence", e>>
    PROVE  evidence'[e] = NoRow <=> evidence[e] = NoRow
<1>1. Row("evidence", e, ws) = db["evidence"][e]
  BY DEF Row
<1>2. PICK row, after : /\ row = Row("evidence", e, ws)
                        /\ after = Flushed(ws, References)["evidence"][e]
  OBVIOUS
<1>3. row = NoRow => after = NoRow
  BY <1>2, EvidenceAfter
<1>4. row # NoRow => after \in CaseEvidence
  BY <1>2, EvidenceAfter
<1>5. evidence'[e] = after /\ evidence[e] = row
  BY <1>1, <1>2 DEF evidence
<1>6. QED
  BY <1>3, <1>4, <1>5, ConstantsAssumption

LEMMA EvidenceFiled ==
    ASSUME IInv, NEW ws, Allowed(ws), db' = Flushed(ws, References),
           NEW e \in Ids, Filing(ws, e)
    PROVE  evidence'[e] # NoRow
<1>1. PICK w : ws = {w} /\ w.at = <<"evidence", e>> /\ w.how = "insert"
  BY DEF Filing
<1>2. Row("evidence", e, ws) = w.set
  <2>1. (CHOOSE v \in ws : v.at = <<"evidence", e>>) = w
    BY <1>1
  <2>2. Row("evidence", e, ws) = Written("evidence", e, w)
    BY <1>1, <2>1 DEF Row
  <2>3. QED
    BY <1>1, <2>2 DEF Written
<1>3. w.set \in CaseEvidence
  BY <1>1, InsertOf DEF Allowed, EvidenceAdded
<1>4. PICK row, after : /\ row = Row("evidence", e, ws)
                        /\ after = Flushed(ws, References)["evidence"][e]
  OBVIOUS
<1>5. row # NoRow
  BY <1>2, <1>3, <1>4, ConstantsAssumption
<1>6. after \in CaseEvidence
  BY <1>4, <1>5, EvidenceAfter
<1>7. evidence'[e] = after
  BY <1>4 DEF evidence
<1>8. QED
  BY <1>6, <1>7, ConstantsAssumption

\* A flush decides on no evidence but that of its own number.
LEMMA FlushedEvidence ==
    ASSUME IInv, JInv, EInv, NEW r \in Slots, Commit(r, References)
    PROVE  /\ \A e \in Ids : e # slot[r].n =>
                (evidence'[e] = NoRow <=> evidence[e] = NoRow)
           /\ slot[r].op = "evidence_add" => evidence'[slot[r].n] # NoRow
           /\ slot[r].op # "evidence_add" => evidence'[slot[r].n] = NoRow
<1>1. PICK x, ws : x = slot[r] /\ ws = x.writes
  OBVIOUS
<1>2. SlotOK(x) /\ Asked(x) /\ Filed(x) /\ x.phase = "flush"
  BY <1>1 DEF IInv, JInv, EInv, Commit
<1>3. Allowed(ws) /\ db' = Flushed(ws, References)
  BY <1>1, <1>2 DEF SlotOK, Allowed, Commit
<1>4. x.n \in Ids /\ \A w \in ws : AskedFor(w, x.op, x.on, x.n)
  BY <1>1, <1>2 DEF SlotOK, Asked
<1>5. ASSUME NEW e \in Ids, NEW w \in ws, w.at = <<"evidence", e>>
      PROVE  x.op = "evidence_add" /\ e = x.n
  <2>1. w.at[1] = "evidence" /\ w.at[2] = e
    BY <1>5
  <2>2. QED
    BY <1>4, <2>1 DEF AskedFor
<1>6. ASSUME NEW e \in Ids, e # x.n \/ x.op # "evidence_add"
      PROVE  evidence'[e] = NoRow <=> evidence[e] = NoRow
  <2>1. \A w \in ws : w.at # <<"evidence", e>>
    BY <1>5, <1>6
  <2>2. QED
    BY <1>3, <2>1, EvidenceKeeps
<1>7. x.op = "evidence_add" => evidence'[x.n] # NoRow
  <2>1. x.op = "evidence_add" => Filing(ws, x.n)
    BY <1>1, <1>2 DEF Filed, Storing
  <2>2. QED
    BY <1>3, <1>4, <2>1, EvidenceFiled
<1>8. x.op # "evidence_add" => evidence'[x.n] = NoRow
  <2>1. x.op # "evidence_add" => evidence[x.n] = NoRow
    BY <1>2 DEF Filed, Storeless
  <2>2. QED
    BY <1>4, <1>6, <2>1
<1>9. QED
  BY <1>1, <1>6, <1>7, <1>8

LEMMA CommitE ==
    ASSUME IInv, JInv, EInv, NEW r \in Slots, Commit(r, References), UNCHANGED files
    PROVE  EInv'
<1>1. PICK m : m = slot[r].n
  OBVIOUS
<1>2. /\ \A e \in Ids : e # m => (evidence'[e] = NoRow <=> evidence[e] = NoRow)
      /\ slot[r].op = "evidence_add" => evidence'[m] # NoRow
      /\ slot[r].op # "evidence_add" => evidence'[m] = NoRow
  BY <1>1, FlushedEvidence
<1>3. Busy(r) /\ served' = served /\ served \in Int
  BY DEF Commit, Busy, IInv, TypeOK
<1>4. m \in Ids /\ m <= served
  BY <1>1, <1>3, Numbered
<1>5. ASSUME NEW q \in Slots
      PROVE  Filed(slot[q])' /\ (Busy(q)' => Busy(q) /\ slot'[q].n = slot[q].n)
  <2>1. PICK x : x = slot[q]
    OBVIOUS
  <2>2. SlotOK(x) /\ Filed(x)
    BY <2>1 DEF IInv, EInv
  <2>3. CASE slot'[q] = Idle
    <3>1. Filed(Idle)'
      BY DEF Filed, Idle
    <3>2. QED
      BY <2>3, <3>1 DEF Busy, Idle
  <2>4. CASE q = r /\ x.then # "answer"
    <3>1. x.phase = "flush" /\ slot'[q] = After(q)
      BY <2>1, <2>4 DEF Commit
    <3>2. PICK y : y = [x EXCEPT !.phase = x.then, !.writes = {}, !.overtaken = FALSE]
      OBVIOUS
    <3>3. slot'[q] = y
      BY <2>1, <2>4, <3>1, <3>2 DEF After
    <3>4. DOMAIN x = {"phase", "op", "on", "n", "writes", "then", "overtaken"}
      BY <2>2, <3>1 DEF SlotOK
    <3>5. y.op = x.op /\ y.n = x.n /\ y.then = x.then /\ y.phase = x.then
      BY <3>2, <3>4
    <3>6. x.n = m /\ x.n <= served'
      BY <1>1, <1>3, <1>4, <2>1, <2>4
    <3>7. x.op = "evidence_add" => Storing(y)'
      BY <1>2, <2>1, <2>2, <2>4, <3>1, <3>5, <3>6 DEF Filed, Storing
    <3>8. x.op # "evidence_add" => Storeless(y)'
      BY <1>2, <2>1, <2>2, <2>4, <3>1, <3>5, <3>6 DEF Filed, Storeless, SlotOK
    <3>9. Filed(y)'
      BY <3>5, <3>6, <3>7, <3>8 DEF Filed
    <3>10. QED
      BY <2>1, <3>1, <3>3, <3>5, <3>9 DEF Busy
  <2>5. CASE q # r /\ Busy(q)
    <3>1. PICK late : late = (db' # db)
      OBVIOUS
    <3>2. slot'[q] = [x EXCEPT !.overtaken = @ \/ late]
      BY <2>1, <2>5, <3>1 DEF Commit
    <3>3. PICK y : y = [x EXCEPT !.overtaken = x.overtaken \/ late]
      OBVIOUS
    <3>4. /\ x.phase # "idle"
          /\ DOMAIN x = {"phase", "op", "on", "n", "writes", "then", "overtaken"}
      BY <2>1, <2>2, <2>5 DEF SlotOK, Busy
    <3>5. slot'[q] = y
      BY <3>2, <3>3, <3>4
    <3>6. /\ y.n = x.n /\ y.op = x.op /\ y.then = x.then
          /\ y.writes = x.writes /\ y.phase = x.phase
      BY <3>3, <3>4
    <3>7. x.n \in Ids /\ x.n # m
      BY <1>1, <1>3, <2>1, <2>5, Numbered DEF EInv
    <3>8. Filed(x)'
      BY <1>2, <1>3, <2>2, <3>7, FiledStays
    <3>9. Filed(y)'
      BY <3>6, <3>8 DEF Filed, Storing, Storeless
    <3>10. QED
      BY <2>1, <2>5, <3>5, <3>6, <3>9 DEF Busy
  <2>6. QED
    <3>1. slot'[q] = IF q = r THEN After(r)
                     ELSE IF Busy(q)
                     THEN [slot[q] EXCEPT !.overtaken = @ \/ db' # db] ELSE Idle
      BY DEF Commit
    <3>2. q = r /\ x.then = "answer" => slot'[q] = Idle
      BY <2>1, <3>1 DEF After
    <3>3. q # r /\ ~Busy(q) => slot'[q] = Idle
      BY <3>1
    <3>4. QED
      BY <2>3, <2>4, <2>5, <3>2, <3>3
<1>6. \A q, p \in Slots : (q # p /\ Busy(q) /\ Busy(p) => slot[q].n # slot[p].n)'
  <2> TAKE q, p \in Slots
  <2>1. q # p /\ Busy(q)' /\ Busy(p)' => slot[q].n # slot[p].n
    BY <1>5 DEF EInv
  <2>2. QED
    BY <1>5, <2>1
<1>7. \A n \in Ids : n > served => n # m
  BY <1>3, <1>4 DEF Ids
<1>8. \A n \in Ids : (n > served => n \notin files /\ evidence[n] = NoRow)'
  BY <1>2, <1>3, <1>7 DEF EInv
<1>9. QED
  BY <1>5, <1>6, <1>8 DEF EInv

\* A request begins, as an upload or as anything else.
Ordinary(r) ==
    \E op, on, writes, then :
        /\ BeginAt(r, "flush", op, on, writes, then)
        /\ UNCHANGED db /\ files' = files
        /\ op # "evidence_add" /\ then # "refresh"

Upload(r) ==
    \E on, writes :
        /\ BeginAt(r, "saving", "evidence_add", on, writes, "refresh")
        /\ UNCHANGED db /\ files' = files \cup {Number}
        /\ Filing(writes, Number)

LEMMA RequestBegins ==
    ASSUME NEW r \in Slots, NEW op, NEW on, NEW writes,
           Request(r, op, on, writes), op # "evidence_add"
    PROVE  Ordinary(r)
<1>1. BeginAt(r, "flush", op, on, writes, "answer") /\ UNCHANGED db /\ files' = files
  BY DEF Request, Begin
<1>2. "answer" # "refresh"
  OBVIOUS
<1>3. QED
  BY <1>1, <1>2 DEF Ordinary

LEMMA BrandBegins ==
    ASSUME NEW r \in Slots, BrandRequest(r)
    PROVE  Ordinary(r)
<1>1. ASSUME NEW official \in Officials, create_brand(r, official)
      PROVE  Ordinary(r)
  <2>1. \E writes : Request(r, "brand_create", Number, writes)
    BY <1>1 DEF create_brand
  <2>2. QED
    BY <2>1, RequestBegins
<1>2. ASSUME NEW b \in Ids, NEW official \in Officials, NEW clear \in BOOLEAN,
             update_brand(r, b, official, clear)
      PROVE  Ordinary(r)
  <2>1. PICK op : op = IF clear THEN "brand_clear" ELSE "brand_update"
    OBVIOUS
  <2>2. \E writes : Request(r, op, b, writes)
    BY <1>2, <2>1 DEF update_brand
  <2>3. op # "evidence_add"
    BY <2>1
  <2>4. QED
    BY <2>2, <2>3, RequestBegins
<1>3. ASSUME NEW b \in Ids, archive_brand(r, b)
      PROVE  Ordinary(r)
  <2>1. \E writes : Request(r, "brand_archive", b, writes)
    BY <1>3 DEF archive_brand
  <2>2. QED
    BY <2>1, RequestBegins
<1>4. ASSUME NEW b \in Ids, unarchive_brand(r, b)
      PROVE  Ordinary(r)
  <2>1. \E writes : Request(r, "brand_unarchive", b, writes)
    BY <1>4 DEF unarchive_brand
  <2>2. QED
    BY <2>1, RequestBegins
<1>5. ASSUME NEW b \in Ids, NEW force \in BOOLEAN, delete_brand(r, b, force)
      PROVE  Ordinary(r)
  <2>1. PICK op : op = IF force THEN "brand_delete_force" ELSE "brand_delete"
    OBVIOUS
  <2>2. \E writes : Request(r, op, b, writes)
    BY <1>5, <2>1 DEF delete_brand
  <2>3. op # "evidence_add"
    BY <2>1
  <2>4. QED
    BY <2>2, <2>3, RequestBegins
<1>6. ASSUME NEW b \in Ids, NEW seen, scan(r, b, seen)
      PROVE  Ordinary(r)
  <2>1. PICK writes : /\ BeginAt(r, "flush", "scan", b, writes, "dispatch")
                      /\ UNCHANGED db /\ files' = files
    BY <1>6 DEF scan, Begin
  <2>2. "dispatch" # "refresh" /\ "scan" # "evidence_add"
    OBVIOUS
  <2>3. QED
    BY <2>1, <2>2 DEF Ordinary
<1>7. ASSUME NEW k \in FindingKeys, NEW status \in Labels,
             update_finding_status(r, k, status)
      PROVE  Ordinary(r)
  <2>1. \E writes : Request(r, "finding_status", k, writes)
    BY <1>7 DEF update_finding_status
  <2>2. QED
    BY <2>1, RequestBegins
<1>8. ASSUME NEW k \in FindingKeys, resend_alert(r, k)
      PROVE  Ordinary(r)
  <2>1. PICK writes : /\ BeginAt(r, "flush", "finding_alert", k, writes, "answer")
                      /\ UNCHANGED db /\ files' = files
    BY <1>8 DEF resend_alert, Begin
  <2>2. "answer" # "refresh" /\ "finding_alert" # "evidence_add"
    OBVIOUS
  <2>3. QED
    BY <2>1, <2>2 DEF Ordinary
<1>9. QED
  BY <1>1, <1>2, <1>3, <1>4, <1>5, <1>6, <1>7, <1>8 DEF BrandRequest

LEMMA CaseBegins ==
    ASSUME IInv, NEW r \in Slots, CaseRequest(r)
    PROVE  Ordinary(r) \/ Upload(r)
<1>1. ASSUME NEW b, NEW k, NEW assignee, create_case(r, b, k, assignee)
      PROVE  Ordinary(r) \/ Upload(r)
  <2>1. \E writes : Request(r, "case_create", k, writes)
    BY <1>1 DEF create_case
  <2>2. QED
    BY <2>1, RequestBegins
<1>2. ASSUME NEW c \in Ids, NEW body \in Patches, NEW admin \in BOOLEAN,
             update_case(r, c, body, admin)
      PROVE  Ordinary(r) \/ Upload(r)
  <2>1. PICK part : part = AssignPart(cases[c], body, admin)
    OBVIOUS
  <2>2. PICK then, on, writes :
          /\ then = part.then
          /\ BeginAt(r, "flush", "case_update", on, writes, then)
    BY <1>2, <2>1 DEF update_case, Begin
  <2>3. cases[c] # NoRow /\ part # Refused /\ UNCHANGED db /\ files' = files
    BY <1>2, <2>1 DEF update_case
  <2>4. cases[c] \in InvestigationCase
    BY <2>3 DEF IInv, TypeOK
  <2>5. then \in {"answer", "fields", "status"}
    BY <2>1, <2>2, <2>3, <2>4, AssignPartOK DEF PartOK
  <2>6. then # "refresh" /\ "case_update" # "evidence_add"
    BY <2>5
  <2>7. QED
    BY <2>2, <2>3, <2>6 DEF Ordinary
<1>3. ASSUME NEW c \in Ids, NEW k, add_evidence(r, c, k)
      PROVE  Ordinary(r) \/ Upload(r)
  <2>1. PICK n, needs :
          /\ n = Number
          /\ needs = IF k = NoRow THEN {} ELSE {<<"findings", k, findings[k].id>>}
    OBVIOUS
  <2>2. PICK row : row = [id |-> n, case |-> c, finding |-> k]
    OBVIOUS
  <2>3. PICK w : w = [Insert("evidence", n, row) EXCEPT !.needs = needs]
    OBVIOUS
  <2>4. PICK writes : writes = {w}
    OBVIOUS
  <2>5. /\ BeginAt(r, "saving", "evidence_add", c, writes, "refresh")
        /\ UNCHANGED db /\ files' = files \cup {Number}
    BY <1>3, <2>1, <2>2, <2>3, <2>4 DEF add_evidence
  <2>6. w.at = <<"evidence", n>> /\ w.how = "insert"
    BY <2>3 DEF Insert
  <2>7. Filing(writes, Number)
    BY <2>1, <2>4, <2>6 DEF Filing
  <2>8. QED
    BY <2>5, <2>7 DEF Upload
<1>4. QED
  BY <1>1, <1>2, <1>3 DEF CaseRequest

LEMMA BeginsE ==
    ASSUME IInv, EInv, NEW r \in Slots, Ordinary(r) \/ Upload(r)
    PROVE  EInv'
<1>1. CASE Ordinary(r)
  <2>1. PICK op, on, writes, then :
          /\ BeginAt(r, "flush", op, on, writes, then)
          /\ UNCHANGED db /\ files' = files
          /\ op # "evidence_add" /\ then # "refresh"
    BY <1>1 DEF Ordinary
  <2>2. QED
    BY <2>1, BeginE
<1>2. CASE Upload(r)
  <2>1. PICK on, writes :
          /\ BeginAt(r, "saving", "evidence_add", on, writes, "refresh")
          /\ UNCHANGED db /\ files' = files \cup {Number}
          /\ Filing(writes, Number)
    BY <1>2 DEF Upload
  <2>2. QED
    BY <2>1, BeginE
<1>3. QED
  BY <1>1, <1>2

\* The end of a request that nothing is left of, but perhaps its file.
LEMMA EndsE ==
    ASSUME IInv, EInv, NEW r \in Slots, Busy(r), slot' = [slot EXCEPT ![r] = Idle],
           UNCHANGED <<db, served>>, files' \in {files, files \ {slot[r].n}}
    PROVE  EInv'
<1>1. Idle.phase = "idle"
  BY DEF Idle
<1>2. \A n \in Ids : n # slot[r].n => (n \in files' <=> n \in files)
  OBVIOUS
<1>3. UNCHANGED db /\ UNCHANGED served
  OBVIOUS
<1>4. QED
  BY <1>1, <1>2, <1>3, SlotE

\* A request that goes on: its number and its kind stay.
LEMMA GoesOnE ==
    ASSUME IInv, EInv, NEW r \in Slots, Busy(r), NEW y, slot' = [slot EXCEPT ![r] = y],
           UNCHANGED <<db, served, files>>, y.n = slot[r].n, y.op = slot[r].op,
           y.op = "evidence_add" =>
             /\ y.then = slot[r].then /\ y.phase = "flush"
             /\ slot[r].phase # "refresh" /\ y.writes = slot[r].writes,
           y.op # "evidence_add" =>
             y.then # "refresh" /\ y.phase \notin {"saving", "refresh"}
    PROVE  EInv'
<1>1. PICK x : x = slot[r]
  OBVIOUS
<1>2. Filed(x) /\ x.phase # "idle"
  BY <1>1 DEF EInv, Busy
<1>3. /\ evidence' = evidence /\ files' = files /\ served' = served
      /\ UNCHANGED db /\ UNCHANGED served
  BY DEF evidence
<1>4. y.op = "evidence_add" => Storing(y)'
  BY <1>1, <1>2, <1>3 DEF Filed, Storing
<1>5. y.op # "evidence_add" => Storeless(y)'
  BY <1>1, <1>2, <1>3 DEF Filed, Storeless
<1>6. Filed(y)'
  BY <1>1, <1>2, <1>3, <1>4, <1>5 DEF Filed
<1>7. QED
  BY <1>3, <1>6, SlotE

LEMMA DispatchE ==
    ASSUME IInv, EInv, NEW r \in Slots, dispatch_new_findings(r)
    PROVE  EInv'
<1>1. PICK x, ks : x = slot[r] /\ ks = ToAlert(r)
  OBVIOUS
<1>2. SlotOK(x) /\ Filed(x) /\ x.phase = "dispatch"
  BY <1>1 DEF IInv, EInv, dispatch_new_findings
<1>3. Busy(r) /\ UNCHANGED <<db, served, files>>
  BY DEF dispatch_new_findings, Busy
<1>4. CASE ks = {}
  <2>1. slot' = [slot EXCEPT ![r] = Idle]
    BY <1>1, <1>4 DEF dispatch_new_findings
  <2>2. QED
    BY <1>3, <2>1, EndsE
<1>5. CASE ks # {}
  <2>1. PICK y : y = [x EXCEPT !.phase = "flush", !.writes = Flag(ks),
                               !.then = "answer", !.overtaken = FALSE]
    OBVIOUS
  <2>2. slot' = [slot EXCEPT ![r] = y]
    BY <1>1, <1>5, <2>1 DEF dispatch_new_findings, IInv
  <2>3. DOMAIN x = {"phase", "op", "on", "n", "writes", "then", "overtaken"}
    BY <1>2 DEF SlotOK
  <2>4. y.phase = "flush" /\ y.then = "answer" /\ y.n = x.n /\ y.op = x.op
    BY <2>1, <2>3
  <2>5. x.op # "evidence_add"
    BY <1>2 DEF Filed, Storing
  <2>6. QED
    BY <1>1, <1>3, <2>2, <2>4, <2>5, GoesOnE
<1>6. QED
  BY <1>4, <1>5

LEMMA UpdateContinuesE ==
    ASSUME IInv, EInv, NEW r \in Slots, update_case_continues(r)
    PROVE  EInv'
<1>1. PICK x, on : x = slot[r] /\ on = x.on
  OBVIOUS
<1>2. PICK row : row = cases[on.case]
  OBVIOUS
<1>3. PICK part : part = IF x.phase = "status"
                         THEN StatusPart(row, on.body, on.admin) ELSE FieldsPart(row)
  OBVIOUS
<1>4. SlotOK(x) /\ Filed(x) /\ x.phase \in {"status", "fields"}
  BY <1>1 DEF IInv, EInv, update_case_continues
<1>5. PatchOK(on)
  BY <1>1, <1>4 DEF SlotOK
<1>6. row \in InvestigationCase
  BY <1>2, <1>5 DEF PatchOK, IInv, TypeOK
<1>7. part # Refused => part.then \in {"answer", "fields", "status"}
  <2>1. PartOK(FieldsPart(row), row)
    BY <1>6 DEF PartOK, FieldsPart, SameSubject
  <2>2. PartOK(StatusPart(row, on.body, on.admin), row)
    BY <1>5, <1>6, StatusPartOK DEF PatchOK
  <2>3. QED
    BY <1>3, <2>1, <2>2 DEF PartOK
<1>8. Busy(r) /\ UNCHANGED <<db, served, files>>
  BY DEF update_case_continues, Busy
<1>9. CASE part = Refused
  <2>1. slot' = [slot EXCEPT ![r] = Idle]
    BY <1>1, <1>2, <1>3, <1>9 DEF update_case_continues
  <2>2. QED
    BY <1>8, <2>1, EndsE
<1>10. CASE part # Refused
  <2>1. PICK y : y = [x EXCEPT !.phase = "flush", !.then = part.then,
                               !.writes = CaseWrites(on.case, part.row),
                               !.overtaken = FALSE]
    OBVIOUS
  <2>2. slot' = [slot EXCEPT ![r] = y]
    BY <1>1, <1>2, <1>3, <1>10, <2>1 DEF update_case_continues, IInv
  <2>3. DOMAIN x = {"phase", "op", "on", "n", "writes", "then", "overtaken"}
    BY <1>4 DEF SlotOK
  <2>4. y.phase = "flush" /\ y.then = part.then /\ y.n = x.n /\ y.op = x.op
    BY <2>1, <2>3
  <2>5. x.op # "evidence_add"
    BY <1>4 DEF Filed, Storing
  <2>6. y.then # "refresh"
    BY <1>7, <1>10, <2>4
  <2>7. QED
    BY <1>1, <1>8, <2>2, <2>4, <2>5, <2>6, GoesOnE
<1>11. QED
  BY <1>9, <1>10

LEMMA SaveStreamE ==
    ASSUME IInv, EInv, NEW r \in Slots, save_stream(r)
    PROVE  EInv'
<1>1. PICK x : x = slot[r]
  OBVIOUS
<1>2. SlotOK(x) /\ Filed(x) /\ x.phase = "saving"
  BY <1>1 DEF IInv, EInv, save_stream
<1>3. PICK y : y = [x EXCEPT !.phase = "flush"]
  OBVIOUS
<1>4. slot' = [slot EXCEPT ![r] = y]
  BY <1>1, <1>3 DEF save_stream, IInv
<1>5. DOMAIN x = {"phase", "op", "on", "n", "writes", "then", "overtaken"}
  BY <1>2 DEF SlotOK
<1>6. /\ y.n = x.n /\ y.op = x.op /\ y.then = x.then /\ y.writes = x.writes
      /\ y.phase = "flush"
  BY <1>3, <1>5
<1>7. Busy(r) /\ UNCHANGED <<db, served, files>>
  BY DEF save_stream, Busy
<1>8. x.op # "evidence_add" => FALSE
  BY <1>2 DEF Filed, Storeless
<1>9. QED
  BY <1>1, <1>2, <1>4, <1>6, <1>7, <1>8, GoesOnE

LEMMA FlushFailsE ==
    ASSUME IInv, EInv, NEW r \in Slots, FlushFails(r)
    PROVE  EInv'
<1>1. PICK x : x = slot[r]
  OBVIOUS
<1>2. SlotOK(x) /\ Filed(x) /\ x.phase = "flush"
  BY <1>1 DEF IInv, EInv, FlushFails
<1>3. /\ Busy(r) /\ UNCHANGED <<db, served>>
      /\ files' = IF x.op = "evidence_add" THEN files \ {x.n} ELSE files
  BY <1>1 DEF FlushFails, FilesAfterFailure, Busy
<1>4. CASE x.then \in {"status", "fields"}
  <2>1. PICK y : y = [x EXCEPT !.phase = x.then, !.writes = {}]
    OBVIOUS
  <2>2. slot' = [slot EXCEPT ![r] = y]
    BY <1>1, <1>4, <2>1 DEF FlushFails, IInv
  <2>3. DOMAIN x = {"phase", "op", "on", "n", "writes", "then", "overtaken"}
    BY <1>2 DEF SlotOK
  <2>4. y.phase = x.then /\ y.then = x.then /\ y.n = x.n /\ y.op = x.op
    BY <2>1, <2>3
  <2>5. x.op # "evidence_add"
    BY <1>2, <1>4 DEF Filed, Storing
  <2>6. UNCHANGED <<db, served, files>>
    BY <1>3, <2>5
  <2>7. QED
    BY <1>1, <1>3, <1>4, <2>2, <2>4, <2>5, <2>6, GoesOnE
<1>5. CASE x.then \notin {"status", "fields"}
  <2>1. slot' = [slot EXCEPT ![r] = Idle]
    BY <1>1, <1>5 DEF FlushFails
  <2>2. files' \in {files, files \ {slot[r].n}}
    BY <1>1, <1>3
  <2>3. QED
    BY <1>3, <2>1, <2>2, EndsE
<1>6. QED
  BY <1>4, <1>5

LEMMA ContinueE ==
    ASSUME IInv, JInv, EInv, NEW r \in Slots, Continue(r)
    PROVE  EInv'
<1>1. CASE Flush(r)
  BY <1>1, CommitE DEF Flush
<1>2. CASE FlushFails(r)
  BY <1>2, FlushFailsE
<1>3. CASE dispatch_new_findings(r)
  BY <1>3, DispatchE
<1>4. CASE DispatchFails(r)
  BY <1>4, EndsE DEF DispatchFails, Busy
<1>5. CASE update_case_continues(r)
  BY <1>5, UpdateContinuesE
<1>6. CASE save_stream(r)
  BY <1>6, SaveStreamE
<1>7. CASE TooLarge(r)
  BY <1>7, EndsE DEF TooLarge, Busy
<1>8. CASE DiskFails(r)
  BY <1>8, EndsE DEF DiskFails, Busy
<1>9. CASE Refreshed(r)
  BY <1>9, EndsE DEF Refreshed, Busy
<1>10. CASE RefreshFails(r)
  BY <1>10, EndsE DEF RefreshFails, Busy
<1>11. QED
  BY <1>1, <1>2, <1>3, <1>4, <1>5, <1>6, <1>7, <1>8, <1>9, <1>10 DEF Continue

LEMMA NextE ==
    ASSUME IInv, JInv, EInv, [Next]_vars
    PROVE  EInv'
<1>1. ASSUME NEW r \in Slots, BrandRequest(r) \/ CaseRequest(r) \/ Continue(r)
      PROVE  EInv'
  BY <1>1, BrandBegins, CaseBegins, BeginsE, ContinueE
<1>2. CASE Die
  <2>1. /\ slot' = [r \in Slots |-> Idle] /\ served' = served /\ files' = files
        /\ evidence' = evidence
    BY <1>2 DEF Die, Crash, evidence
  <2>2. \A q \in Slots : Filed(slot[q])' /\ ~Busy(q)'
    BY <2>1 DEF Filed, Idle, Busy
  <2>3. QED
    BY <2>1, <2>2 DEF EInv
<1>3. CASE UNCHANGED vars
  BY <1>3 DEF vars, evidence, EInv, Filed, Storing, Storeless, Busy
<1>4. QED
  BY <1>1, <1>2, <1>3 DEF Next

LEMMA Stored == Spec => [](IInv /\ JInv /\ EInv)
<1>1. Init => EInv
  <2>1. SUFFICES ASSUME Init PROVE EInv
    OBVIOUS
  <2>2. db = Tables /\ slot = [r \in Slots |-> Idle] /\ files = {}
    BY <2>1 DEF Init, Start
  <2>3. \A i \in Ids : evidence[i] = NoRow
    <3>1. evidence = Tables.evidence
      BY <2>2 DEF evidence
    <3>2. Tables.evidence = [i \in Ids |-> NoRow]
      BY DEF Tables
    <3>3. QED
      BY <3>1, <3>2
  <2>4. Filed(Idle) /\ Idle.phase = "idle"
    BY DEF Filed, Idle
  <2>5. \A r \in Slots : Filed(slot[r]) /\ ~Busy(r)
    BY <2>2, <2>4 DEF Busy
  <2>6. QED
    BY <2>2, <2>3, <2>5 DEF EInv
<1>2. IInv /\ JInv /\ EInv /\ [Next]_vars => EInv'
  BY NextE
<1>3. QED
  BY <1>1, <1>2, Decided, PTL DEF Spec

-----------------------------------------------------------------------------
(***************************************************************************)
(* EvidenceStored, step by step: whoever holds the number n answers for it. *)
(***************************************************************************)
\* The other requests go on with their numbers.
OthersStay(r) ==
    \A q \in Slots : q # r /\ Busy(q) =>
        slot'[q].phase # "idle" /\ slot'[q].n = slot[q].n

\* The rows and the files of the other numbers stay.
OnlyOwn(r) ==
    \A n \in Ids : n # slot[r].n =>
        /\ n \in files' <=> n \in files
        /\ evidence'[n] = NoRow <=> evidence[n] = NoRow

LEMMA OthersKept ==
    ASSUME IInv, NEW r \in Slots, NEW y, slot' = [slot EXCEPT ![r] = y]
    PROVE  OthersStay(r) /\ slot'[r] = y
  BY DEF OthersStay, IInv, Busy

LEMMA AgreeBegins ==
    ASSUME IInv, NEW r \in Slots, Ordinary(r) \/ Upload(r), NEW n \in Ids, Agree(n)
    PROVE  Agree(n)'
<1>1. PICK m : m = Number
  OBVIOUS
<1>2. PICK phase, op, on, writes, then :
        phase \in {"flush", "saving"} /\ BeginAt(r, phase, op, on, writes, then)
  BY DEF Ordinary, Upload
<1>3. files' \in {files, files \cup {m}} /\ UNCHANGED db
  BY <1>1 DEF Ordinary, Upload
<1>4. PICK y : y = [phase |-> phase, op |-> op, on |-> on, n |-> m,
                    writes |-> writes, then |-> then, overtaken |-> FALSE]
  OBVIOUS
<1>5. slot' = [slot EXCEPT ![r] = y] /\ ~Busy(r)
  BY <1>1, <1>2, <1>4 DEF BeginAt, Free
<1>6. OthersStay(r) /\ slot'[r] = y
  BY <1>5, OthersKept
<1>7. y.n = m /\ y.phase # "idle"
  BY <1>2, <1>4
<1>8. (Handling(n) \/ n = m) => Handling(n)'
  BY <1>5, <1>6, <1>7 DEF Handling, OthersStay, Busy
<1>9. evidence' = evidence
  BY <1>3 DEF evidence
<1>10. n # m => (n \in files' <=> n \in files)
  BY <1>3
<1>11. QED
  BY <1>8, <1>9, <1>10 DEF Agree

LEMMA AgreeGoesOn ==
    ASSUME NEW r \in Slots, OthersStay(r), OnlyOwn(r),
           slot'[r].phase # "idle", slot'[r].n = slot[r].n,
           NEW n \in Ids, Agree(n)
    PROVE  Agree(n)'
<1>1. (Handling(n) \/ n = slot[r].n) => Handling(n)'
  BY DEF Handling, Busy, OthersStay
<1>2. QED
  BY <1>1 DEF Agree, OnlyOwn

\* It ends with database and disk at one about its number.
LEMMA AgreeEnds ==
    ASSUME NEW r \in Slots, OthersStay(r), OnlyOwn(r),
           slot[r].n \in files' <=> evidence'[slot[r].n] # NoRow,
           NEW n \in Ids, Agree(n)
    PROVE  Agree(n)'
<1>1. Handling(n) /\ n # slot[r].n => Handling(n)'
  BY DEF Handling, Busy, OthersStay
<1>2. QED
  BY <1>1 DEF Agree, OnlyOwn

LEMMA OwnEnds ==
    ASSUME IInv, EInv, NEW r \in Slots, Busy(r), slot' = [slot EXCEPT ![r] = Idle],
           UNCHANGED db,
           \/ slot[r].op # "evidence_add" /\ files' \in {files, files \ {slot[r].n}}
           \/ slot[r].phase = "refresh" /\ files' = files
           \/ slot[r].phase # "refresh" /\ files' = files \ {slot[r].n},
           NEW n \in Ids, Agree(n)
    PROVE  Agree(n)'
<1>1. PICK x : x = slot[r]
  OBVIOUS
<1>2. Filed(x) /\ x.phase # "idle" /\ x.n \in Ids
  BY <1>1, Numbered DEF EInv, Busy
<1>3. evidence' = evidence
  BY DEF evidence
<1>4. OnlyOwn(r)
  BY <1>3 DEF OnlyOwn
<1>5. x.n \in files' <=> evidence'[x.n] # NoRow
  <2>1. CASE x.op = "evidence_add"
    <3>1. x.n \in files /\ (evidence[x.n] # NoRow <=> x.phase = "refresh")
      BY <1>2, <2>1 DEF Filed, Storing
    <3>2. QED
      BY <1>1, <1>3, <2>1, <3>1
  <2>2. CASE x.op # "evidence_add"
    <3>1. x.n \notin files /\ evidence[x.n] = NoRow
      BY <1>2, <2>2 DEF Filed, Storeless
    <3>2. x.phase # "refresh"
      BY <1>2, <2>2 DEF Filed, Storeless
    <3>3. QED
      BY <1>1, <1>3, <3>1, <3>2
  <2>3. QED
    BY <2>1, <2>2
<1>6. OthersStay(r)
  BY OthersKept
<1>7. QED
  BY <1>1, <1>4, <1>5, <1>6, AgreeEnds

LEMMA OwnGoesOn ==
    ASSUME IInv, NEW r \in Slots, NEW y, slot' = [slot EXCEPT ![r] = y],
           UNCHANGED <<db, files>>, y.phase # "idle", y.n = slot[r].n,
           NEW n \in Ids, Agree(n)
    PROVE  Agree(n)'
<1>1. OthersStay(r) /\ slot'[r] = y
  BY OthersKept
<1>2. OnlyOwn(r)
  BY DEF OnlyOwn, evidence
<1>3. QED
  BY <1>1, <1>2, AgreeGoesOn

LEMMA AgreeFlush ==
    ASSUME IInv, JInv, EInv, NEW r \in Slots, Flush(r), NEW n \in Ids, Agree(n)
    PROVE  Agree(n)'
<1>1. Commit(r, References) /\ files' = files
  BY DEF Flush
<1>2. PICK x : x = slot[r]
  OBVIOUS
<1>3. SlotOK(x) /\ Filed(x) /\ x.phase = "flush"
  BY <1>1, <1>2 DEF IInv, EInv, Commit
<1>4. OnlyOwn(r)
  BY <1>1, FlushedEvidence DEF OnlyOwn
<1>5. OthersStay(r)
  <2>1. ASSUME NEW q \in Slots, q # r, Busy(q)
        PROVE  slot'[q].phase # "idle" /\ slot'[q].n = slot[q].n
    <3>1. PICK z, late : z = slot[q] /\ late = (db' # db)
      OBVIOUS
    <3>2. slot'[q] = [z EXCEPT !.overtaken = @ \/ late]
      BY <1>1, <2>1, <3>1 DEF Commit
    <3>3. PICK y : y = [z EXCEPT !.overtaken = z.overtaken \/ late]
      OBVIOUS
    <3>4. /\ z.phase # "idle"
          /\ DOMAIN z = {"phase", "op", "on", "n", "writes", "then", "overtaken"}
      BY <2>1, <3>1 DEF IInv, SlotOK, Busy
    <3>5. slot'[q] = y
      BY <3>2, <3>3, <3>4
    <3>6. y.n = z.n /\ y.phase = z.phase
      BY <3>3, <3>4
    <3>7. QED
      BY <3>1, <3>4, <3>5, <3>6
  <2>2. QED
    BY <2>1 DEF OthersStay
<1>6. CASE x.then = "answer"
  <2>1. x.op # "evidence_add"
    BY <1>3, <1>6 DEF Filed, Storing
  <2>2. x.n \notin files' /\ evidence'[x.n] = NoRow
    BY <1>1, <1>2, <1>3, <2>1, FlushedEvidence DEF Filed, Storeless
  <2>3. QED
    BY <1>2, <1>4, <1>5, <2>2, AgreeEnds
<1>7. CASE x.then # "answer"
  <2>1. PICK y : y = [x EXCEPT !.phase = x.then, !.writes = {}, !.overtaken = FALSE]
    OBVIOUS
  <2>2. slot'[r] = y
    BY <1>1, <1>2, <1>7, <2>1 DEF Commit, After
  <2>3. /\ x.then # "idle"
        /\ DOMAIN x = {"phase", "op", "on", "n", "writes", "then", "overtaken"}
    BY <1>3 DEF SlotOK
  <2>4. y.phase = x.then /\ y.n = x.n
    BY <2>1, <2>3
  <2>5. QED
    BY <1>2, <1>4, <1>5, <2>2, <2>3, <2>4, AgreeGoesOn
<1>8. QED
  BY <1>6, <1>7

LEMMA AgreeFlushFails ==
    ASSUME IInv, EInv, NEW r \in Slots, FlushFails(r), NEW n \in Ids, Agree(n)
    PROVE  Agree(n)'
<1>1. PICK x : x = slot[r]
  OBVIOUS
<1>2. SlotOK(x) /\ Filed(x) /\ x.phase = "flush"
  BY <1>1 DEF IInv, EInv, FlushFails
<1>3. /\ Busy(r) /\ UNCHANGED db
      /\ files' = IF x.op = "evidence_add" THEN files \ {x.n} ELSE files
  BY <1>1 DEF FlushFails, FilesAfterFailure, Busy
<1>4. CASE x.then \in {"status", "fields"}
  <2>1. PICK y : y = [x EXCEPT !.phase = x.then, !.writes = {}]
    OBVIOUS
  <2>2. slot' = [slot EXCEPT ![r] = y]
    BY <1>1, <1>4, <2>1 DEF FlushFails, IInv
  <2>3. DOMAIN x = {"phase", "op", "on", "n", "writes", "then", "overtaken"}
    BY <1>2 DEF SlotOK
  <2>4. y.phase = x.then /\ y.n = x.n
    BY <2>1, <2>3
  <2>5. x.op # "evidence_add"
    BY <1>2, <1>4 DEF Filed, Storing
  <2>6. UNCHANGED <<db, files>> /\ y.phase # "idle"
    BY <1>3, <1>4, <2>4, <2>5
  <2>7. QED
    BY <1>1, <2>2, <2>4, <2>6, OwnGoesOn
<1>5. CASE x.then \notin {"status", "fields"}
  <2>1. slot' = [slot EXCEPT ![r] = Idle]
    BY <1>1, <1>5 DEF FlushFails
  <2>2. \/ slot[r].op # "evidence_add" /\ files' \in {files, files \ {slot[r].n}}
        \/ slot[r].phase # "refresh" /\ files' = files \ {slot[r].n}
    BY <1>1, <1>2, <1>3
  <2>3. QED
    BY <1>3, <2>1, <2>2, OwnEnds
<1>6. QED
  BY <1>4, <1>5

LEMMA AgreeDispatch ==
    ASSUME IInv, EInv, NEW r \in Slots,
           dispatch_new_findings(r) \/ DispatchFails(r), NEW n \in Ids, Agree(n)
    PROVE  Agree(n)'
<1>1. PICK x, ks : x = slot[r] /\ ks = ToAlert(r)
  OBVIOUS
<1>2. SlotOK(x) /\ Filed(x) /\ x.phase = "dispatch"
  BY <1>1 DEF IInv, EInv, dispatch_new_findings, DispatchFails
<1>3. Busy(r) /\ UNCHANGED <<db, files>>
  BY DEF dispatch_new_findings, DispatchFails, Busy
<1>4. x.op # "evidence_add"
  BY <1>2 DEF Filed, Storing
<1>5. CASE slot' = [slot EXCEPT ![r] = Idle]
  BY <1>1, <1>3, <1>4, <1>5, OwnEnds
<1>6. CASE slot' # [slot EXCEPT ![r] = Idle]
  <2>1. PICK y : y = [x EXCEPT !.phase = "flush", !.writes = Flag(ks),
                               !.then = "answer", !.overtaken = FALSE]
    OBVIOUS
  <2>2. slot' = [slot EXCEPT ![r] = y]
    BY <1>1, <1>6, <2>1 DEF dispatch_new_findings, DispatchFails, IInv
  <2>3. DOMAIN x = {"phase", "op", "on", "n", "writes", "then", "overtaken"}
    BY <1>2 DEF SlotOK
  <2>4. y.phase # "idle" /\ y.n = x.n
    BY <2>1, <2>3
  <2>5. QED
    BY <1>1, <1>3, <2>2, <2>4, OwnGoesOn
<1>7. QED
  BY <1>5, <1>6

LEMMA AgreeUpdate ==
    ASSUME IInv, EInv, NEW r \in Slots, update_case_continues(r),
           NEW n \in Ids, Agree(n)
    PROVE  Agree(n)'
<1>1. PICK x : x = slot[r]
  OBVIOUS
<1>2. SlotOK(x) /\ Filed(x) /\ x.phase \in {"status", "fields"}
  BY <1>1 DEF IInv, EInv, update_case_continues
<1>3. Busy(r) /\ UNCHANGED <<db, files>>
  BY DEF update_case_continues, Busy
<1>4. x.op # "evidence_add"
  BY <1>2 DEF Filed, Storing
<1>5. CASE slot' = [slot EXCEPT ![r] = Idle]
  BY <1>1, <1>3, <1>4, <1>5, OwnEnds
<1>6. CASE slot' # [slot EXCEPT ![r] = Idle]
  <2>1. PICK then, writes :
          slot' = [slot EXCEPT ![r] = [x EXCEPT !.phase = "flush", !.then = then,
                                                !.writes = writes, !.overtaken = FALSE]]
    BY <1>1, <1>6 DEF update_case_continues, IInv
  <2>2. PICK y : y = [x EXCEPT !.phase = "flush", !.then = then,
                               !.writes = writes, !.overtaken = FALSE]
    OBVIOUS
  <2>3. slot' = [slot EXCEPT ![r] = y]
    BY <2>1, <2>2
  <2>4. DOMAIN x = {"phase", "op", "on", "n", "writes", "then", "overtaken"}
    BY <1>2 DEF SlotOK
  <2>5. y.phase # "idle" /\ y.n = x.n
    BY <2>2, <2>4
  <2>6. QED
    BY <1>1, <1>3, <2>3, <2>5, OwnGoesOn
<1>7. QED
  BY <1>5, <1>6

LEMMA AgreeSaved ==
    ASSUME IInv, EInv, NEW r \in Slots, save_stream(r), NEW n \in Ids, Agree(n)
    PROVE  Agree(n)'
<1>1. PICK x : x = slot[r]
  OBVIOUS
<1>2. SlotOK(x) /\ x.phase = "saving"
  BY <1>1 DEF IInv, save_stream
<1>3. PICK y : y = [x EXCEPT !.phase = "flush"]
  OBVIOUS
<1>4. slot' = [slot EXCEPT ![r] = y] /\ UNCHANGED <<db, files>>
  BY <1>1, <1>3 DEF save_stream, IInv
<1>5. DOMAIN x = {"phase", "op", "on", "n", "writes", "then", "overtaken"}
  BY <1>2 DEF SlotOK
<1>6. y.n = x.n /\ y.phase = "flush"
  BY <1>3, <1>5
<1>7. QED
  BY <1>1, <1>4, <1>6, OwnGoesOn

LEMMA StoredStep ==
    ASSUME IInv, JInv, EInv, [Next]_vars, NEW n \in Ids, Agree(n), ~Agree(n)'
    PROVE  Die \/ \E r \in Slots : DiskFails(r) \/ RefreshFails(r)
<1>1. ASSUME NEW r \in Slots, BrandRequest(r) \/ CaseRequest(r)
      PROVE  Agree(n)'
  BY <1>1, BrandBegins, CaseBegins, AgreeBegins
<1>2. ASSUME NEW r \in Slots, Continue(r), ~DiskFails(r), ~RefreshFails(r)
      PROVE  Agree(n)'
  <2>1. CASE TooLarge(r)
    <3>1. /\ Busy(r) /\ slot' = [slot EXCEPT ![r] = Idle] /\ UNCHANGED db
          /\ slot[r].phase # "refresh" /\ files' = files \ {slot[r].n}
      BY <2>1 DEF TooLarge, Busy
    <3>2. QED
      BY <3>1, OwnEnds
  <2>2. CASE Refreshed(r)
    <3>1. /\ Busy(r) /\ slot' = [slot EXCEPT ![r] = Idle] /\ UNCHANGED db
          /\ slot[r].phase = "refresh" /\ files' = files
      BY <2>2 DEF Refreshed, Busy
    <3>2. QED
      BY <3>1, OwnEnds
  <2>3. QED
    BY <1>2, <2>1, <2>2, AgreeFlush, AgreeFlushFails, AgreeDispatch, AgreeUpdate,
       AgreeSaved DEF Continue
<1>3. CASE UNCHANGED vars
  BY <1>3 DEF vars, Agree, Handling, Busy, evidence
<1>4. QED
  BY <1>1, <1>2, <1>3 DEF Next

\* Evidence has both its row and its file or neither once its request is over,
\* whatever step of add_evidence fails, but for the death of the process, a
\* failing disk and a failing read behind the commit (app/evidence_store.py).
THEOREM EvidenceOnDisk == Spec => EvidenceStored
<1>1. IInv /\ JInv /\ EInv /\ [Next]_vars =>
        [\A n \in Ids : Agree(n) /\ ~Agree(n)' =>
         Die \/ \E r \in Slots : DiskFails(r) \/ RefreshFails(r)]_vars
  BY StoredStep
<1>2. QED
  BY <1>1, Stored, PTL DEF Spec, EvidenceStored

=============================================================================
