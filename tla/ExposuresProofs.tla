---------------------------- MODULE ExposuresProofs ----------------------------
(***************************************************************************)
(* Theorems about Exposures, for every number of slots and requests and    *)
(* every record, file and lookup.                                          *)
(***************************************************************************)
EXTENDS Exposures, UnitOfWorkProofs, FiniteSetTheorems, WellFoundedInduction

(***************************************************************************)
(* The inductive invariant of the rows and of the writes that are pending. *)
(***************************************************************************)
TableNames == {"assets", "findings", "batches", "identities", "surface"}

Keys ==
    [assets |-> Ids, findings |-> FindingKeys, batches |-> Ids,
     identities |-> Emails, surface |-> SurfaceKeys]

\* The columns of a row and what they hold.
Columns ==
    [assets |->
       [id |-> Ids, email |-> Emails, criticality |-> DOMAIN CRIT_INTENSITY],
     findings |->
       [id |-> Ids, status |-> DOMAIN VERIFY_INTENSITY, doubt |-> 0..10,
        asset |-> Ids \cup {NoRow}, ingest |-> Ids \cup {NoRow},
        score |-> 0..100,
        detail |-> [sightings: Nat, breakdown: 0..100,
                    surface: SurfaceKeys \cup {NoRow}]],
     batches |->
       [id |-> Ids, status |-> {"completed", "rolled_back"},
        created |-> Nat, deduped |-> Nat, errors |-> Nat, total |-> Nat],
     identities |->
       [id |-> Ids, leak_count |-> Nat,
        passwords |-> SUBSET {rec.what : rec \in Records},
        vip |-> Ids \cup {NoRow}, max_risk |-> 0..100,
        status |-> {"new", "reviewing", "mitigated", "closed"}],
     surface |->
       [id |-> Ids, status |-> {"new", "confirmed", "ignored", "resolved"},
        detail |-> [finding: FindingKeys \cup {NoRow},
                    found: Lookups \cup {NoRow}]]]

Typed(t, row) ==
    /\ row = [c \in DOMAIN Columns[t] |-> row[c]]
    /\ \A c \in DOMAIN Columns[t] : row[c] \in Columns[t][c]

\* What a pending write may do to a row: an UPDATE sets columns of the table,
\* and a link to a monitored asset has had its alert sent.
WriteOK(w, alerts) ==
    \E t \in TableNames : \E k \in Keys[t] :
       /\ w.at = <<t, k>>
       /\ w.how \in {"insert", "update", "delete", "insert_twice"}
       /\ w.how = "insert" => Typed(t, w.set)
       /\ w.how = "update" =>
            \A c \in DOMAIN w.set : c \in DOMAIN Columns[t] /\ w.set[c] \in Columns[t][c]
       /\ t = "identities" /\ w.how # "delete" /\ "vip" \in DOMAIN w.set
            => w.set["vip"] = NoRow \/ <<k, w.set["vip"]>> \in alerts

SlotOK(x, alerts) ==
    x.phase # "idle" =>
        /\ DOMAIN x = {"phase", "op", "on", "n", "writes", "then", "overtaken"}
        /\ x.phase = "flush" /\ x.then = "answer"
        /\ x.n \in Ids /\ x.overtaken \in BOOLEAN
        /\ \A w \in x.writes : WriteOK(w, alerts)

TablesOK ==
    /\ DOMAIN db = TableNames
    /\ \A t \in TableNames : db[t] = [k \in Keys[t] |-> db[t][k]]
    /\ \A t \in TableNames : \A k \in Keys[t] :
         db[t][k] # NoRow => Typed(t, db[t][k])

IInv ==
    /\ TablesOK
    /\ sent \subseteq Emails \X Ids
    /\ served \in 0..MaxRequests
    /\ DOMAIN slot = Slots
    /\ \A r \in Slots : SlotOK(slot[r], sent)
    /\ VipHitAlerted

-----------------------------------------------------------------------------
(***************************************************************************)
(* Rows and their types.                                                   *)
(***************************************************************************)
LEMMA TypedRow ==
    ASSUME NEW row
    PROVE  /\ Typed("assets", row) <=> row \in Asset
           /\ Typed("findings", row) <=> row \in Finding
           /\ Typed("batches", row) <=> row \in Batch
           /\ Typed("identities", row) <=> row \in Identity
           /\ Typed("surface", row) <=> row \in Surface
<1>1. Typed("assets", row) <=> row \in Asset
  BY DEF Typed, Columns, Asset
<1>2. Typed("findings", row) <=> row \in Finding
  <2>1. PICK set : set = Columns["findings"]
    OBVIOUS
  <2>2. DOMAIN set = {"id", "status", "doubt", "asset", "ingest", "score", "detail"}
    BY <2>1 DEF Columns
  <2>3. Typed("findings", row) <=>
          /\ row = [c \in {"id", "status", "doubt", "asset", "ingest", "score", "detail"} |-> row[c]]
          /\ row["id"] \in set["id"]
          /\ row["status"] \in set["status"]
          /\ row["doubt"] \in set["doubt"]
          /\ row["asset"] \in set["asset"]
          /\ row["ingest"] \in set["ingest"]
          /\ row["score"] \in set["score"]
          /\ row["detail"] \in set["detail"]
    BY <2>1, <2>2 DEF Typed
  <2>4. row \in Finding <=>
          /\ row = [c \in {"id", "status", "doubt", "asset", "ingest", "score", "detail"} |-> row[c]]
          /\ row["id"] \in set["id"]
          /\ row["status"] \in set["status"]
          /\ row["doubt"] \in set["doubt"]
          /\ row["asset"] \in set["asset"]
          /\ row["ingest"] \in set["ingest"]
          /\ row["score"] \in set["score"]
          /\ row["detail"] \in set["detail"]
    BY <2>1 DEF Columns, Finding
  <2>5. QED
    BY <2>3, <2>4
<1>3. Typed("batches", row) <=> row \in Batch
  <2>1. PICK set : set = Columns["batches"]
    OBVIOUS
  <2>2. DOMAIN set = {"id", "status", "created", "deduped", "errors", "total"}
    BY <2>1 DEF Columns
  <2>3. Typed("batches", row) <=>
          /\ row = [c \in {"id", "status", "created", "deduped", "errors", "total"} |-> row[c]]
          /\ row["id"] \in set["id"]
          /\ row["status"] \in set["status"]
          /\ row["created"] \in set["created"]
          /\ row["deduped"] \in set["deduped"]
          /\ row["errors"] \in set["errors"]
          /\ row["total"] \in set["total"]
    BY <2>1, <2>2 DEF Typed
  <2>4. row \in Batch <=>
          /\ row = [c \in {"id", "status", "created", "deduped", "errors", "total"} |-> row[c]]
          /\ row["id"] \in set["id"]
          /\ row["status"] \in set["status"]
          /\ row["created"] \in set["created"]
          /\ row["deduped"] \in set["deduped"]
          /\ row["errors"] \in set["errors"]
          /\ row["total"] \in set["total"]
    BY <2>1 DEF Columns, Batch
  <2>5. QED
    BY <2>3, <2>4
<1>4. Typed("identities", row) <=> row \in Identity
  <2>1. PICK set : set = Columns["identities"]
    OBVIOUS
  <2>2. DOMAIN set = {"id", "leak_count", "passwords", "vip", "max_risk", "status"}
    BY <2>1 DEF Columns
  <2>3. Typed("identities", row) <=>
          /\ row = [c \in {"id", "leak_count", "passwords", "vip", "max_risk", "status"} |-> row[c]]
          /\ row["id"] \in set["id"]
          /\ row["leak_count"] \in set["leak_count"]
          /\ row["passwords"] \in set["passwords"]
          /\ row["vip"] \in set["vip"]
          /\ row["max_risk"] \in set["max_risk"]
          /\ row["status"] \in set["status"]
    BY <2>1, <2>2 DEF Typed
  <2>4. row \in Identity <=>
          /\ row = [c \in {"id", "leak_count", "passwords", "vip", "max_risk", "status"} |-> row[c]]
          /\ row["id"] \in set["id"]
          /\ row["leak_count"] \in set["leak_count"]
          /\ row["passwords"] \in set["passwords"]
          /\ row["vip"] \in set["vip"]
          /\ row["max_risk"] \in set["max_risk"]
          /\ row["status"] \in set["status"]
    BY <2>1 DEF Columns, Identity
  <2>5. QED
    BY <2>3, <2>4
<1>5. Typed("surface", row) <=> row \in Surface
  <2>1. PICK set : set = Columns["surface"]
    OBVIOUS
  <2>2. DOMAIN set = {"id", "status", "detail"}
    BY <2>1 DEF Columns
  <2>3. Typed("surface", row) <=>
          /\ row = [c \in {"id", "status", "detail"} |-> row[c]]
          /\ row["id"] \in set["id"]
          /\ row["status"] \in set["status"]
          /\ row["detail"] \in set["detail"]
    BY <2>1, <2>2 DEF Typed
  <2>4. row \in Surface <=>
          /\ row = [c \in {"id", "status", "detail"} |-> row[c]]
          /\ row["id"] \in set["id"]
          /\ row["status"] \in set["status"]
          /\ row["detail"] \in set["detail"]
    BY <2>1 DEF Columns, Surface
  <2>5. QED
    BY <2>3, <2>4
<1>6. QED
  BY <1>1, <1>2, <1>3, <1>4, <1>5

LEMMA RowNotNull ==
    ASSUME NEW t \in TableNames, NEW row, Typed(t, row)
    PROVE  row # NoRow
  BY TypedRow, NullAssumption DEF TableNames

\* Written columns of the right type keep a row typed.
LEMMA MergedTyped ==
    ASSUME NEW t, NEW row, Typed(t, row), NEW set,
           \A c \in DOMAIN set : c \in DOMAIN Columns[t] /\ set[c] \in Columns[t][c]
    PROVE  Typed(t, Merged(row, set))
  BY DEF Typed, Merged

LEMMA IInvTypeOK ==
    ASSUME IInv
    PROVE  TypeOK
<1>1. /\ assets \in [Ids -> Asset \cup {NoRow}]
      /\ findings \in [FindingKeys -> Finding \cup {NoRow}]
      /\ batches \in [Ids -> Batch \cup {NoRow}]
      /\ identities \in [Emails -> Identity \cup {NoRow}]
      /\ surface \in [SurfaceKeys -> Surface \cup {NoRow}]
  BY TypedRow DEF IInv, TablesOK, TableNames, Keys, assets, findings, batches,
     identities, surface
<1>2. \A r \in Slots : Busy(r) => slot[r].phase = "flush" /\ slot[r].n \in Ids
  BY DEF IInv, SlotOK, Busy
<1>3. QED
  BY <1>1, <1>2 DEF IInv, TypeOK
-----------------------------------------------------------------------------
(***************************************************************************)
(* The rows a flush leaves.                                                *)
(***************************************************************************)
Allowed(ws) == (\A w \in ws : WriteOK(w, sent)) /\ ~Raises(ws, References)

\* What a write is, and what the flush has checked of it.
LEMMA Found ==
    ASSUME NEW ws, Allowed(ws), NEW w \in ws, NEW t, NEW k, w.at = <<t, k>>
    PROVE  /\ w.how \in {"insert", "update", "delete"}
           /\ w.how = "insert" => db[t][k] = NoRow /\ Typed(t, w.set)
           /\ w.how = "update" =>
                /\ \A c \in DOMAIN w.set :
                      c \in DOMAIN Columns[t] /\ w.set[c] \in Columns[t][c]
                /\ DOMAIN w.set # {} => db[t][k] # NoRow /\ db[t][k].id = w.id
           /\ t = "identities" /\ w.how # "delete" /\ "vip" \in DOMAIN w.set
                => w.set["vip"] = NoRow \/ <<k, w.set["vip"]>> \in sent
<1>1. WriteOK(w, sent) /\ ~Raises(ws, References)
  BY DEF Allowed
<1>2. w.at[1] = t /\ w.at[2] = k
  OBVIOUS
<1>3. /\ w.how = "insert" => db[t][k] = NoRow
      /\ w.how = "update" /\ DOMAIN w.set # {} => ~Stale(w)
      /\ w.how # "insert_twice"
  BY <1>1, <1>2 DEF Raises
<1>4. ~Stale(w) => db[t][k] # NoRow /\ db[t][k].id = w.id
  BY <1>2 DEF Stale, Gone
<1>5. QED
  BY <1>1, <1>2, <1>3, <1>4 DEF WriteOK

LEMMA RowTyped ==
    ASSUME TablesOK, NEW ws, Allowed(ws), NEW t \in TableNames, NEW k \in Keys[t],
           Row(t, k, ws) # NoRow
    PROVE  Typed(t, Row(t, k, ws))
<1>1. PICK row, old : row = Row(t, k, ws) /\ old = db[t][k]
  OBVIOUS
<1>2. old # NoRow => Typed(t, old)
  BY <1>1 DEF TablesOK
<1>3. Outcome(row, old, ws, <<t, k>>)
  BY <1>1, RowCases
<1>4. CASE \E w \in ws : w.at = <<t, k>> /\ w.how = "insert" /\ row = w.set
  BY <1>1, <1>4, Found
<1>5. CASE \E w \in ws : /\ w.at = <<t, k>> /\ w.how \notin {"insert", "delete"}
                         /\ DOMAIN w.set # {} /\ row = Merged(old, w.set)
  <2>1. PICK w \in ws : /\ w.at = <<t, k>> /\ w.how \notin {"insert", "delete"}
                        /\ DOMAIN w.set # {} /\ row = Merged(old, w.set)
    BY <1>5
  <2>2. /\ old # NoRow
        /\ \A c \in DOMAIN w.set :
             c \in DOMAIN Columns[t] /\ w.set[c] \in Columns[t][c]
    BY <1>1, <2>1, Found
  <2>3. QED
    BY <1>1, <1>2, <2>1, <2>2, MergedTyped
<1>6. QED
  BY <1>1, <1>2, <1>3, <1>4, <1>5 DEF Outcome

\* The columns a deleted row is taken out of.
Nullable(t) ==
    CASE t = "findings" -> {"asset", "ingest"}
      [] t = "identities" -> {"vip"}
      [] OTHER -> {}

LEMMA LostColumns ==
    ASSUME NEW rows, NEW t, NEW k
    PROVE  /\ Lost(rows, t, k, References, "cascade") = {}
           /\ Lost(rows, t, k, References, "set null") \subseteq Nullable(t)
           /\ "ingest" \in Lost(rows, t, k, References, "set null") =>
                t = "findings" /\ Dangles(rows, t, k, "ingest", "batches")
<1>1. \A f \in References :
        /\ f.ondelete # "cascade"
        /\ \/ f.table = "findings" /\ f.column = "asset"
           \/ f.table = "findings" /\ f.column = "ingest" /\ f.to = "batches"
           \/ f.table = "identities" /\ f.column = "vip"
  <2>1. PICK null : null = "set null"
    OBVIOUS
  <2>2. null # "cascade"
    BY <2>1, Zenon
  <2>3. References =
          {[table |-> "findings", column |-> "asset", to |-> "assets",
            ondelete |-> null],
           [table |-> "findings", column |-> "ingest", to |-> "batches",
            ondelete |-> null],
           [table |-> "identities", column |-> "vip", to |-> "assets",
            ondelete |-> null]}
    BY <2>1, Zenon DEF References
  <2>4. QED
    BY <2>2, <2>3
<1>2. Lost(rows, t, k, References, "cascade") = {}
  BY <1>1, LostColumn
<1>3. ASSUME NEW ondelete, NEW c \in Lost(rows, t, k, References, ondelete)
      PROVE  /\ c \in Nullable(t)
             /\ c = "ingest" => t = "findings" /\ Dangles(rows, t, k, c, "batches")
  <2>1. PICK f \in References : /\ f.table = t /\ f.column = c
                                /\ Dangles(rows, t, k, c, f.to)
    BY <1>3, LostColumn
  <2>2. QED
    BY <1>1, <2>1 DEF Nullable
<1>4. PICK ondelete : ondelete = "set null"
  OBVIOUS
<1>5. Lost(rows, t, k, References, ondelete) \subseteq Nullable(t)
  BY <1>3
<1>6. QED
  BY <1>2, <1>3, <1>4, <1>5, Zenon

LEMMA NulledTyped ==
    ASSUME NEW t \in TableNames, NEW row, Typed(t, row), NEW lost,
           lost \subseteq Nullable(t)
    PROVE  Typed(t, Nulled(row, lost))
<1>1. \A c \in Nullable(t) : c \in DOMAIN Columns[t] => NoRow \in Columns[t][c]
  BY DEF Nullable, Columns, TableNames
<1>2. QED
  BY <1>1 DEF Typed, Nulled

\* What a flush leaves of a row: nothing is deleted with another row.
LEMMA LeftRow ==
    ASSUME TablesOK, NEW ws, NEW t \in TableNames, NEW k \in Keys[t]
    PROVE  /\ Kept(ws, References)[t][k] = Row(t, k, ws)
           /\ \E lost : /\ lost \subseteq Nullable(t)
                        /\ "ingest" \in lost => t = "findings" /\
                             Dangles(Kept(ws, References), t, k, "ingest", "batches")
                        /\ Left(Flushed(ws, References)[t][k], Row(t, k, ws), lost)
<1>1. t \in DOMAIN db /\ k \in DOMAIN db[t]
  BY DEF TablesOK
<1>2. Kept(ws, References)[t][k] = Row(t, k, ws)
  BY <1>1, KeptRow, LostColumns DEF Cascaded
<1>3. PICK lost : lost = Lost(Kept(ws, References), t, k, References, "set null")
  OBVIOUS
<1>4. Left(Flushed(ws, References)[t][k], Row(t, k, ws), lost)
  BY <1>1, <1>2, <1>3, FlushedRow
<1>5. QED
  BY <1>2, <1>3, <1>4, LostColumns

LEMMA TablesStay ==
    ASSUME TablesOK, NEW ws, Allowed(ws), db' = Flushed(ws, References)
    PROVE  TablesOK'
<1>1. DOMAIN db' = TableNames
  BY FlushedTables DEF TablesOK
<1>2. ASSUME NEW t \in TableNames
      PROVE  db'[t] = [k \in Keys[t] |-> db'[t][k]]
  <2>1. t \in DOMAIN db /\ DOMAIN db[t] = Keys[t]
    BY DEF TablesOK
  <2>2. QED
    BY <2>1, FlushedTables
<1>3. ASSUME NEW t \in TableNames, NEW k \in Keys[t], db'[t][k] # NoRow
      PROVE  Typed(t, db'[t][k])
  <2>1. PICK lost : lost \subseteq Nullable(t) /\ Left(db'[t][k], Row(t, k, ws), lost)
    BY LeftRow
  <2>2. Row(t, k, ws) # NoRow /\ db'[t][k] = Nulled(Row(t, k, ws), lost)
    BY <1>3, <2>1 DEF Left
  <2>3. QED
    BY <2>1, <2>2, RowTyped, NulledTyped
<1>4. QED
  BY <1>1, <1>2, <1>3 DEF TablesOK

-----------------------------------------------------------------------------
(***************************************************************************)
(* The steps of every request.                                             *)
(***************************************************************************)
LEMMA AlertedStays ==
    ASSUME IInv, NEW ws, Allowed(ws), db' = Flushed(ws, References), sent' = sent
    PROVE  VipHitAlerted'
<1>1. SUFFICES ASSUME NEW e \in Emails, identities'[e] # NoRow,
                      identities'[e].vip # NoRow
               PROVE  <<e, identities'[e].vip>> \in sent
  BY DEF VipHitAlerted
<1>2. PICK row, old : row = Row("identities", e, ws) /\ old = db["identities"][e]
  OBVIOUS
<1>3. TablesOK /\ "identities" \in TableNames /\ e \in Keys["identities"]
  BY DEF IInv, TableNames, Keys
<1>4. PICK lost : lost \subseteq {"vip"} /\ Left(identities'[e], row, lost)
  BY <1>2, <1>3, LeftRow DEF Nullable, identities
<1>5. row # NoRow /\ identities'[e] = Nulled(row, lost) /\ Typed("identities", row)
  BY <1>1, <1>2, <1>3, <1>4, RowTyped DEF Left
<1>6. "vip" \in DOMAIN row
  BY <1>5 DEF Typed, Columns
<1>7. row.vip = identities'[e].vip
  BY <1>1, <1>5, <1>6 DEF Nulled
<1>8. old # NoRow => old.vip = NoRow \/ <<e, old.vip>> \in sent
  BY <1>2 DEF IInv, VipHitAlerted, identities
<1>9. Outcome(row, old, ws, <<"identities", e>>)
  BY <1>2, RowCases
<1>10. CASE row = old
  BY <1>1, <1>5, <1>7, <1>8, <1>10
<1>11. CASE \E w \in ws : /\ w.at = <<"identities", e>> /\ w.how = "insert"
                          /\ row = w.set
  BY <1>1, <1>6, <1>7, <1>11, Found
<1>12. CASE \E w \in ws : /\ w.at = <<"identities", e>>
                          /\ w.how \notin {"insert", "delete"}
                          /\ DOMAIN w.set # {} /\ row = Merged(old, w.set)
  <2>1. PICK w \in ws : /\ w.at = <<"identities", e>>
                        /\ w.how \notin {"insert", "delete"}
                        /\ DOMAIN w.set # {} /\ row = Merged(old, w.set)
    BY <1>12
  <2>2. old # NoRow /\ ("vip" \in DOMAIN w.set =>
          w.set["vip"] = NoRow \/ <<e, w.set["vip"]>> \in sent)
    BY <1>2, <2>1, Found
  <2>3. row.vip = IF "vip" \in DOMAIN w.set THEN w.set["vip"] ELSE old.vip
    BY <1>6, <2>1 DEF Merged
  <2>4. QED
    BY <1>1, <1>7, <1>8, <2>2, <2>3
<1>13. QED
  BY <1>5, <1>9, <1>10, <1>11, <1>12 DEF Outcome

LEMMA IdleOK ==
    ASSUME NEW alerts
    PROVE  SlotOK(Idle, alerts)
  BY DEF SlotOK, Idle

LEMMA FlushI ==
    ASSUME IInv, NEW r \in Slots, Flush(r)
    PROVE  IInv'
<1>1. PICK ws : ws = slot[r].writes
  OBVIOUS
<1>2. SlotOK(slot[r], sent) /\ slot[r].phase = "flush"
  BY DEF IInv, Flush, Commit
<1>3. Allowed(ws) /\ db' = Flushed(ws, References) /\ sent' = sent
  BY <1>1, <1>2 DEF Allowed, SlotOK, Flush, Commit
<1>4. DOMAIN slot' = Slots
  BY DEF Flush, Commit
<1>5. ASSUME NEW q \in Slots
      PROVE  SlotOK(slot'[q], sent')
  <2>1. CASE q = r
    BY <1>2, <2>1, IdleOK DEF Flush, Commit, After, SlotOK
  <2>2. CASE q # r /\ ~Busy(q)
    BY <2>2, IdleOK DEF Flush, Commit
  <2>3. CASE q # r /\ Busy(q)
    <3>1. PICK x, o : x = slot[q] /\ o = (x.overtaken \/ db' # db)
      OBVIOUS
    <3>2. SlotOK(x, sent) /\ x.phase # "idle"
      BY <2>3, <3>1 DEF IInv, Busy
    <3>3. slot'[q] = [x EXCEPT !.overtaken = o]
      BY <2>3, <3>1 DEF Flush, Commit
    <3>4. o \in BOOLEAN
      BY <3>1
    <3>5. QED
      BY <1>3, <3>2, <3>3, <3>4 DEF SlotOK
  <2>4. QED
    BY <2>1, <2>2, <2>3
<1>6. TablesOK' /\ VipHitAlerted'
  BY <1>3, TablesStay, AlertedStays DEF IInv
<1>7. QED
  BY <1>3, <1>4, <1>5, <1>6 DEF IInv, Flush, Commit

LEMMA EndsI ==
    ASSUME IInv, UNCHANGED <<db, served, sent>>, DOMAIN slot' = Slots,
           \A r \in Slots : slot'[r] \in {slot[r], Idle}
    PROVE  IInv'
<1>1. \A r \in Slots : SlotOK(slot'[r], sent')
  BY IdleOK DEF IInv
<1>2. TablesOK' /\ VipHitAlerted'
  BY DEF IInv, TablesOK, VipHitAlerted, identities
<1>3. QED
  BY <1>1, <1>2 DEF IInv

LEMMA MoreAlerts ==
    ASSUME NEW x, NEW alerts, NEW more, SlotOK(x, alerts), alerts \subseteq more
    PROVE  SlotOK(x, more)
<1>1. ASSUME NEW w, WriteOK(w, alerts)
      PROVE  WriteOK(w, more)
  BY <1>1 DEF WriteOK
<1>2. QED
  BY <1>1 DEF SlotOK

LEMMA BeginI ==
    ASSUME IInv, NEW r \in Slots, NEW op, NEW on, NEW ws,
           Begin(r, op, on, ws, "answer"), UNCHANGED db,
           sent \subseteq sent', sent' \subseteq Emails \X Ids,
           \A w \in ws : WriteOK(w, sent')
    PROVE  IInv'
<1>1. PICK x : x = [phase |-> "flush", op |-> op, on |-> on, n |-> Number,
                    writes |-> ws, then |-> "answer", overtaken |-> FALSE]
  OBVIOUS
<1>2. slot' = [slot EXCEPT ![r] = x]
  BY <1>1 DEF Begin, BeginAt
<1>3. Number \in Ids /\ served' = Number
  BY MaxRequestsNat DEF Begin, BeginAt, Free, Number, Ids, IInv
<1>4. SlotOK(x, sent')
  BY <1>1, <1>3 DEF SlotOK
<1>5. \A q \in Slots : SlotOK(slot'[q], sent')
  BY <1>2, <1>4, MoreAlerts DEF IInv
<1>6. TablesOK' /\ VipHitAlerted'
  BY DEF IInv, TablesOK, VipHitAlerted, identities
<1>7. QED
  BY <1>2, <1>3, <1>5, <1>6 DEF IInv, Ids

-----------------------------------------------------------------------------
(***************************************************************************)
(* Scores.                                                                 *)
(***************************************************************************)
LEMMA PointsNat ==
    ASSUME NEW intensity \in 0..100, NEW weight \in {10, 12, 18, 25}
    PROVE  Points(intensity, weight) \in Nat
<1>1. PICK p \in Nat : p = intensity * weight
  OBVIOUS
<1>2. p \div 100 \in Nat
  BY <1>1
<1>3. QED
  BY <1>1, <1>2 DEF Points

LEMMA ScoreRange ==
    ASSUME NEW k \in FindingKeys, NEW f, f.status \in DOMAIN VERIFY_INTENSITY,
           f.doubt \in 0..10, NEW asset, asset \in Asset \cup {NoRow}
    PROVE  compute(k, f, asset) \in 0..100
<1>1. k[1] \in {"credential_exposure", "identity_exposure", "infrastructure_exposure"}
  BY InputsAssumption DEF FindingKeys, dedup_key, SurfaceKey
<1>2. EXPOSURE_INTENSITY[k[1]] \in 0..100
  BY <1>1 DEF EXPOSURE_INTENSITY
<1>3. VERIFY_INTENSITY[f.status] \in 0..100
  BY DEF VERIFY_INTENSITY
<1>4. asset # NoRow => CRIT_INTENSITY[asset.criticality] \in 0..100
  BY DEF Asset, CRIT_INTENSITY
<1>5. 100 - 10 * f.doubt \in 0..100
  OBVIOUS
<1>6. Sensitivity(k) \in 0..100
  BY DEF Sensitivity
<1>7. PICK i : i = IF asset = NoRow THEN 30 ELSE CRIT_INTENSITY[asset.criticality]
  OBVIOUS
<1>8. i \in 0..100
  BY <1>4, <1>7
<1>9. PICK a, b, c, d, e, g :
        /\ a = Points(i, 25) /\ b = Points(EXPOSURE_INTENSITY[k[1]], 25)
        /\ c = Points(100 - 10 * f.doubt, 18) /\ d = Points(100, 12)
        /\ e = Points(VERIFY_INTENSITY[f.status], 10) /\ g = Points(Sensitivity(k), 12)
  OBVIOUS
<1>10. a \in Nat /\ b \in Nat /\ c \in Nat /\ d \in Nat /\ e \in Nat /\ g \in Nat
  BY <1>2, <1>3, <1>5, <1>6, <1>8, <1>9, PointsNat
<1>11. raw(k, f, asset) = a + b + c + d + e + g
  BY <1>7, <1>9 DEF raw
<1>12. PICK n \in Nat : n = raw(k, f, asset)
  BY <1>10, <1>11
<1>13. QED
  BY <1>12 DEF compute

\* The asset a finding names, as the scores are computed with it.
AssetOf(f) == IF f.asset = NoRow THEN NoRow ELSE assets[f.asset]

\* The same finding but for its score.
Rescored(f, g) ==
    /\ Typed("findings", g)
    /\ g.id = f.id /\ g.status = f.status /\ g.doubt = f.doubt
    /\ g.asset = f.asset /\ g.ingest = f.ingest
    /\ g.detail.sightings = f.detail.sightings
    /\ g.detail.surface = f.detail.surface

LEMMA Scored ==
    ASSUME TablesOK, NEW k \in FindingKeys, NEW f, Typed("findings", f)
    PROVE  Rescored(f, apply_risk(k, f))
<1>1. f \in Finding
  BY TypedRow
<1>2. AssetOf(f) \in Asset \cup {NoRow}
  BY <1>1, TypedRow DEF AssetOf, TablesOK, TableNames, Keys, Finding, assets
<1>3. PICK n \in 0..100 : n = compute(k, f, AssetOf(f))
  BY <1>1, <1>2, ScoreRange DEF Finding
<1>4. apply_risk(k, f) = [f EXCEPT !.score = n, !.detail.breakdown = n]
  BY <1>3 DEF apply_risk, AssetOf
<1>5. PICK d : d = [f.detail EXCEPT !.breakdown = n]
  OBVIOUS
<1>6. /\ d.sightings = f.detail.sightings /\ d.surface = f.detail.surface
      /\ d \in [sightings: Nat, breakdown: 0..100, surface: SurfaceKeys \cup {NoRow}]
  BY <1>1, <1>5 DEF Finding
<1>7. PICK g : g = [f EXCEPT !.score = n, !.detail = d]
  OBVIOUS
<1>8. apply_risk(k, f) = g
  BY <1>1, <1>4, <1>5, <1>7 DEF Finding
<1>9. g \in Finding
  BY <1>1, <1>6, <1>7 DEF Finding
<1>10. /\ g.id = f.id /\ g.status = f.status /\ g.doubt = f.doubt
       /\ g.asset = f.asset /\ g.ingest = f.ingest /\ g.detail = d
  BY <1>1, <1>7 DEF Finding
<1>11. QED
  BY <1>6, <1>8, <1>9, <1>10, TypedRow DEF Rescored

-----------------------------------------------------------------------------
(***************************************************************************)
(* The session of an ingest.                                               *)
(***************************************************************************)
LEMMA Least ==
    ASSUME NEW T, T \subseteq Nat, T # {}
    PROVE  \E m \in T : \A k \in T : m <= k
<1>1. PICK R : R = {ss \in Nat \X Nat : ss[1] < ss[2]}
  OBVIOUS
<1>2. IsWellFoundedOn(R, Nat)
  BY <1>1, NatLessThanWellFounded DEF OpToRel
<1>3. PICK m \in T : \A k \in T : <<k, m>> \notin R
  BY <1>2, WFMin
<1>4. ASSUME NEW k \in T
      PROVE  m <= k
  <2>1. m \in Nat /\ k \in Nat
    OBVIOUS
  <2>2. ~(k < m)
    BY <1>1, <1>3, <2>1
  <2>3. QED
    BY <2>1, <2>2
<1>5. QED
  BY <1>4

LEMMA Hit ==
    ASSUME NEW e
    PROVE  VipAsset(e) \in Monitoring(e) \cup {NoRow}
<1>1. Monitoring(e) \subseteq Nat
  BY DEF Monitoring, Ids
<1>2. CASE Monitoring(e) = {}
  BY <1>2 DEF VipAsset
<1>3. CASE Monitoring(e) # {}
  <2>1. \E i \in Monitoring(e) : \A j \in Monitoring(e) : i <= j
    BY <1>1, <1>3, Least
  <2>2. VipAsset(e) = CHOOSE i \in Monitoring(e) : \A j \in Monitoring(e) : i <= j
    BY <1>3 DEF VipAsset
  <2>3. QED
    BY <2>1, <2>2
<1>4. QED
  BY <1>2, <1>3

SessionFields ==
    {"findings", "identities", "pending", "twice", "sent", "created", "deduped",
     "errors"}

\* Of a finding there is, the session of the request n changes neither the id
\* nor the batch and loses no sighting; those it adds are n's, of the batch it
\* imports.
SessionFinding(s, k, n, ingest) ==
    /\ s.findings[k] # NoRow => Typed("findings", s.findings[k])
    /\ findings[k] # NoRow =>
         /\ s.findings[k] # NoRow
         /\ s.findings[k].id = findings[k].id
         /\ s.findings[k].ingest = findings[k].ingest
         /\ s.findings[k].detail.sightings >= findings[k].detail.sightings
         /\ k \notin s.pending /\ k \notin s.twice
    /\ findings[k] = NoRow /\ s.findings[k] # NoRow =>
         s.findings[k].id = n /\ s.findings[k].ingest = ingest

SessionIdentity(s, e) ==
    /\ s.identities[e] # NoRow =>
         /\ Typed("identities", s.identities[e])
         /\ \/ s.identities[e].vip = NoRow
            \/ <<e, s.identities[e].vip>> \in sent \cup s.sent
    /\ identities[e] # NoRow => s.identities[e] # NoRow

SessionOK(s, n, ingest) ==
    /\ DOMAIN s = SessionFields
    /\ s.findings = [k \in FindingKeys |-> s.findings[k]]
    /\ s.identities = [e \in Emails |-> s.identities[e]]
    /\ \A k \in FindingKeys : SessionFinding(s, k, n, ingest)
    /\ \A e \in Emails : SessionIdentity(s, e)
    /\ s.sent \subseteq Emails \X Ids
    /\ s.pending \subseteq FindingKeys /\ s.twice \subseteq FindingKeys
    /\ s.created \in Nat /\ s.deduped \in Nat /\ s.errors \in Nat

LEMMA SessionStarts ==
    ASSUME IInv, NEW n, NEW ingest
    PROVE  SessionOK(Session, n, ingest)
<1>1. PICK s : s = Session
  OBVIOUS
<1>2. /\ DOMAIN s = SessionFields
      /\ s.findings = findings /\ s.identities = identities
      /\ s.pending = {} /\ s.twice = {} /\ s.sent = {}
      /\ s.created = 0 /\ s.deduped = 0 /\ s.errors = 0
  BY <1>1 DEF Session, SessionFields
<1>3. /\ findings = [k \in FindingKeys |-> findings[k]]
      /\ \A k \in FindingKeys : findings[k] # NoRow => Typed("findings", findings[k])
      /\ identities = [e \in Emails |-> identities[e]]
      /\ \A e \in Emails :
           identities[e] # NoRow => Typed("identities", identities[e])
  BY DEF IInv, TablesOK, TableNames, Keys, findings, identities
<1>4. ASSUME NEW k \in FindingKeys
      PROVE  SessionFinding(s, k, n, ingest)
  <2>1. findings[k] # NoRow => findings[k].detail.sightings \in Nat
    BY <1>3, TypedRow DEF Finding
  <2>2. QED
    BY <1>2, <1>3, <2>1 DEF SessionFinding
<1>5. ASSUME NEW e \in Emails
      PROVE  SessionIdentity(s, e)
  BY <1>2, <1>3 DEF SessionIdentity, IInv, VipHitAlerted
<1>6. QED
  BY <1>1, <1>2, <1>3, <1>4, <1>5 DEF SessionOK

\* The parts of persist_record: whether the session sees a finding of the key,
\* the row it makes of it, and the session before the dossier.
Seen(s, k) == s.findings[k] # NoRow /\ k \notin s.pending

FindingOf(s, rec, n, asset, ingest, doubt) ==
    LET k == dedup_key(rec) IN
    IF Seen(s, k)
    THEN apply_risk(k, [s.findings[k] EXCEPT !.detail.sightings = @ + 1])
    ELSE NewFinding(k, n, asset, ingest, doubt, NoRow)

Recorded(s, k, f) ==
    [s EXCEPT !.findings[k] = f,
              !.twice = IF k \in s.pending THEN @ \cup {k} ELSE @,
              !.pending = IF Seen(s, k) THEN @ ELSE @ \cup {k},
              !.created = IF Seen(s, k) THEN @ ELSE @ + 1,
              !.deduped = IF Seen(s, k) THEN @ + 1 ELSE @]

LEMMA PersistParts ==
    ASSUME NEW s, NEW rec, NEW n, NEW asset, NEW ingest, NEW doubt
    PROVE  LET k == dedup_key(rec)
               f == FindingOf(s, rec, n, asset, ingest, doubt)
           IN persist_record(s, rec, n, asset, ingest, doubt) =
                IF rec.type = "credential_exposure"
                THEN update_identity(Recorded(s, k, f), rec, f, ~Seen(s, k), n)
                ELSE Recorded(s, k, f)
  BY Zenon DEF persist_record, FindingOf, Recorded, Seen

\* t is the session s with the finding f at k.
Records1(s, t, k, f) ==
    /\ DOMAIN t = SessionFields
    /\ t.findings = [s.findings EXCEPT ![k] = f]
    /\ t.identities = s.identities
    /\ t.twice = (IF k \in s.pending THEN s.twice \cup {k} ELSE s.twice)
    /\ t.pending = (IF Seen(s, k) THEN s.pending ELSE s.pending \cup {k})
    /\ t.sent = s.sent
    /\ t.created = (IF Seen(s, k) THEN s.created ELSE s.created + 1)
    /\ t.deduped = (IF Seen(s, k) THEN s.deduped + 1 ELSE s.deduped)
    /\ t.errors = s.errors

LEMMA RecordedFields ==
    ASSUME NEW s, DOMAIN s = SessionFields, NEW k, NEW f
    PROVE  Records1(s, Recorded(s, k, f), k, f)
<1>1. PICK fs, tw, pe, cr, de :
        /\ fs = [s.findings EXCEPT ![k] = f]
        /\ tw = (IF k \in s.pending THEN s.twice \cup {k} ELSE s.twice)
        /\ pe = (IF Seen(s, k) THEN s.pending ELSE s.pending \cup {k})
        /\ cr = (IF Seen(s, k) THEN s.created ELSE s.created + 1)
        /\ de = (IF Seen(s, k) THEN s.deduped + 1 ELSE s.deduped)
  OBVIOUS
<1> PICK t : t = [s EXCEPT !.findings = fs, !.twice = tw, !.pending = pe,
                          !.created = cr, !.deduped = de]
  OBVIOUS
<1>2. t = Recorded(s, k, f)
  BY <1>1, Zenon DEF Recorded
<1>3. /\ DOMAIN t = SessionFields /\ t.findings = fs /\ t.twice = tw
      /\ t.pending = pe /\ t.created = cr /\ t.deduped = de
      /\ t.identities = s.identities /\ t.sent = s.sent /\ t.errors = s.errors
  BY <1>1 DEF SessionFields
<1>4. QED
  BY <1>1, <1>2, <1>3, Zenon DEF Records1

\* f is a finding of one sighting that the request n adds for the batch ingest.
AddedRow(f, n, ingest) ==
    /\ Typed("findings", f)
    /\ f.id = n /\ f.ingest = ingest /\ f.detail.sightings = 1

LEMMA NewFindingRow ==
    ASSUME TablesOK, NEW k \in FindingKeys, NEW n \in Ids,
           NEW asset \in Ids \cup {NoRow}, NEW ingest \in Ids \cup {NoRow},
           NEW doubt \in 0..10, NEW surf \in SurfaceKeys \cup {NoRow}
    PROVE  AddedRow(NewFinding(k, n, asset, ingest, doubt, surf), n, ingest)
<1>1. PICK d : d = [sightings |-> 1, breakdown |-> 0, surface |-> surf]
  OBVIOUS
<1>2. PICK f : f = [id |-> n, status |-> "new", doubt |-> doubt, asset |-> asset,
                    ingest |-> ingest, score |-> 0, detail |-> d]
  OBVIOUS
<1>3. d \in [sightings: Nat, breakdown: 0..100, surface: SurfaceKeys \cup {NoRow}]
  BY <1>1
<1>4. "new" \in DOMAIN VERIFY_INTENSITY
  BY DEF VERIFY_INTENSITY
<1>5. f \in Finding
  BY <1>2, <1>3, <1>4 DEF Finding
<1>6. Rescored(f, apply_risk(k, f))
  BY <1>5, TypedRow, Scored
<1>7. NewFinding(k, n, asset, ingest, doubt, surf) = apply_risk(k, f)
  BY <1>1, <1>2 DEF NewFinding
<1>8. f.id = n /\ f.ingest = ingest /\ f.detail = d
  BY <1>2
<1>9. QED
  BY <1>1, <1>6, <1>7, <1>8 DEF Rescored, AddedRow

\* f is the row of k after one more record of it in the session s.
OneMore(s, k, f, n, ingest) ==
    /\ Typed("findings", f)
    /\ f.id = IF Seen(s, k) THEN s.findings[k].id ELSE n
    /\ f.ingest = IF Seen(s, k) THEN s.findings[k].ingest ELSE ingest
    /\ Seen(s, k) => f.detail.sightings >= s.findings[k].detail.sightings

LEMMA OneMoreRow ==
    ASSUME TablesOK, NEW n \in Ids, NEW ingest \in Ids \cup {NoRow}, NEW s,
           SessionOK(s, n, ingest), NEW rec \in Records,
           NEW asset \in Ids \cup {NoRow}, NEW doubt \in 0..10
    PROVE  LET k == dedup_key(rec) IN
           /\ k \in FindingKeys
           /\ OneMore(s, k, FindingOf(s, rec, n, asset, ingest, doubt), n, ingest)
<1>1. PICK k \in FindingKeys : k = dedup_key(rec)
  BY DEF FindingKeys
<1>2. PICK new : new = FindingOf(s, rec, n, asset, ingest, doubt)
  OBVIOUS
<1>3. ASSUME Seen(s, k)
      PROVE  OneMore(s, k, new, n, ingest)
  <2>1. PICK g : g = s.findings[k]
    OBVIOUS
  <2>2. g \in Finding
    BY <1>1, <1>3, <2>1, TypedRow DEF SessionOK, SessionFinding, Seen
  <2>3. PICK d : d = [g.detail EXCEPT !.sightings = @ + 1]
    OBVIOUS
  <2>4. PICK f : f = [g EXCEPT !.detail = d]
    OBVIOUS
  <2>5. /\ d \in [sightings: Nat, breakdown: 0..100, surface: SurfaceKeys \cup {NoRow}]
        /\ d.sightings >= g.detail.sightings
    BY <2>2, <2>3 DEF Finding
  <2>6. /\ f \in Finding /\ f.id = g.id /\ f.ingest = g.ingest
        /\ f.detail.sightings >= g.detail.sightings
    BY <2>2, <2>4, <2>5 DEF Finding
  <2>7. Rescored(f, apply_risk(k, f))
    BY <2>6, TypedRow, Scored
  <2>8. f = [s.findings[k] EXCEPT !.detail.sightings = @ + 1]
    BY <2>1, <2>2, <2>3, <2>4 DEF Finding
  <2>9. new = apply_risk(k, f)
    BY <1>1, <1>2, <1>3, <2>8, Zenon DEF FindingOf
  <2>10. QED
    BY <1>1, <1>3, <2>1, <2>6, <2>7, <2>9 DEF Rescored, OneMore
<1>4. ASSUME ~Seen(s, k)
      PROVE  OneMore(s, k, new, n, ingest)
  <2>1. new = NewFinding(k, n, asset, ingest, doubt, NoRow)
    BY <1>1, <1>2, <1>4, Zenon DEF FindingOf
  <2>2. AddedRow(new, n, ingest)
    BY <2>1, NewFindingRow
  <2>3. QED
    BY <1>4, <2>2 DEF OneMore, AddedRow
<1>5. QED
  BY <1>1, <1>2, <1>3, <1>4

LEMMA RecordedOK ==
    ASSUME TablesOK, NEW n \in Ids, NEW ingest \in Ids \cup {NoRow}, NEW s,
           SessionOK(s, n, ingest), NEW k \in FindingKeys, NEW f,
           OneMore(s, k, f, n, ingest), NEW t, Records1(s, t, k, f)
    PROVE  SessionOK(t, n, ingest)
<1>1. f # NoRow /\ f.detail.sightings \in Nat
  <2>1. Typed("findings", f) /\ "findings" \in TableNames
    BY DEF OneMore, TableNames
  <2>2. f \in Finding
    BY <2>1, TypedRow
  <2>3. QED
    BY <2>1, <2>2, RowNotNull DEF Finding
<1>2. /\ t.findings = [j \in FindingKeys |-> t.findings[j]]
      /\ t.findings[k] = f
      /\ \A j \in FindingKeys : j # k => t.findings[j] = s.findings[j]
      /\ \A j \in FindingKeys : j # k =>
           (j \in t.pending <=> j \in s.pending) /\ (j \in t.twice <=> j \in s.twice)
      /\ t.pending \subseteq FindingKeys /\ t.twice \subseteq FindingKeys
  BY DEF SessionOK, Records1
<1>3. ASSUME NEW j \in FindingKeys
      PROVE  SessionFinding(t, j, n, ingest)
  <2>1. SessionFinding(s, j, n, ingest)
    BY DEF SessionOK
  <2>2. CASE j # k
    BY <1>2, <2>1, <2>2 DEF SessionFinding
  <2>3. CASE j = k /\ findings[k] # NoRow
    <3>1. Seen(s, k) /\ k \notin t.pending /\ k \notin t.twice
      BY <2>1, <2>3 DEF SessionFinding, Seen, Records1
    <3>2. /\ findings[k].detail.sightings \in Nat
          /\ s.findings[k].detail.sightings \in Nat
      BY <2>1, <2>3, TypedRow DEF SessionFinding, Finding, TablesOK, TableNames, Keys,
         findings
    <3>3. QED
      BY <1>1, <1>2, <2>1, <2>3, <3>1, <3>2 DEF SessionFinding, OneMore
  <2>4. CASE j = k /\ findings[k] = NoRow
    BY <1>1, <1>2, <2>1, <2>4 DEF SessionFinding, OneMore, Seen
  <2>5. QED
    BY <2>2, <2>3, <2>4
<1>4. ASSUME NEW e \in Emails
      PROVE  SessionIdentity(t, e)
  BY DEF SessionOK, Records1, SessionIdentity
<1>5. QED
  BY <1>2, <1>3, <1>4 DEF SessionOK, Records1

\* The dossier the session has of the person, and the asset it is linked to.
DossierBefore(s, e, n) ==
    IF s.identities[e] = NoRow THEN NewIdentity(n) ELSE s.identities[e]
LinkOf(ci, e) == IF ci.vip = NoRow THEN VipAsset(e) ELSE ci.vip

\* t is the session s with the dossier row of the person e, in place of ci.
Follows(s, t, e, ci, row) ==
    /\ DOMAIN t = SessionFields
    /\ t.findings = s.findings
    /\ t.identities = [s.identities EXCEPT ![e] = row]
    /\ t.twice = s.twice /\ t.pending = {}
    /\ t.sent = s.sent \cup AlertsNewHit(e, ci, LinkOf(ci, e))
    /\ t.created = s.created /\ t.deduped = s.deduped /\ t.errors = s.errors

LEMMA FollowedFields ==
    ASSUME NEW s, DOMAIN s = SessionFields, NEW rec, NEW f, NEW created, NEW n,
           NEW ci, ci = DossierBefore(s, rec.email, n)
    PROVE  Follows(s, update_identity(s, rec, f, created, n), rec.email, ci,
                   Dossier(ci, rec, f, created, LinkOf(ci, rec.email)))
<1>1. PICK ids, se :
        /\ ids = [s.identities EXCEPT ![rec.email] =
                     Dossier(ci, rec, f, created, LinkOf(ci, rec.email))]
        /\ se = s.sent \cup AlertsNewHit(rec.email, ci, LinkOf(ci, rec.email))
  OBVIOUS
<1>2. PICK t : t = [s EXCEPT !.pending = {}, !.sent = se, !.identities = ids]
  OBVIOUS
<1>3. t = update_identity(s, rec, f, created, n)
  BY <1>1, <1>2, Zenon DEF update_identity, DossierBefore, LinkOf
<1>4. /\ DOMAIN t = SessionFields /\ t.findings = s.findings /\ t.identities = ids
      /\ t.twice = s.twice /\ t.pending = {} /\ t.sent = se
      /\ t.created = s.created /\ t.deduped = s.deduped /\ t.errors = s.errors
  BY <1>2 DEF SessionFields
<1>5. QED
  BY <1>1, <1>3, <1>4, Zenon DEF Follows

\* row is ci after one more record of the person.
Dossiered(row, ci, rec, created, vip) ==
    /\ Typed("identities", row)
    /\ row.vip = vip
    /\ row.leak_count = IF created THEN ci.leak_count + 1 ELSE ci.leak_count
    /\ row.passwords = IF rec.what = NoRow THEN ci.passwords
                       ELSE ci.passwords \cup {rec.what}

LEMMA DossierRow ==
    ASSUME NEW ci, Typed("identities", ci), NEW rec \in Records, NEW f,
           Typed("findings", f), NEW created, NEW vip \in Ids \cup {NoRow}
    PROVE  Dossiered(Dossier(ci, rec, f, created, vip), ci, rec, created, vip)
<1>1. ci \in Identity /\ f \in Finding
  BY TypedRow
<1>2. PICK lc, pw, mr :
        /\ lc = IF created THEN ci.leak_count + 1 ELSE ci.leak_count
        /\ pw = IF rec.what = NoRow THEN ci.passwords
                ELSE ci.passwords \cup {rec.what}
        /\ mr = IF f.score > ci.max_risk THEN f.score ELSE ci.max_risk
  OBVIOUS
<1>3. PICK row : row = [ci EXCEPT !.leak_count = lc, !.passwords = pw, !.vip = vip,
                                  !.max_risk = mr]
  OBVIOUS
<1>4. row = Dossier(ci, rec, f, created, vip)
  BY <1>2, <1>3, Zenon DEF Dossier
<1>5. lc \in Nat /\ pw \in SUBSET {x.what : x \in Records} /\ mr \in 0..100
  BY <1>1, <1>2 DEF Identity, Finding
<1>6. row \in Identity /\ row.vip = vip /\ row.leak_count = lc /\ row.passwords = pw
  BY <1>1, <1>3, <1>5 DEF Identity
<1>7. QED
  BY <1>2, <1>4, <1>6, TypedRow DEF Dossiered

\* What the dossier was before: one the session has, or a new one.
LEMMA BeforeRow ==
    ASSUME NEW s, NEW n \in Ids, NEW ingest, SessionOK(s, n, ingest),
           NEW e \in Emails, NEW ci, ci = DossierBefore(s, e, n)
    PROVE  /\ Typed("identities", ci)
           /\ ci.vip = NoRow \/ <<e, ci.vip>> \in sent \cup s.sent
           /\ LinkOf(ci, e) \in Ids \cup {NoRow}
<1>1. CASE s.identities[e] = NoRow
  <2>1. ci = NewIdentity(n)
    BY <1>1 DEF DossierBefore
  <2>2. ci \in Identity /\ ci.vip = NoRow
    BY <2>1 DEF NewIdentity, Identity
  <2>3. QED
    BY <2>2, TypedRow, Hit DEF LinkOf, Monitoring
<1>2. CASE s.identities[e] # NoRow
  <2>1. /\ Typed("identities", ci)
        /\ ci.vip = NoRow \/ <<e, ci.vip>> \in sent \cup s.sent
    BY <1>2 DEF DossierBefore, SessionOK, SessionIdentity
  <2>2. ci.vip \in Ids \cup {NoRow}
    BY <2>1, TypedRow DEF Identity
  <2>3. QED
    BY <2>1, <2>2, Hit DEF LinkOf, Monitoring
<1>3. QED
  BY <1>1, <1>2

LEMMA FollowsOK ==
    ASSUME TablesOK, NEW n \in Ids, NEW ingest, NEW s, SessionOK(s, n, ingest),
           NEW e \in Emails, NEW ci, ci = DossierBefore(s, e, n), NEW row,
           Typed("identities", row), row.vip = LinkOf(ci, e),
           NEW t, Follows(s, t, e, ci, row)
    PROVE  SessionOK(t, n, ingest)
<1>1. /\ ci.vip = NoRow \/ <<e, ci.vip>> \in sent \cup s.sent
      /\ row.vip \in Ids \cup {NoRow}
  BY BeforeRow
<1>2. row # NoRow
  BY RowNotNull DEF TableNames
<1>3. t.sent \subseteq Emails \X Ids /\ s.sent \subseteq t.sent
  <2>1. CASE row.vip = ci.vip
    BY <2>1 DEF Follows, AlertsNewHit, SessionOK
  <2>2. CASE row.vip # ci.vip
    <3>1. row.vip \in Ids
      <4>1. ci.vip = NoRow
        BY <2>2 DEF LinkOf
      <4>2. QED
        BY <1>1, <2>2, <4>1
    <3>2. t.sent = s.sent \cup {<<e, row.vip>>}
      BY <2>2 DEF Follows, AlertsNewHit
    <3>3. QED
      BY <3>1, <3>2 DEF SessionOK
  <2>3. QED
    BY <2>1, <2>2
<1>4. row.vip = NoRow \/ <<e, row.vip>> \in sent \cup t.sent
  <2>1. CASE row.vip = ci.vip
    BY <1>1, <1>3, <2>1
  <2>2. CASE row.vip # ci.vip
    BY <2>2 DEF Follows, AlertsNewHit
  <2>3. QED
    BY <2>1, <2>2
<1>5. /\ t.identities = [x \in Emails |-> t.identities[x]]
      /\ t.identities[e] = row
      /\ \A x \in Emails : x # e => t.identities[x] = s.identities[x]
  BY DEF Follows, SessionOK
<1>6. ASSUME NEW x \in Emails
      PROVE  SessionIdentity(t, x)
  BY <1>2, <1>3, <1>4, <1>5 DEF SessionOK, SessionIdentity
<1>7. ASSUME NEW k \in FindingKeys
      PROVE  SessionFinding(t, k, n, ingest)
  BY DEF SessionOK, SessionFinding, Follows
<1>8. QED
  BY <1>3, <1>5, <1>6, <1>7 DEF SessionOK, Follows

\* One record keeps the session what it is.
LEMMA PersistOK ==
    ASSUME TablesOK, NEW n \in Ids, NEW ingest \in Ids \cup {NoRow}, NEW s,
           SessionOK(s, n, ingest), NEW rec \in Records,
           NEW asset \in Ids \cup {NoRow}, NEW doubt \in 0..10
    PROVE  SessionOK(persist_record(s, rec, n, asset, ingest, doubt), n, ingest)
<1>1. PICK k, f : k = dedup_key(rec) /\ f = FindingOf(s, rec, n, asset, ingest, doubt)
  OBVIOUS
<1>2. PICK t : t = Recorded(s, k, f)
  OBVIOUS
<1>3. k \in FindingKeys /\ OneMore(s, k, f, n, ingest)
  BY <1>1, OneMoreRow
<1>4. Records1(s, t, k, f)
  BY <1>2, RecordedFields DEF SessionOK
<1>5. SessionOK(t, n, ingest)
  BY <1>3, <1>4, RecordedOK
<1>6. PICK u : u = update_identity(t, rec, f, ~Seen(s, k), n)
  OBVIOUS
<1>7. persist_record(s, rec, n, asset, ingest, doubt)
        = IF rec.type = "credential_exposure" THEN u ELSE t
  BY <1>1, <1>2, <1>6, PersistParts, Zenon
<1>8. SessionOK(u, n, ingest)
  <2>1. PICK ci : ci = DossierBefore(t, rec.email, n)
    OBVIOUS
  <2>2. PICK row : row = Dossier(ci, rec, f, ~Seen(s, k), LinkOf(ci, rec.email))
    OBVIOUS
  <2>3. rec.email \in Emails
    BY InputsAssumption
  <2>4. Typed("identities", ci) /\ LinkOf(ci, rec.email) \in Ids \cup {NoRow}
    BY <1>5, <2>1, <2>3, BeforeRow
  <2>5. Dossiered(row, ci, rec, ~Seen(s, k), LinkOf(ci, rec.email))
    BY <1>3, <2>2, <2>4, DossierRow DEF OneMore
  <2>6. Follows(t, u, rec.email, ci, row)
    BY <1>5, <1>6, <2>1, <2>2, FollowedFields DEF SessionOK
  <2>7. QED
    BY <1>5, <2>1, <2>3, <2>5, <2>6, FollowsOK DEF Dossiered
<1>9. QED
  BY <1>5, <1>7, <1>8

-----------------------------------------------------------------------------
(***************************************************************************)
(* The lines of a file.                                                    *)
(***************************************************************************)

\* g[i] is the session after the first i lines of the file.
Lines(g, file, n, m) ==
    g = [i \in 0..m |->
           IF i = 0 THEN Session ELSE ImportLine(g[i - 1], file[i], n)]

LEMMA LinesExist ==
    ASSUME NEW file, NEW n, NEW m \in Nat
    PROVE  \E g : Lines(g, file, n, m)
<1>1. SUFFICES ASSUME ~\E g : Lines(g, file, n, m)
               PROVE  FALSE
  OBVIOUS
<1>2. PICK T : T = {j \in Nat : ~\E g : Lines(g, file, n, j)}
  OBVIOUS
<1>3. PICK j \in T : \A i \in T : j <= i
  BY <1>1, <1>2, Least
<1>4. j \in Nat /\ ~\E g : Lines(g, file, n, j)
  BY <1>2, <1>3
<1>5. CASE j = 0
  <2>1. PICK g : g = [i \in 0..0 |-> Session]
    OBVIOUS
  <2>2. Lines(g, file, n, 0)
    BY <2>1 DEF Lines
  <2>3. QED
    BY <1>4, <1>5, <2>2
<1>6. CASE j # 0
  <2>1. j - 1 \in Nat /\ j - 1 \notin T
    BY <1>3, <1>4, <1>6
  <2>2. PICK g : Lines(g, file, n, j - 1)
    BY <1>2, <2>1
  <2>3. PICK last : last = ImportLine(g[j - 1], file[j], n)
    OBVIOUS
  <2>4. PICK h : h = [i \in 0..j |-> IF i = j THEN last ELSE g[i]]
    OBVIOUS
  <2>5. \A i \in 0..(j - 1) :
          g[i] = IF i = 0 THEN Session ELSE ImportLine(g[i - 1], file[i], n)
    BY <2>2 DEF Lines
  <2>6. ASSUME NEW i \in 0..j
        PROVE  h[i] = IF i = 0 THEN Session ELSE ImportLine(h[i - 1], file[i], n)
    <3>1. CASE i = j
      BY <1>4, <1>6, <2>3, <2>4, <3>1
    <3>2. CASE i # j
      <4>1. i \in 0..(j - 1) /\ h[i] = g[i] /\ (i # 0 => h[i - 1] = g[i - 1])
        BY <1>4, <2>4, <3>2
      <4>2. QED
        BY <2>5, <4>1
    <3>3. QED
      BY <3>1, <3>2
  <2>7. Lines(h, file, n, j)
    BY <2>4, <2>6 DEF Lines
  <2>8. QED
    BY <1>4, <2>7
<1>7. QED
  BY <1>5, <1>6

LEMMA ImportedLines ==
    ASSUME NEW file, NEW n, Len(file) \in Nat
    PROVE  \E g : Lines(g, file, n, Len(file)) /\ Imported(file, n) = g[Len(file)]
<1>1. PICK g : g = CHOOSE h : Lines(h, file, n, Len(file))
  OBVIOUS
<1>2. Lines(g, file, n, Len(file))
  BY <1>1, LinesExist
<1>3. Imported(file, n) = g[Len(file)]
  BY <1>1 DEF Imported, Lines
<1>4. QED
  BY <1>2, <1>3

LEMMA LineOK ==
    ASSUME TablesOK, NEW n \in Ids, NEW s, SessionOK(s, n, n),
           NEW line \in Records \cup {Bad}
    PROVE  SessionOK(ImportLine(s, line, n), n, n)
<1>1. CASE line = Bad
  <2>1. PICK t : t = [s EXCEPT !.errors = @ + 1]
    OBVIOUS
  <2>2. /\ DOMAIN t = SessionFields
        /\ t.findings = s.findings /\ t.identities = s.identities
        /\ t.pending = s.pending /\ t.twice = s.twice /\ t.sent = s.sent
        /\ t.created = s.created /\ t.deduped = s.deduped
        /\ t.errors \in Nat
    BY <2>1 DEF SessionOK, SessionFields
  <2>3. /\ \A k \in FindingKeys : SessionFinding(t, k, n, n)
        /\ \A e \in Emails : SessionIdentity(t, e)
    BY <2>2 DEF SessionOK, SessionFinding, SessionIdentity
  <2>4. SessionOK(t, n, n)
    BY <2>2, <2>3 DEF SessionOK
  <2>5. QED
    BY <1>1, <2>1, <2>4 DEF ImportLine
<1>2. CASE line # Bad
  BY <1>2, PersistOK DEF ImportLine
<1>3. QED
  BY <1>1, <1>2

-----------------------------------------------------------------------------
(***************************************************************************)
(* The counts of a session.                                                *)
(***************************************************************************)
NewKeys(s) == {k \in FindingKeys : findings[k] = NoRow /\ s.findings[k] # NoRow}

\* After m lines: each was counted once, and as many findings were created as
\* the session adds, unless it added one twice.
Counted(s, m) ==
    /\ s.created + s.deduped + s.errors = m
    /\ IsFiniteSet(NewKeys(s))
    /\ s.twice = {} => Cardinality(NewKeys(s)) = s.created

LEMMA StartCounted == IInv => Counted(Session, 0)
<1> SUFFICES ASSUME IInv
             PROVE  Counted(Session, 0)
  OBVIOUS
<1>1. PICK s : s = Session
  OBVIOUS
<1>2. /\ s.findings = findings
      /\ s.created = 0 /\ s.deduped = 0 /\ s.errors = 0
  BY <1>1 DEF Session
<1>3. NewKeys(s) = {}
  BY <1>2 DEF NewKeys
<1>4. QED
  BY <1>1, <1>2, <1>3, FS_EmptySet DEF Counted

LEMMA RecordCounted ==
    ASSUME NEW n, NEW ingest, NEW s, SessionOK(s, n, ingest), NEW m \in Nat,
           Counted(s, m), NEW k \in FindingKeys, NEW f, f # NoRow,
           NEW t, Records1(s, t, k, f)
    PROVE  Counted(t, m + 1)
<1>1. /\ t.findings[k] = f
      /\ \A j \in FindingKeys : j # k => t.findings[j] = s.findings[j]
      /\ SessionFinding(s, k, n, ingest)
      /\ s.created \in Nat /\ s.deduped \in Nat /\ s.errors \in Nat
      /\ s.created + s.deduped + s.errors = m
  BY DEF SessionOK, Records1, Counted
<1>2. CASE Seen(s, k)
  <2>1. NewKeys(t) = NewKeys(s)
    BY <1>1, <1>2 DEF NewKeys, Seen
  <2>2. /\ t.created = s.created /\ t.deduped = s.deduped + 1
        /\ t.errors = s.errors /\ t.twice = s.twice
    BY <1>2 DEF Records1, Seen
  <2>3. t.created + t.deduped + t.errors = m + 1
    BY <1>1, <2>2
  <2>4. QED
    BY <2>1, <2>2, <2>3 DEF Counted
<1>3. CASE ~Seen(s, k)
  <2>1. findings[k] = NoRow
    BY <1>1, <1>3 DEF SessionFinding, Seen
  <2>2. NewKeys(t) = NewKeys(s) \cup {k}
    BY <1>1, <2>1 DEF NewKeys
  <2>3. /\ t.created = s.created + 1 /\ t.deduped = s.deduped
        /\ t.errors = s.errors
    BY <1>3 DEF Records1
  <2>4. t.created + t.deduped + t.errors = m + 1
    BY <1>1, <2>3
  <2>5. IsFiniteSet(NewKeys(t))
    BY <2>2, FS_AddElement DEF Counted
  <2>6. ASSUME t.twice = {}
        PROVE  Cardinality(NewKeys(t)) = t.created
    <3>1. k \notin s.pending /\ s.twice = {}
      BY <2>6 DEF Records1
    <3>2. k \notin NewKeys(s)
      BY <1>3, <3>1 DEF Seen, NewKeys
    <3>3. Cardinality(NewKeys(s)) = s.created
      BY <3>1 DEF Counted
    <3>4. QED
      BY <2>2, <2>3, <3>2, <3>3, FS_AddElement DEF Counted
  <2>7. QED
    BY <2>4, <2>5, <2>6 DEF Counted
<1>4. QED
  BY <1>2, <1>3

LEMMA PersistCounted ==
    ASSUME TablesOK, NEW n \in Ids, NEW ingest \in Ids \cup {NoRow}, NEW s,
           SessionOK(s, n, ingest), NEW rec \in Records, NEW m \in Nat,
           Counted(s, m), NEW asset \in Ids \cup {NoRow}, NEW doubt \in 0..10
    PROVE  Counted(persist_record(s, rec, n, asset, ingest, doubt), m + 1)
<1>1. PICK k, f : k = dedup_key(rec) /\ f = FindingOf(s, rec, n, asset, ingest, doubt)
  OBVIOUS
<1>2. PICK t : t = Recorded(s, k, f)
  OBVIOUS
<1>3. k \in FindingKeys /\ OneMore(s, k, f, n, ingest)
  BY <1>1, OneMoreRow
<1>4. Records1(s, t, k, f)
  BY <1>2, RecordedFields DEF SessionOK
<1>5. f # NoRow
  BY <1>3, RowNotNull DEF OneMore, TableNames
<1>6. Counted(t, m + 1)
  BY <1>3, <1>4, <1>5, RecordCounted
<1>7. PICK u : u = update_identity(t, rec, f, ~Seen(s, k), n)
  OBVIOUS
<1>8. persist_record(s, rec, n, asset, ingest, doubt)
        = IF rec.type = "credential_exposure" THEN u ELSE t
  BY <1>1, <1>2, <1>7, PersistParts, Zenon
<1>9. Counted(u, m + 1)
  <2>1. PICK ci : ci = DossierBefore(t, rec.email, n)
    OBVIOUS
  <2>2. PICK row : row = Dossier(ci, rec, f, ~Seen(s, k), LinkOf(ci, rec.email))
    OBVIOUS
  <2>3. Follows(t, u, rec.email, ci, row)
    BY <1>4, <1>7, <2>1, <2>2, FollowedFields DEF Records1
  <2>4. /\ u.findings = t.findings /\ u.twice = t.twice
        /\ u.created = t.created /\ u.deduped = t.deduped /\ u.errors = t.errors
    BY <2>3 DEF Follows
  <2>5. NewKeys(u) = NewKeys(t)
    BY <2>4 DEF NewKeys
  <2>6. QED
    BY <1>6, <2>4, <2>5 DEF Counted
<1>10. QED
  BY <1>6, <1>8, <1>9

LEMMA LineCounted ==
    ASSUME TablesOK, NEW n \in Ids, NEW s, SessionOK(s, n, n), NEW m \in Nat,
           Counted(s, m), NEW line \in Records \cup {Bad}
    PROVE  Counted(ImportLine(s, line, n), m + 1)
<1>1. CASE line = Bad
  <2>1. PICK t : t = [s EXCEPT !.errors = @ + 1]
    OBVIOUS
  <2>2. /\ t.findings = s.findings /\ t.twice = s.twice
        /\ t.created = s.created /\ t.deduped = s.deduped
        /\ t.errors = s.errors + 1
    BY <2>1 DEF SessionOK, SessionFields
  <2>3. NewKeys(t) = NewKeys(s)
    BY <2>2 DEF NewKeys
  <2>4. t.created + t.deduped + t.errors = m + 1
    <3>1. /\ s.created \in Nat /\ s.deduped \in Nat /\ s.errors \in Nat
          /\ s.created + s.deduped + s.errors = m
      BY DEF SessionOK, Counted
    <3>2. QED
      BY <2>2, <3>1
  <2>5. Counted(t, m + 1)
    BY <2>2, <2>3, <2>4 DEF Counted
  <2>6. QED
    BY <1>1, <2>1, <2>5 DEF ImportLine
<1>2. CASE line # Bad
  <2>1. NoRow \in Ids \cup {NoRow} /\ 10 \in 0..10 /\ n \in Ids \cup {NoRow}
    OBVIOUS
  <2>2. line \in Records
    BY <1>2
  <2>3. Counted(persist_record(s, line, n, NoRow, n, 10), m + 1)
    BY <2>1, <2>2, PersistCounted
  <2>4. QED
    BY <1>2, <2>3 DEF ImportLine
<1>3. QED
  BY <1>1, <1>2

\* After every line the counts add up to the lines so far.
LEMMA LinesCounted ==
    ASSUME IInv, NEW n \in Ids, NEW file \in Files, NEW g, Lines(g, file, n, Len(file))
    PROVE  \A i \in 0..Len(file) : SessionOK(g[i], n, n) /\ Counted(g[i], i)
<1>1. /\ Len(file) \in Nat
      /\ \A i \in 1..Len(file) : file[i] \in Records \cup {Bad}
  BY InputsAssumption
<1>2. PICK T : T = {i \in 0..Len(file) : ~(SessionOK(g[i], n, n) /\ Counted(g[i], i))}
  OBVIOUS
<1>3. ASSUME T # {}
      PROVE  FALSE
  <2>0. T \subseteq Nat
    BY <1>1, <1>2
  <2>1. PICK i \in T : \A j \in T : i <= j
    BY <1>3, <2>0, Least
  <2>2. i \in 0..Len(file) /\ ~(SessionOK(g[i], n, n) /\ Counted(g[i], i))
    BY <1>2, <2>1
  <2>3. g[i] = IF i = 0 THEN Session ELSE ImportLine(g[i - 1], file[i], n)
    BY <2>2 DEF Lines
  <2>4. i # 0
    BY <2>2, <2>3, SessionStarts, StartCounted
  <2>5. PICK m \in Nat : i = m + 1
    BY <1>1, <2>2, <2>4
  <2>6. m \in 0..Len(file) /\ m \notin T
    BY <1>1, <2>1, <2>2, <2>5
  <2>7. SessionOK(g[m], n, n) /\ Counted(g[m], m)
    BY <1>2, <2>6
  <2>8. file[i] \in Records \cup {Bad}
    BY <1>1, <2>2, <2>4
  <2>9. g[i] = ImportLine(g[m], file[i], n)
    BY <2>3, <2>4, <2>5
  <2>10. SessionOK(g[i], n, n) /\ Counted(g[i], m + 1)
    BY <2>7, <2>8, <2>9, LineOK, LineCounted DEF IInv
  <2>11. QED
    BY <2>2, <2>5, <2>10
<1>4. QED
  BY <1>2, <1>3

LEMMA ImportedCounted ==
    ASSUME IInv, NEW n \in Ids, NEW file \in Files
    PROVE  SessionOK(Imported(file, n), n, n) /\ Counted(Imported(file, n), Len(file))
<1>1. Len(file) \in Nat
  BY InputsAssumption
<1>2. PICK g : /\ Lines(g, file, n, Len(file))
               /\ Imported(file, n) = g[Len(file)]
  BY <1>1, ImportedLines
<1>3. QED
  BY <1>1, <1>2, LinesCounted

-----------------------------------------------------------------------------
(***************************************************************************)
(* The requests.                                                           *)
(***************************************************************************)

\* The writes that turn the rows of a table into the rows of a session.
LEMMA ChangedWrite ==
    ASSUME NEW t, NEW rows, NEW w \in Changed(t, rows)
    PROVE  \E k \in DOMAIN rows :
              /\ rows[k] # db[t][k]
              /\ db[t][k] = NoRow => w = Insert(t, k, rows[k])
              /\ db[t][k] # NoRow => w = Update(t, k, db[t][k], rows[k])
  BY DEF Changed

LEMMA InsertWrite ==
    ASSUME NEW t \in TableNames, NEW k \in Keys[t], NEW row, Typed(t, row),
           NEW alerts,
           t = "identities" => row.vip = NoRow \/ <<k, row.vip>> \in alerts
    PROVE  WriteOK(Insert(t, k, row), alerts)
<1>1. PICK w : w = Insert(t, k, row)
  OBVIOUS
<1>2. w.at = <<t, k>> /\ w.how = "insert" /\ w.set = row
  BY <1>1, Added
<1>3. t = "identities" => w.set["vip"] = NoRow \/ <<k, w.set["vip"]>> \in alerts
  BY <1>2
<1>4. QED
  BY <1>1, <1>2, <1>3 DEF WriteOK

LEMMA UpdateWrite ==
    ASSUME TablesOK, NEW t \in TableNames, NEW k \in Keys[t], db[t][k] # NoRow,
           NEW row, Typed(t, row), NEW alerts,
           t = "identities" => row.vip = NoRow \/ <<k, row.vip>> \in alerts
    PROVE  WriteOK(Update(t, k, db[t][k], row), alerts)
<1>1. PICK w : w = Update(t, k, db[t][k], row)
  OBVIOUS
<1>2. /\ w.at = <<t, k>> /\ w.how = "update"
      /\ DOMAIN w.set \subseteq DOMAIN db[t][k]
      /\ \A c \in DOMAIN w.set : w.set[c] = row[c]
  BY <1>1, Updated
<1>3. Typed(t, db[t][k])
  BY DEF TablesOK
<1>4. \A c \in DOMAIN w.set : c \in DOMAIN Columns[t] /\ w.set[c] \in Columns[t][c]
  BY <1>2, <1>3 DEF Typed
<1>5. t = "identities" /\ "vip" \in DOMAIN w.set
        => w.set["vip"] = NoRow \/ <<k, w.set["vip"]>> \in alerts
  BY <1>2
<1>6. QED
  BY <1>1, <1>2, <1>4, <1>5 DEF WriteOK

LEMMA DeleteWrite ==
    ASSUME NEW t \in TableNames, NEW k \in Keys[t], NEW row, NEW alerts
    PROVE  WriteOK(Delete(t, k, row), alerts)
<1>1. PICK w : w = Delete(t, k, row)
  OBVIOUS
<1>2. w.at = <<t, k>> /\ w.how = "delete"
  BY <1>1, Removed
<1>3. QED
  BY <1>1, <1>2 DEF WriteOK

LEMMA SessionWritesOK ==
    ASSUME IInv, NEW n, NEW ingest, NEW s, SessionOK(s, n, ingest),
           NEW w \in SessionWrites(s)
    PROVE  WriteOK(w, sent \cup s.sent)
<1>1. CASE w \in Changed("findings", s.findings)
  <2>1. PICK k \in FindingKeys :
          /\ s.findings[k] # findings[k]
          /\ findings[k] = NoRow => w = Insert("findings", k, s.findings[k])
          /\ findings[k] # NoRow =>
               w = Update("findings", k, findings[k], s.findings[k])
    BY <1>1, ChangedWrite DEF SessionOK, findings
  <2>2. s.findings[k] # NoRow /\ Typed("findings", s.findings[k])
    BY <2>1 DEF SessionOK, SessionFinding
  <2>3. "findings" \in TableNames /\ k \in Keys["findings"] /\ TablesOK
    BY DEF TableNames, Keys, IInv
  <2>4. QED
    BY <2>1, <2>2, <2>3, InsertWrite, UpdateWrite DEF findings
<1>2. CASE w \in Changed("identities", s.identities)
  <2>1. PICK e \in Emails :
          /\ s.identities[e] # identities[e]
          /\ identities[e] = NoRow => w = Insert("identities", e, s.identities[e])
          /\ identities[e] # NoRow =>
               w = Update("identities", e, identities[e], s.identities[e])
    BY <1>2, ChangedWrite DEF SessionOK, identities
  <2>2. /\ s.identities[e] # NoRow /\ Typed("identities", s.identities[e])
        /\ \/ s.identities[e].vip = NoRow
           \/ <<e, s.identities[e].vip>> \in sent \cup s.sent
    BY <2>1 DEF SessionOK, SessionIdentity
  <2>3. "identities" \in TableNames /\ e \in Keys["identities"] /\ TablesOK
    BY DEF TableNames, Keys, IInv
  <2>4. QED
    BY <2>1, <2>2, <2>3, InsertWrite, UpdateWrite DEF identities
<1>3. CASE \E k \in s.twice :
             w = [Insert("findings", k, s.findings[k]) EXCEPT !.how = "insert_twice"]
  <2>1. PICK k \in FindingKeys :
             w = [Insert("findings", k, s.findings[k]) EXCEPT !.how = "insert_twice"]
    BY <1>3 DEF SessionOK
  <2>2. w.at = <<"findings", k>> /\ w.how = "insert_twice"
    BY <2>1 DEF Insert
  <2>3. "findings" \in TableNames /\ k \in Keys["findings"]
    BY DEF TableNames, Keys
  <2>4. QED
    BY <2>2, <2>3 DEF WriteOK
<1>4. QED
  BY <1>1, <1>2, <1>3 DEF SessionWrites

\* A request that sends no alert.
LEMMA RequestI ==
    ASSUME IInv, NEW r \in Slots, NEW op, NEW on, NEW ws, Request(r, op, on, ws),
           \A w \in ws : WriteOK(w, sent)
    PROVE  IInv'
<1>1. Begin(r, op, on, ws, "answer") /\ UNCHANGED <<db, sent>>
  BY DEF Request
<1>2. sent' \subseteq Emails \X Ids /\ \A w \in ws : WriteOK(w, sent')
  BY <1>1 DEF IInv
<1>3. QED
  BY <1>1, <1>2, BeginI

LEMMA NumberId ==
    ASSUME IInv, NEW r, Free(r)
    PROVE  Number \in Ids
  BY MaxRequestsNat DEF Free, Number, Ids, IInv

LEMMA AssetI ==
    ASSUME IInv, NEW r \in Slots, Free(r), AssetRequest(r)
    PROVE  IInv'
<1>1. /\ "assets" \in TableNames /\ Keys["assets"] = Ids /\ Number \in Ids
      /\ TablesOK
  BY NumberId DEF TableNames, Keys, IInv
<1>2. ASSUME NEW e \in Emails, NEW crit \in Criticalities, create_asset(r, e, crit)
      PROVE  IInv'
  <2>1. PICK row : row = [id |-> Number, email |-> e, criticality |-> crit]
    OBVIOUS
  <2>2. Typed("assets", row)
    BY <1>1, <2>1, TypedRow, InputsAssumption DEF Asset
  <2>3. WriteOK(Insert("assets", Number, row), sent)
    BY <1>1, <2>2, InsertWrite
  <2>4. Request(r, "asset_create", NoRow, {Insert("assets", Number, row)})
    BY <1>2, <2>1 DEF create_asset
  <2>5. QED
    BY <2>3, <2>4, RequestI
<1>3. ASSUME NEW i \in Ids, NEW crit \in Criticalities, update_asset(r, i, crit)
      PROVE  IInv'
  <2>1. PICK row : row = [assets[i] EXCEPT !.criticality = crit]
    OBVIOUS
  <2>2. assets[i] \in Asset
    BY <1>1, <1>3, TypedRow DEF TablesOK, update_asset, assets
  <2>3. Typed("assets", row)
    BY <2>1, <2>2, TypedRow, InputsAssumption DEF Asset
  <2>4. WriteOK(Update("assets", i, assets[i], row), sent)
    BY <1>1, <1>3, <2>3, UpdateWrite DEF update_asset, assets
  <2>5. Request(r, "asset_update", NoRow, {Update("assets", i, assets[i], row)})
    BY <1>3, <2>1 DEF update_asset
  <2>6. QED
    BY <2>4, <2>5, RequestI
<1>4. ASSUME NEW i \in Ids, delete_asset(r, i)
      PROVE  IInv'
  <2>1. WriteOK(Delete("assets", i, assets[i]), sent)
    BY <1>1, DeleteWrite
  <2>2. QED
    BY <1>4, <2>1, RequestI DEF delete_asset
<1>5. QED
  BY <1>2, <1>3, <1>4 DEF AssetRequest

LEMMA FindingI ==
    ASSUME IInv, NEW r \in Slots, Free(r), FindingRequest(r)
    PROVE  IInv'
<1>1. /\ "findings" \in TableNames /\ Keys["findings"] = FindingKeys
      /\ "batches" \in TableNames /\ Keys["batches"] = Ids
      /\ "identities" \in TableNames /\ Keys["identities"] = Emails
      /\ Number \in Ids /\ TablesOK
  BY NumberId DEF TableNames, Keys, IInv
<1>2. ASSUME NEW op, NEW on, NEW ws, NEW s, NEW ingest,
             SessionOK(s, Number, ingest),
             \A w \in ws : w \in SessionWrites(s) \/ WriteOK(w, sent),
             Begin(r, op, on, ws, "answer"), sent' = sent \cup s.sent, UNCHANGED db
      PROVE  IInv'
  <2>1. \A w \in ws : WriteOK(w, sent')
    <3>1. \A w : WriteOK(w, sent) => WriteOK(w, sent')
      BY <1>2 DEF WriteOK
    <3>2. QED
      BY <1>2, <3>1, SessionWritesOK
  <2>2. sent \subseteq sent' /\ sent' \subseteq Emails \X Ids
    BY <1>2 DEF IInv, SessionOK
  <2>3. QED
    BY <1>2, <2>1, <2>2, BeginI
<1>3. ASSUME NEW rec \in Records, NEW asset \in Ids \cup {NoRow},
             intake_finding(r, rec, asset)
      PROVE  IInv'
  <2>1. PICK s : s = persist_record(Session, rec, Number, asset, NoRow, 4)
    OBVIOUS
  <2>2. SessionOK(s, Number, NoRow)
    <3>1. NoRow \in Ids \cup {NoRow} /\ 4 \in 0..10
      OBVIOUS
    <3>2. SessionOK(Session, Number, NoRow)
      BY SessionStarts
    <3>3. QED
      BY <1>1, <2>1, <3>1, <3>2, PersistOK
  <2>3. /\ Begin(r, "intake", dedup_key(rec), SessionWrites(s), "answer")
        /\ sent' = sent \cup s.sent /\ UNCHANGED db
    BY <1>3, <2>1 DEF intake_finding
  <2>4. QED
    BY <1>2, <2>2, <2>3
<1>4. ASSUME NEW file \in Files, import_file(r, file)
      PROVE  IInv'
  <2>1. PICK s : s = Imported(file, Number)
    OBVIOUS
  <2>2. SessionOK(s, Number, Number)
    BY <1>1, <2>1, ImportedCounted
  <2>3. PICK batch :
          batch = [id |-> Number, status |-> "completed", total |-> Len(file),
                   created |-> s.created, deduped |-> s.deduped,
                   errors |-> s.errors]
    OBVIOUS
  <2>4. Len(file) \in Nat
    BY InputsAssumption
  <2>5. Typed("batches", batch)
    BY <1>1, <2>2, <2>3, <2>4, TypedRow DEF Batch, SessionOK
  <2>6. WriteOK(Insert("batches", Number, batch), sent)
    BY <1>1, <2>5, InsertWrite
  <2>7. /\ Begin(r, "import", NoRow,
                 {Insert("batches", Number, batch)} \cup SessionWrites(s), "answer")
        /\ sent' = sent \cup s.sent /\ UNCHANGED db
    BY <1>4, <2>1, <2>3 DEF import_file
  <2>8. QED
    BY <1>2, <2>2, <2>6, <2>7
<1>5. ASSUME NEW b \in Ids, rollback_ingest(r, b)
      PROVE  IInv'
  <2>1. PICK row : row = [batches[b] EXCEPT !.status = "rolled_back"]
    OBVIOUS
  <2>2. batches[b] \in Batch
    BY <1>1, <1>5, TypedRow DEF TablesOK, rollback_ingest, batches
  <2>3. Typed("batches", row)
    BY <2>1, <2>2, TypedRow DEF Batch
  <2>4. WriteOK(Update("batches", b, batches[b], row), sent)
    BY <1>1, <1>5, <2>3, UpdateWrite DEF rollback_ingest, batches
  <2>5. \A k \in FindingKeys : WriteOK(Delete("findings", k, findings[k]), sent)
    BY <1>1, DeleteWrite
  <2>6. QED
    BY <1>5, <2>1, <2>4, <2>5, RequestI DEF rollback_ingest
<1>6. ASSUME NEW k \in FindingKeys, NEW body \in Triages, triage_finding(r, k, body)
      PROVE  IInv'
  <2>1. PICK f : f = [findings[k] EXCEPT !.status = body.status, !.doubt = body.doubt]
    OBVIOUS
  <2>2. findings[k] # NoRow /\ findings[k] \in Finding
    BY <1>1, <1>6, TypedRow DEF TablesOK, triage_finding, findings
  <2>3. f \in Finding
    BY <2>1, <2>2, InputsAssumption DEF Finding
  <2>4. Typed("findings", Triaged(k, findings[k], body))
    BY <1>1, <2>1, <2>3, Scored, TypedRow DEF Triaged, Rescored
  <2>5. WriteOK(Update("findings", k, findings[k], Triaged(k, findings[k], body)), sent)
    BY <1>1, <2>2, <2>4, UpdateWrite DEF findings
  <2>6. QED
    BY <1>6, <2>5, RequestI DEF triage_finding
<1>7. ASSUME NEW e \in Emails, triage_identity(r, e, "closed")
      PROVE  IInv'
  <2>1. PICK row : row = [identities[e] EXCEPT !.status = "closed"]
    OBVIOUS
  <2>2. identities[e] # NoRow /\ identities[e] \in Identity
    BY <1>1, <1>7, TypedRow DEF TablesOK, triage_identity, identities
  <2>3. Typed("identities", row) /\ row.vip = identities[e].vip
    BY <2>1, <2>2, TypedRow DEF Identity
  <2>4. row.vip = NoRow \/ <<e, row.vip>> \in sent
    BY <2>2, <2>3 DEF IInv, VipHitAlerted
  <2>5. WriteOK(Update("identities", e, identities[e], row), sent)
    BY <1>1, <2>2, <2>3, <2>4, UpdateWrite DEF identities
  <2>6. QED
    BY <1>7, <2>1, <2>5, RequestI DEF triage_identity
<1>8. QED
  BY <1>3, <1>4, <1>5, <1>6, <1>7 DEF FindingRequest

\* A promoted asset names its finding.
LEMMA PromotedRow ==
    ASSUME NEW s \in SurfaceKeys, surface[s] \in Surface, NEW f, NEW row,
           row = Promoted(s, f)
    PROVE  row \in Surface /\ row.detail.finding = SurfaceKey(s)
<1>1. SurfaceKey(s) \in FindingKeys
  BY DEF FindingKeys
<1>2. PICK d : d = [surface[s].detail EXCEPT !.finding = SurfaceKey(s)]
  OBVIOUS
<1>3. /\ d \in [finding: FindingKeys \cup {NoRow}, found: Lookups \cup {NoRow}]
      /\ d.finding = SurfaceKey(s)
  BY <1>1, <1>2 DEF Surface
<1>4. \/ row = [surface[s] EXCEPT !.detail = d, !.status = "confirmed"]
      \/ row = [surface[s] EXCEPT !.detail = d]
  BY <1>2 DEF Promoted, Surface
<1>5. row \in Surface /\ row.detail = d
  BY <1>3, <1>4 DEF Surface
<1>6. QED
  BY <1>3, <1>5

\* A lookup leaves the finding an asset names.
LEMMA LookedUpRow ==
    ASSUME NEW old \in Surface, NEW lookup \in Lookups, NEW row,
           row = [old EXCEPT !.detail.found = lookup]
    PROVE  row \in Surface /\ row.detail.finding = old.detail.finding
<1>1. PICK d : d = [old.detail EXCEPT !.found = lookup]
  OBVIOUS
<1>2. /\ d \in [finding: FindingKeys \cup {NoRow}, found: Lookups \cup {NoRow}]
      /\ d.finding = old.detail.finding
  BY <1>1 DEF Surface
<1>3. row = [old EXCEPT !.detail = d]
  BY <1>1 DEF Surface
<1>4. row \in Surface /\ row.detail = d
  BY <1>2, <1>3 DEF Surface
<1>5. QED
  BY <1>2, <1>4

LEMMA SurfaceI ==
    ASSUME IInv, NEW r \in Slots, Free(r), SurfaceRequest(r)
    PROVE  IInv'
<1>1. /\ "surface" \in TableNames /\ Keys["surface"] = SurfaceKeys
      /\ "findings" \in TableNames /\ Keys["findings"] = FindingKeys
      /\ Number \in Ids /\ TablesOK
  BY NumberId DEF TableNames, Keys, IInv
<1>2. ASSUME NEW s \in SurfaceKeys, surface[s] # NoRow
      PROVE  surface[s] \in Surface
  BY <1>1, <1>2, TypedRow DEF TablesOK, surface
<1>3. ASSUME NEW s \in SurfaceKeys, NEW found \in Lookups \cup {NoRow}
      PROVE  WriteOK(Insert("surface", s, NewSurface(Number, found)), sent)
  <2>1. NewSurface(Number, found) \in Surface
    BY <1>1 DEF NewSurface, Surface
  <2>2. QED
    BY <1>1, <2>1, TypedRow, InsertWrite
<1>4. ASSUME NEW s \in SurfaceKeys, surface[s] # NoRow, NEW row \in Surface
      PROVE  WriteOK(Update("surface", s, surface[s], row), sent)
  BY <1>1, <1>4, TypedRow, UpdateWrite DEF surface
<1>5. ASSUME NEW items \in SUBSET SurfaceKeys, import_surface(r, items)
      PROVE  IInv'
  <2>1. \A s \in SurfaceKeys : WriteOK(Insert("surface", s, NewSurface(Number, NoRow)), sent)
    BY <1>3
  <2>2. QED
    BY <1>5, <2>1, RequestI DEF import_surface
<1>6. ASSUME NEW s \in SurfaceKeys, promote(r, s)
      PROVE  IInv'
  <2>1. PICK row : row = Promoted(s, findings[SurfaceKey(s)])
    OBVIOUS
  <2>2. SurfaceKey(s) \in FindingKeys
    BY DEF FindingKeys
  <2>3. surface[s] # NoRow /\ surface[s] \in Surface
    BY <1>2, <1>6 DEF promote
  <2>4. row \in Surface
    BY <2>1, <2>3, PromotedRow
  <2>5. WriteOK(Update("surface", s, surface[s], row), sent)
    BY <1>4, <2>3, <2>4
  <2>6. PICK f : f = NewFinding(SurfaceKey(s), Number, NoRow, NoRow, 2, s)
    OBVIOUS
  <2>7. Typed("findings", f)
    <3>1. NoRow \in Ids \cup {NoRow} /\ 2 \in 0..10 /\ s \in SurfaceKeys \cup {NoRow}
      OBVIOUS
    <3>2. AddedRow(f, Number, NoRow)
      BY <1>1, <2>2, <2>6, <3>1, NewFindingRow
    <3>3. QED
      BY <3>2 DEF AddedRow
  <2>8. WriteOK(Insert("findings", SurfaceKey(s), f), sent)
    BY <1>1, <2>2, <2>7, InsertWrite
  <2>9. PICK ws :
           /\ Request(r, "surface_promote", s, ws)
           /\ \A w \in ws : \/ w = Update("surface", s, surface[s], row)
                            \/ w = Insert("findings", SurfaceKey(s), f)
    BY <1>6, <2>1, <2>6 DEF promote
  <2>10. QED
    BY <2>5, <2>8, <2>9, RequestI
<1>7. ASSUME NEW s \in SurfaceKeys, triage_surface(r, s, "ignored")
      PROVE  IInv'
  <2>1. PICK row : row = [surface[s] EXCEPT !.status = "ignored"]
    OBVIOUS
  <2>2. surface[s] # NoRow /\ row \in Surface
    BY <1>2, <1>7, <2>1 DEF triage_surface, Surface
  <2>3. QED
    BY <1>4, <1>7, <2>1, <2>2, RequestI DEF triage_surface
<1>8. ASSUME NEW some \in SUBSET SurfaceKeys, NEW found \in [some -> Lookups],
             discover(r, found)
      PROVE  IInv'
  <2>1. ASSUME NEW s \in some
        PROVE  WriteOK(upsert(s, found[s]), sent)
    <3>1. s \in SurfaceKeys /\ found[s] \in Lookups
      OBVIOUS
    <3>2. CASE surface[s] = NoRow
      BY <1>3, <3>1, <3>2 DEF upsert
    <3>3. CASE surface[s] # NoRow
      <4>1. PICK row : row = [surface[s] EXCEPT !.detail.found = found[s]]
        OBVIOUS
      <4>2. row \in Surface
        BY <1>2, <3>1, <3>3, <4>1, LookedUpRow
      <4>3. QED
        BY <1>4, <3>1, <3>3, <4>1, <4>2 DEF upsert
    <3>4. QED
      BY <3>2, <3>3
  <2>2. QED
    BY <1>8, <2>1, RequestI DEF discover
<1>9. QED
  BY <1>5, <1>6, <1>7, <1>8 DEF SurfaceRequest

-----------------------------------------------------------------------------
LEMMA InitI == Init => IInv
<1> SUFFICES ASSUME Init
             PROVE  IInv
  OBVIOUS
<1>1. /\ db = Tables /\ slot = [r \in Slots |-> Idle] /\ served = 0 /\ sent = {}
  BY DEF Init, Start
<1>2. /\ DOMAIN db = TableNames
      /\ \A t \in TableNames : db[t] = [k \in Keys[t] |-> NoRow]
  BY <1>1 DEF Tables, TableNames, Keys
<1>3. TablesOK
  BY <1>2 DEF TablesOK
<1>4. identities = [e \in Emails |-> NoRow]
  BY <1>1 DEF Tables, identities
<1>5. QED
  BY <1>1, <1>3, <1>4, IdleOK, MaxRequestsNat DEF IInv, VipHitAlerted

LEMMA NextI == IInv /\ [Next]_vars => IInv'
<1> SUFFICES ASSUME IInv, [Next]_vars
             PROVE  IInv'
  OBVIOUS
<1>1. ASSUME NEW r \in Slots, Refuse(r)
      PROVE  IInv'
  BY <1>1, EndsI DEF Refuse, CommitRaises, IInv
<1>2. ASSUME NEW e \in Emails, resend_vip_alert(e)
      PROVE  IInv'
  <2>1. identities[e].vip \in Ids
    <3>1. identities[e] # NoRow /\ identities[e].vip # NoRow
      BY <1>2 DEF resend_vip_alert
    <3>2. identities[e] \in Identity
      BY <3>1, IInvTypeOK DEF TypeOK
    <3>3. QED
      BY <3>1, <3>2 DEF Identity
  <2>2. /\ sent' = sent \cup {<<e, identities[e].vip>>}
        /\ UNCHANGED <<db, slot, served>>
    BY <1>2 DEF resend_vip_alert
  <2>3. sent' \subseteq Emails \X Ids /\ sent \subseteq sent'
    BY <2>1, <2>2 DEF IInv
  <2>4. \A r \in Slots : SlotOK(slot'[r], sent')
    BY <2>2, <2>3, MoreAlerts DEF IInv
  <2>5. TablesOK' /\ VipHitAlerted'
    BY <2>2 DEF IInv, TablesOK, VipHitAlerted, identities
  <2>6. QED
    BY <2>2, <2>3, <2>4, <2>5 DEF IInv
<1>3. CASE Die
  BY <1>3, EndsI DEF Die, Crash
<1>4. CASE UNCHANGED vars
  BY <1>4, EndsI DEF vars, IInv
<1>5. QED
  BY <1>1, <1>2, <1>3, <1>4, FlushI, AssetI, FindingI, SurfaceI DEF Next

LEMMA Invariant == Spec => []IInv
  BY InitI, NextI, PTL DEF Spec

\* Every row, whatever flush wrote it last, has the columns of its table with
\* values the code allows, and a request is at its commit or answered.
THEOREM TypeCorrect == Spec => []TypeOK
<1>1. IInv => TypeOK
  BY IInvTypeOK
<1>2. QED
  BY <1>1, Invariant, PTL

\* Nobody's dossier is linked to a monitored asset without the alert: it is
\* sent before the commit that writes the link (update_identity).
THEOREM AlertBeforeLink == Spec => []VipHitAlerted
<1>1. IInv => VipHitAlerted
  BY DEF IInv
<1>2. QED
  BY <1>1, Invariant, PTL

-----------------------------------------------------------------------------
(***************************************************************************)
(* The accounts of a batch.  BatchAccounts is not inductive: an import and *)
(* a rollback decide on the findings before other transactions commit.     *)
(* JInv says what a pending import will add, that a pending rollback names *)
(* every finding its batch has, and why the id of a row tells it from one  *)
(* that took its place: the number of a request is in no row before its    *)
(* commit.                                                                 *)
(***************************************************************************)

\* No request that may still commit has the number i.
Past(i) == i <= served /\ \A r \in Slots : Busy(r) => slot[r].n # i

\* The write v rolls the batch b back; w takes the finding k away.
Rolls(v, b) ==
    /\ v.at = <<"batches", b>> /\ v.how = "update"
    /\ DOMAIN v.set = {"status"} /\ v.set["status"] = "rolled_back"
Takes(w, k) == w.at = <<"findings", k>> /\ w.how = "delete"
Adds(w, k)  == w.at = <<"findings", k>> /\ w.how = "insert"
Opens(v, b) == v.at = <<"batches", b>> /\ v.how = "insert"

\* The findings that the writes ws add for the batch b.
AddedBy(ws, b) ==
    {k \in FindingKeys : \E w \in ws : Adds(w, k) /\ w.set.ingest = b}

Sums(batch) == batch.total = batch.created + batch.deduped + batch.errors

\* What is added is n's, and of the batch that the same flush opens.
AddedOK(w, n, ws) ==
    /\ w.set.id = n
    /\ w.set.ingest # NoRow => w.set.ingest = n /\ \E v \in ws : Opens(v, n)

\* What is taken away is of the batch that the same flush rolls back, unless
\* the row has become another one.
TakenOK(w, k, ws) ==
    /\ w.id \in Ids /\ Past(w.id)
    /\ \E b \in Ids :
         /\ \E v \in ws : Rolls(v, b)
         /\ findings[k] # NoRow /\ findings[k].id = w.id => findings[k].ingest = b

FindingWrites(ws, n) ==
    \A w \in ws : \A k \in FindingKeys :
      /\ Adds(w, k) => AddedOK(w, n, ws)
      /\ Takes(w, k) => TakenOK(w, k, ws)
      /\ w.at = <<"findings", k>> /\ w.how = "update" =>
           {"id", "ingest"} \cap DOMAIN w.set = {}

\* A batch is opened with the number of findings that come with it, unless the
\* database is going to refuse the flush.
OpenedOK(batch, n, ws) ==
    /\ batch.status = "completed" /\ Sums(batch)
    /\ \/ \E v \in ws : v.how = "insert_twice"
       \/ /\ IsFiniteSet(AddedBy(ws, n))
          /\ Cardinality(AddedBy(ws, n)) = batch.created

\* A batch is rolled back with every finding it has.
RolledOK(b, ws) ==
    /\ batches[b] # NoRow
    /\ \A k \in FindingsOf(b) :
         \E v \in ws : Takes(v, k) /\ v.id = findings[k].id

BatchWrites(ws, n) ==
    \A w \in ws : \A b \in Ids : w.at = <<"batches", b>> =>
      /\ w.how \in {"insert", "update"}
      /\ w.how = "insert" => b = n /\ OpenedOK(w.set, n, ws)
      /\ w.how = "update" /\ DOMAIN w.set # {} => Rolls(w, b) /\ RolledOK(b, ws)

OncePerRow(ws) ==
    \A v, w \in ws : v.at = w.at /\ "insert_twice" \notin {v.how, w.how} => v = w

AccountOK(ws, n) ==
    FindingWrites(ws, n) /\ BatchWrites(ws, n) /\ OncePerRow(ws)

JInv ==
    /\ \A r \in Slots : Busy(r) =>
         /\ slot[r].n <= served
         /\ \A q \in Slots \ {r} : Busy(q) => slot[q].n # slot[r].n
         /\ AccountOK(slot[r].writes, slot[r].n)
    /\ \A k \in FindingKeys : findings[k] # NoRow =>
         /\ Past(findings[k].id)
         /\ findings[k].ingest # NoRow => batches[findings[k].ingest] # NoRow
    /\ \A b \in Ids : batches[b] # NoRow => IsFiniteSet(FindingsOf(b))
    /\ BatchAccounts

LEMMA WrittenOnce ==
    ASSUME NEW ws, Allowed(ws), OncePerRow(ws), NEW t, NEW k, NEW w \in ws,
           w.at = <<t, k>>
    PROVE  Row(t, k, ws) = Written(t, k, w)
<1>1. PICK v : v = CHOOSE u \in ws : u.at = <<t, k>>
  OBVIOUS
<1>2. v \in ws /\ v.at = <<t, k>>
  BY <1>1
<1>3. v.how # "insert_twice" /\ w.how # "insert_twice"
  <2>1. /\ v.how \in {"insert", "update", "delete"}
        /\ w.how \in {"insert", "update", "delete"}
    BY <1>2, Found
  <2>2. QED
    BY <2>1
<1>4. v = w
  BY <1>2, <1>3 DEF OncePerRow
<1>5. QED
  BY <1>1, <1>4 DEF Row

\* b after the writes ws: old is its row before.
BatchMoves(row, old, b, ws) ==
    /\ old # NoRow =>
         /\ row # NoRow /\ row.total = old.total /\ row.created = old.created
         /\ row.deduped = old.deduped /\ row.errors = old.errors
         /\ row.status = IF \E w \in ws : Rolls(w, b) THEN "rolled_back" ELSE old.status
    /\ old = NoRow /\ row # NoRow => \E w \in ws : Opens(w, b) /\ row = w.set
    /\ \A w \in ws : Opens(w, b) => old = NoRow

LEMMA BatchRow ==
    ASSUME IInv, NEW ws, NEW n, Allowed(ws), AccountOK(ws, n), NEW b \in Ids
    PROVE  BatchMoves(Row("batches", b, ws), batches[b], b, ws)
<1>1. PICK row, old : row = Row("batches", b, ws) /\ old = batches[b]
  OBVIOUS
<1>2. /\ "batches" \in TableNames /\ b \in Keys["batches"] /\ TablesOK
      /\ db["batches"][b] = old
  BY <1>1 DEF TableNames, Keys, IInv, batches
<1>3. old # NoRow => old \in Batch
  BY <1>2, TypedRow DEF TablesOK
<1>4. \A w \in ws : Opens(w, b) => old = NoRow /\ Typed("batches", w.set)
  BY <1>2, Found DEF Opens
<1>5. Outcome(row, old, ws, <<"batches", b>>)
  BY <1>1, <1>2, RowCases
<1>6. CASE old = NoRow
  <2>1. CASE row = NoRow
    BY <1>1, <1>4, <1>6, <2>1 DEF BatchMoves
  <2>2. CASE \E w \in ws : Opens(w, b) /\ row = w.set
    BY <1>1, <1>4, <1>6, <2>2 DEF BatchMoves
  <2>3. CASE \E w \in ws : /\ w.at = <<"batches", b>>
                           /\ w.how \notin {"insert", "delete"} /\ DOMAIN w.set # {}
    <3>1. PICK w \in ws : /\ w.at = <<"batches", b>>
                          /\ w.how \notin {"insert", "delete"} /\ DOMAIN w.set # {}
      BY <2>3
    <3>2. /\ w.how \in {"insert", "update", "delete"}
          /\ w.how = "update" /\ DOMAIN w.set # {} => db["batches"][b] # NoRow
      BY <3>1, Found
    <3>3. QED
      BY <1>2, <1>6, <3>1, <3>2
  <2>4. QED
    BY <1>5, <1>6, <2>1, <2>2, <2>3 DEF Outcome, Opens
<1>7. CASE old # NoRow
  <2>1. \A w \in ws : w.at = <<"batches", b>> =>
          w.how = "update" /\ (DOMAIN w.set # {} => Rolls(w, b))
    BY <1>4, <1>7 DEF AccountOK, BatchWrites, Opens
  <2>2. CASE \E w \in ws : Rolls(w, b)
    <3>1. PICK w \in ws : Rolls(w, b)
      BY <2>2
    <3>2. row = Written("batches", b, w)
      BY <1>1, <3>1, WrittenOnce DEF Rolls, AccountOK
    <3>3. row = [c \in DOMAIN old |-> IF c \in DOMAIN w.set THEN w.set[c] ELSE old[c]]
      BY <1>2, <3>1, <3>2 DEF Written, Rolls
    <3>4. /\ row.total = old.total /\ row.created = old.created
          /\ row.deduped = old.deduped /\ row.errors = old.errors
          /\ row.status = "rolled_back" /\ row \in Batch
      BY <1>3, <1>7, <3>1, <3>3 DEF Rolls, Batch
    <3>5. row # NoRow
      BY <3>4, NullAssumption
    <3>6. QED
      BY <1>1, <1>4, <1>7, <2>2, <3>4, <3>5 DEF BatchMoves
  <2>3. CASE ~\E w \in ws : Rolls(w, b)
    <3>1. row = old
      BY <1>5, <2>1, <2>3 DEF Outcome
    <3>2. QED
      BY <1>1, <1>4, <1>7, <2>3, <3>1 DEF BatchMoves
  <2>4. QED
    BY <2>2, <2>3
<1>8. QED
  BY <1>6, <1>7

LEMMA BatchStays ==
    ASSUME TablesOK, NEW ws, Allowed(ws), NEW b \in Ids, db' = Flushed(ws, References)
    PROVE  batches'[b] = Row("batches", b, ws)
<1>1. "batches" \in TableNames /\ b \in Keys["batches"]
  BY DEF TableNames, Keys
<1>2. PICK row : row = Row("batches", b, ws)
  OBVIOUS
<1>3. PICK lost : lost \subseteq Nullable("batches") /\ Left(batches'[b], row, lost)
  BY <1>1, <1>2, LeftRow DEF batches
<1>4. row # NoRow => row \in Batch
  BY <1>1, <1>2, RowTyped, TypedRow
<1>5. lost = {}
  BY <1>3 DEF Nullable
<1>6. QED
  BY <1>2, <1>3, <1>4, <1>5 DEF Left, Nulled, Batch

LEMMA BatchAfter ==
    ASSUME IInv, NEW ws, NEW n, Allowed(ws), AccountOK(ws, n), NEW b \in Ids,
           db' = Flushed(ws, References)
    PROVE  BatchMoves(batches'[b], batches[b], b, ws)
<1>1. batches'[b] = Row("batches", b, ws)
  BY BatchStays DEF IInv
<1>2. QED
  BY <1>1, BatchRow

\* The finding k after the writes ws: old is its row before.
FindingMoves(row, old, k, ws) ==
    /\ old # NoRow /\ row # NoRow => row.id = old.id /\ row.ingest = old.ingest
    /\ old # NoRow /\ row = NoRow => \E w \in ws : Takes(w, k) /\ old.id = w.id
    /\ old = NoRow /\ row # NoRow => \E w \in ws : Adds(w, k)
    /\ \A w \in ws : Takes(w, k) /\ old # NoRow /\ old.id = w.id => row = NoRow
    /\ \A w \in ws : Adds(w, k) =>
         /\ old = NoRow /\ row # NoRow
         /\ row.id = w.set.id /\ row.ingest = w.set.ingest

LEMMA FindingRow ==
    ASSUME IInv, NEW ws, NEW n, Allowed(ws), AccountOK(ws, n), NEW k \in FindingKeys
    PROVE  FindingMoves(Row("findings", k, ws), findings[k], k, ws)
<1>1. PICK row, old : row = Row("findings", k, ws) /\ old = findings[k]
  OBVIOUS
<1>2. /\ "findings" \in TableNames /\ k \in Keys["findings"] /\ TablesOK
      /\ db["findings"][k] = old
  BY <1>1 DEF TableNames, Keys, IInv, findings
<1>3. old # NoRow => old \in Finding
  BY <1>2, TypedRow DEF TablesOK
<1>4. ASSUME NEW w \in ws, Adds(w, k)
      PROVE  old = NoRow /\ row = w.set /\ row # NoRow
  <2>1. old = NoRow /\ Typed("findings", w.set)
    BY <1>2, <1>4, Found DEF Adds
  <2>2. row = Written("findings", k, w)
    BY <1>1, <1>4, WrittenOnce DEF Adds, AccountOK
  <2>3. row = w.set
    BY <1>4, <2>2 DEF Written, Adds
  <2>4. QED
    BY <1>2, <2>1, <2>3, RowNotNull
<1>5. ASSUME NEW w \in ws, Takes(w, k), old # NoRow, old.id = w.id
      PROVE  row = NoRow
  <2>1. row = Written("findings", k, w)
    BY <1>1, <1>5, WrittenOnce DEF Takes, AccountOK
  <2>2. w.at[1] = "findings" /\ w.at[2] = k
    BY <1>5 DEF Takes
  <2>3. ~Stale(w)
    BY <1>2, <1>5, <2>2 DEF Stale, Gone
  <2>4. QED
    BY <1>5, <2>1, <2>3 DEF Written, Takes
<1>6. Outcome(row, old, ws, <<"findings", k>>)
  BY <1>1, <1>2, RowCases
<1>7. CASE row = old
  BY <1>1, <1>4, <1>5, <1>7 DEF FindingMoves
<1>8. CASE \E w \in ws : w.at = <<"findings", k>> /\ w.how = "insert"
  <2>1. PICK w \in ws : Adds(w, k)
    BY <1>8 DEF Adds
  <2>2. old = NoRow /\ row # NoRow
    BY <1>4, <2>1
  <2>3. QED
    BY <1>1, <1>4, <2>1, <2>2 DEF FindingMoves
<1>9. CASE \E w \in ws : /\ w.at = <<"findings", k>> /\ w.how = "delete"
                         /\ ~Stale(w) /\ row = NoRow
  <2>1. PICK w \in ws : Takes(w, k) /\ ~Stale(w) /\ row = NoRow
    BY <1>9 DEF Takes
  <2>2. w.at[1] = "findings" /\ w.at[2] = k
    BY <2>1 DEF Takes
  <2>3. old # NoRow => old.id = w.id
    BY <1>2, <2>1, <2>2 DEF Stale, Gone
  <2>4. QED
    BY <1>1, <1>4, <2>1, <2>3 DEF FindingMoves
<1>10. CASE \E w \in ws : /\ w.at = <<"findings", k>>
                          /\ w.how \notin {"insert", "delete"}
                          /\ DOMAIN w.set # {} /\ row = Merged(old, w.set)
  <2>1. PICK w \in ws : /\ w.at = <<"findings", k>>
                        /\ w.how \notin {"insert", "delete"}
                        /\ DOMAIN w.set # {} /\ row = Merged(old, w.set)
    BY <1>10
  <2>2. /\ w.how \in {"insert", "update", "delete"}
        /\ w.how = "update" /\ DOMAIN w.set # {} => old # NoRow
    BY <1>2, <2>1, Found
  <2>3. old \in Finding /\ {"id", "ingest"} \cap DOMAIN w.set = {}
    BY <1>3, <2>1, <2>2 DEF AccountOK, FindingWrites
  <2>4. row.id = old.id /\ row.ingest = old.ingest
    BY <2>1, <2>3 DEF Merged, Finding
  <2>5. row # NoRow
    <3>1. \A c \in DOMAIN w.set :
            c \in DOMAIN Columns["findings"] /\ w.set[c] \in Columns["findings"][c]
      BY <2>1, <2>2, Found
    <3>2. Typed("findings", old)
      BY <2>3, TypedRow
    <3>3. Typed("findings", row)
      BY <2>1, <3>1, <3>2, MergedTyped
    <3>4. QED
      BY <1>2, <3>3, RowNotNull
  <2>6. QED
    BY <1>1, <1>4, <1>5, <2>2, <2>3, <2>4, <2>5, NullAssumption DEF FindingMoves
<1>11. QED
  BY <1>6, <1>7, <1>8, <1>9, <1>10 DEF Outcome

\* No flush takes a finding out of its batch: batches are never deleted.
LEMMA FindingAfter ==
    ASSUME IInv, JInv, NEW ws, NEW n \in Ids, Allowed(ws), AccountOK(ws, n),
           NEW k \in FindingKeys, db' = Flushed(ws, References)
    PROVE  /\ FindingMoves(findings'[k], findings[k], k, ws)
           /\ findings'[k] # NoRow /\ findings'[k].ingest # NoRow =>
                batches'[findings'[k].ingest] # NoRow
<1>1. PICK row : row = Row("findings", k, ws)
  OBVIOUS
<1>2. "findings" \in TableNames /\ k \in Keys["findings"] /\ TablesOK
  BY DEF TableNames, Keys, IInv
<1>3. FindingMoves(row, findings[k], k, ws)
  BY <1>1, FindingRow
<1>4. row # NoRow => row \in Finding
  BY <1>1, <1>2, RowTyped, TypedRow
<1>5. ASSUME row # NoRow, row.ingest # NoRow
      PROVE  row.ingest \in Ids /\ Row("batches", row.ingest, ws) # NoRow
  <2>1. PICK b \in Ids : b = row.ingest
    BY <1>4, <1>5 DEF Finding
  <2>2. BatchMoves(Row("batches", b, ws), batches[b], b, ws)
    BY BatchRow
  <2>3. CASE findings[k] # NoRow
    <3>1. batches[b] # NoRow
      BY <1>3, <1>5, <2>1, <2>3 DEF FindingMoves, JInv
    <3>2. QED
      BY <2>1, <2>2, <3>1 DEF BatchMoves
  <2>4. CASE findings[k] = NoRow
    <3>1. PICK w \in ws : Adds(w, k) /\ w.set.ingest = b
      BY <1>3, <1>5, <2>1, <2>4 DEF FindingMoves
    <3>2. b = n /\ \E v \in ws : Opens(v, n)
      BY <1>5, <2>1, <3>1 DEF AccountOK, FindingWrites, AddedOK
    <3>3. PICK v \in ws : Opens(v, b)
      BY <3>2
    <3>4. Row("batches", b, ws) = Written("batches", b, v)
      BY <3>3, WrittenOnce DEF Opens, AccountOK
    <3>5. "batches" \in TableNames /\ Typed("batches", v.set)
      BY <3>3, Found DEF Opens, TableNames
    <3>6. Row("batches", b, ws) = v.set
      BY <3>3, <3>4 DEF Written, Opens
    <3>7. QED
      BY <2>1, <3>5, <3>6, RowNotNull
  <2>5. QED
    BY <2>3, <2>4
<1>6. PICK lost : /\ lost \subseteq {"asset", "ingest"}
                  /\ "ingest" \in lost =>
                       Dangles(Kept(ws, References), "findings", k, "ingest", "batches")
                  /\ Left(findings'[k], row, lost)
  BY <1>1, <1>2, LeftRow DEF Nullable, findings
<1>7. Kept(ws, References)["findings"][k] = row
  BY <1>1, <1>2, LeftRow
<1>8. row # NoRow => "ingest" \notin lost
  <2>1. SUFFICES ASSUME row # NoRow, "ingest" \in lost
                 PROVE  FALSE
    OBVIOUS
  <2>2. /\ row.ingest # NoRow
        /\ Kept(ws, References)["batches"][row.ingest] = NoRow
    BY <1>6, <1>7, <2>1 DEF Dangles
  <2>3. /\ row.ingest \in Keys["batches"] /\ "batches" \in TableNames
        /\ Row("batches", row.ingest, ws) # NoRow
    BY <1>5, <2>1, <2>2 DEF Keys, TableNames
  <2>4. Kept(ws, References)["batches"][row.ingest] = Row("batches", row.ingest, ws)
    BY <1>2, <2>3, LeftRow
  <2>5. QED
    BY <2>2, <2>3, <2>4
<1>9. /\ row = NoRow => findings'[k] = NoRow
      /\ row # NoRow => /\ findings'[k] = Nulled(row, lost) /\ findings'[k] # NoRow
                        /\ findings'[k].id = row.id
                        /\ findings'[k].ingest = row.ingest
  <2>1. CASE row = NoRow
    BY <1>6, <2>1 DEF Left
  <2>2. CASE row # NoRow
    <3>1. findings'[k] = Nulled(row, lost)
      BY <1>6, <2>2 DEF Left
    <3>2. Typed("findings", findings'[k])
      BY <1>2, <1>4, <1>6, <2>2, <3>1, TypedRow, NulledTyped DEF Nullable
    <3>3. findings'[k] # NoRow
      BY <1>2, <3>2, RowNotNull
    <3>4. findings'[k].id = row.id /\ findings'[k].ingest = row.ingest
      BY <1>4, <1>6, <1>8, <2>2, <3>1 DEF Nulled, Finding
    <3>5. QED
      BY <2>2, <3>1, <3>3, <3>4
  <2>3. QED
    BY <2>1, <2>2
<1>10. ASSUME findings'[k] # NoRow, findings'[k].ingest # NoRow
       PROVE  batches'[findings'[k].ingest] # NoRow
  <2>1. PICK b \in Ids : b = findings'[k].ingest /\ Row("batches", b, ws) # NoRow
    BY <1>5, <1>9, <1>10
  <2>2. QED
    BY <1>2, <2>1, BatchStays
<1>11. FindingMoves(findings'[k], findings[k], k, ws)
  BY <1>3, <1>9, Zenon DEF FindingMoves
<1>12. QED
  BY <1>10, <1>11

\* The findings of a batch after a flush: a batch that was there gains none
\* and loses all or none, a new one has what the flush adds.
LEMMA FindingsOfAfter ==
    ASSUME IInv, JInv, NEW ws, NEW n \in Ids, Allowed(ws), AccountOK(ws, n),
           NEW b \in Ids, db' = Flushed(ws, References)
    PROVE  /\ batches[b] # NoRow =>
                /\ \A k \in FindingsOf(b)' :
                     k \in FindingsOf(b) /\ findings'[k].id = findings[k].id
                /\ (\E w \in ws : Rolls(w, b)) => FindingsOf(b)' = {}
                /\ ~(\E w \in ws : Rolls(w, b)) => FindingsOf(b)' = FindingsOf(b)
           /\ batches[b] = NoRow /\ (\E w \in ws : Opens(w, b)) =>
                FindingsOf(b)' = AddedBy(ws, b)
<1>1. \A k \in FindingKeys : FindingMoves(findings'[k], findings[k], k, ws)
  BY FindingAfter
<1>2. /\ \A k \in FindingKeys :
           k \in FindingsOf(b)' <=> findings'[k] # NoRow /\ findings'[k].ingest = b
      /\ \A k \in FindingKeys :
           k \in FindingsOf(b) <=> findings[k] # NoRow /\ findings[k].ingest = b
      /\ FindingsOf(b) \subseteq FindingKeys /\ FindingsOf(b)' \subseteq FindingKeys
  BY DEF FindingsOf
<1>3. ASSUME NEW k \in FindingKeys, NEW w \in ws, Adds(w, k), w.set.ingest = b
      PROVE  b = n /\ \E v \in ws : Opens(v, b)
  BY <1>3, NullAssumption DEF AccountOK, FindingWrites, AddedOK
<1>4. \A v \in ws : Opens(v, b) => batches[b] = NoRow
  BY Found DEF Opens, batches
<1>5. ASSUME batches[b] # NoRow
      PROVE  /\ \A k \in FindingsOf(b)' :
                  k \in FindingsOf(b) /\ findings'[k].id = findings[k].id
             /\ (\E w \in ws : Rolls(w, b)) => FindingsOf(b)' = {}
             /\ ~(\E w \in ws : Rolls(w, b)) => FindingsOf(b)' = FindingsOf(b)
  <2>1. ASSUME NEW k \in FindingsOf(b)'
        PROVE  k \in FindingsOf(b) /\ findings'[k].id = findings[k].id
    <3>1. CASE findings[k] # NoRow
      BY <1>1, <1>2, <3>1 DEF FindingMoves
    <3>2. CASE findings[k] = NoRow
      <4>1. PICK w \in ws : Adds(w, k) /\ w.set.ingest = b
        BY <1>1, <1>2, <3>2 DEF FindingMoves
      <4>2. QED
        BY <1>2, <1>3, <1>4, <1>5, <4>1
    <3>3. QED
      BY <3>1, <3>2
  <2>2. ASSUME NEW w \in ws, Rolls(w, b), NEW k \in FindingsOf(b)'
        PROVE  FALSE
    <3>1. PICK v \in ws : Takes(v, k) /\ v.id = findings[k].id
      BY <2>1, <2>2 DEF AccountOK, BatchWrites, Rolls, RolledOK
    <3>2. findings[k] # NoRow /\ findings'[k] # NoRow /\ k \in FindingKeys
      BY <1>2, <2>1, <2>2
    <3>3. QED
      BY <1>1, <3>1, <3>2 DEF FindingMoves
  <2>3. ASSUME ~(\E w \in ws : Rolls(w, b)), NEW k \in FindingsOf(b)
        PROVE  k \in FindingsOf(b)'
    <3>1. findings[k] # NoRow /\ findings[k].ingest = b /\ k \in FindingKeys
      BY <1>2, <2>3
    <3>2. CASE findings'[k] = NoRow
      <4>1. PICK w \in ws : Takes(w, k) /\ findings[k].id = w.id
        BY <1>1, <3>1, <3>2 DEF FindingMoves
      <4>2. PICK c \in Ids : /\ \E v \in ws : Rolls(v, c)
                             /\ findings[k].ingest = c
        BY <3>1, <4>1 DEF AccountOK, FindingWrites, TakenOK
      <4>3. QED
        BY <2>3, <3>1, <4>2
    <3>3. CASE findings'[k] # NoRow
      BY <1>1, <1>2, <3>1, <3>3 DEF FindingMoves
    <3>4. QED
      BY <3>2, <3>3
  <2>4. QED
    BY <1>2, <2>1, <2>2, <2>3
<1>6. ASSUME batches[b] = NoRow, NEW v \in ws, Opens(v, b)
      PROVE  FindingsOf(b)' = AddedBy(ws, b)
  <2>1. \A k \in FindingKeys : findings[k] # NoRow => findings[k].ingest # b
    BY <1>6, NullAssumption DEF JInv
  <2>2. ASSUME NEW k \in FindingsOf(b)'
        PROVE  k \in AddedBy(ws, b)
    <3>1. findings'[k] # NoRow /\ findings'[k].ingest = b /\ k \in FindingKeys
      BY <1>2, <2>2
    <3>2. findings[k] = NoRow
      BY <1>1, <2>1, <3>1 DEF FindingMoves
    <3>3. PICK w \in ws : Adds(w, k) /\ w.set.ingest = b
      BY <1>1, <3>1, <3>2 DEF FindingMoves
    <3>4. QED
      BY <3>1, <3>3 DEF AddedBy
  <2>3. ASSUME NEW k \in AddedBy(ws, b)
        PROVE  k \in FindingsOf(b)'
    <3>1. PICK w \in ws : Adds(w, k) /\ w.set.ingest = b
      BY <2>3 DEF AddedBy
    <3>2. k \in FindingKeys
      BY <2>3 DEF AddedBy
    <3>3. QED
      BY <1>1, <1>2, <3>1, <3>2 DEF FindingMoves
  <2>4. FindingsOf(b)' \subseteq FindingKeys /\ AddedBy(ws, b) \subseteq FindingKeys
    BY <1>2 DEF AddedBy
  <2>5. QED
    BY <2>2, <2>3, <2>4
<1>7. QED
  BY <1>5, <1>6

\* A flush keeps the accounts of every batch.
LEMMA AccountsStay ==
    ASSUME IInv, JInv, NEW ws, NEW n \in Ids, Allowed(ws), AccountOK(ws, n),
           db' = Flushed(ws, References)
    PROVE  /\ BatchAccounts'
           /\ \A b \in Ids : batches'[b] # NoRow => IsFiniteSet(FindingsOf(b)')
<1>1. SUFFICES ASSUME NEW b \in Ids, batches'[b] # NoRow
               PROVE  /\ Sums(batches'[b])
                      /\ IsFiniteSet(FindingsOf(b)')
                      /\ Cardinality(FindingsOf(b)') =
                           IF batches'[b].status = "completed"
                           THEN batches'[b].created ELSE 0
  BY DEF BatchAccounts, Sums
<1>2. BatchMoves(batches'[b], batches[b], b, ws)
  BY BatchAfter
<1>3. CASE batches[b] # NoRow
  <2>1. /\ Sums(batches[b]) /\ IsFiniteSet(FindingsOf(b))
        /\ Cardinality(FindingsOf(b)) =
             IF batches[b].status = "completed" THEN batches[b].created ELSE 0
    BY <1>3 DEF JInv, BatchAccounts, Sums
  <2>2. Sums(batches'[b]) /\ batches'[b].created = batches[b].created
    BY <1>2, <1>3, <2>1 DEF BatchMoves, Sums
  <2>3. CASE \E w \in ws : Rolls(w, b)
    <3>1. FindingsOf(b)' = {} /\ batches'[b].status = "rolled_back"
      BY <1>2, <1>3, <2>3, FindingsOfAfter DEF BatchMoves
    <3>2. QED
      BY <2>2, <3>1, FS_EmptySet
  <2>4. CASE ~\E w \in ws : Rolls(w, b)
    <3>1. FindingsOf(b)' = FindingsOf(b) /\ batches'[b].status = batches[b].status
      BY <1>2, <1>3, <2>4, FindingsOfAfter DEF BatchMoves
    <3>2. QED
      BY <2>1, <2>2, <3>1
  <2>5. QED
    BY <2>3, <2>4
<1>4. CASE batches[b] = NoRow
  <2>1. PICK w \in ws : Opens(w, b) /\ batches'[b] = w.set
    BY <1>1, <1>2, <1>4 DEF BatchMoves
  <2>2. FindingsOf(b)' = AddedBy(ws, b)
    BY <1>4, <2>1, FindingsOfAfter
  <2>3. ~\E v \in ws : v.how = "insert_twice"
    BY DEF Allowed, Raises
  <2>4. /\ b = n /\ w.set.status = "completed" /\ Sums(w.set)
        /\ IsFiniteSet(AddedBy(ws, n))
        /\ Cardinality(AddedBy(ws, n)) = w.set.created
    BY <2>1, <2>3 DEF AccountOK, BatchWrites, Opens, OpenedOK
  <2>5. QED
    BY <2>1, <2>2, <2>4
<1>5. QED
  BY <1>3, <1>4

\* A flush of the request n leaves the pending writes vs of another one what
\* they are: what it adds has its own number, which no pending delete names.
LEMMA OthersAccount ==
    ASSUME IInv, JInv, NEW ws, NEW n \in Ids, Allowed(ws), AccountOK(ws, n),
           db' = Flushed(ws, References),
           \A i \in Ids : Past(i) => Past(i)' /\ i # n,
           NEW vs, NEW m, AccountOK(vs, m)
    PROVE  AccountOK(vs, m)'
<1>1. \A k \in FindingKeys : FindingMoves(findings'[k], findings[k], k, ws)
  BY FindingAfter
<1>2. ASSUME NEW w \in vs, NEW k \in FindingKeys, TakenOK(w, k, vs)
      PROVE  TakenOK(w, k, vs)'
  <2>1. w.id \in Ids /\ Past(w.id)
    BY <1>2 DEF TakenOK
  <2>2. PICK b \in Ids :
          /\ \E v \in vs : Rolls(v, b)
          /\ findings[k] # NoRow /\ findings[k].id = w.id => findings[k].ingest = b
    BY <1>2 DEF TakenOK
  <2>3. ASSUME findings'[k] # NoRow, findings'[k].id = w.id
        PROVE  findings'[k].ingest = b
    <3>1. CASE findings[k] # NoRow
      BY <1>1, <2>2, <2>3, <3>1 DEF FindingMoves
    <3>2. CASE findings[k] = NoRow
      <4>1. PICK v \in ws : Adds(v, k) /\ findings'[k].id = v.set.id
        BY <1>1, <2>3, <3>2 DEF FindingMoves
      <4>2. v.set.id = n
        BY <4>1 DEF AccountOK, FindingWrites, AddedOK
      <4>3. QED
        BY <2>1, <2>3, <4>1, <4>2
    <3>3. QED
      BY <3>1, <3>2
  <2>4. QED
    BY <2>1, <2>2, <2>3 DEF TakenOK
<1>3. ASSUME NEW b \in Ids, NEW w \in vs, Rolls(w, b), RolledOK(b, vs)
      PROVE  RolledOK(b, vs)'
  <2>1. batches'[b] # NoRow
    BY <1>3, BatchAfter DEF BatchMoves, RolledOK
  <2>2. \A k \in FindingsOf(b)' :
           k \in FindingsOf(b) /\ findings'[k].id = findings[k].id
    BY <1>3, FindingsOfAfter DEF RolledOK
  <2>3. QED
    BY <1>3, <2>1, <2>2 DEF RolledOK
<1>4. FindingWrites(vs, m)'
  BY <1>2 DEF AccountOK, FindingWrites, AddedOK
<1>5. \A batch : OpenedOK(batch, m, vs)' <=> OpenedOK(batch, m, vs)
  BY DEF OpenedOK, AddedBy
<1>6. BatchWrites(vs, m)'
  BY <1>3, <1>5 DEF AccountOK, BatchWrites
<1>7. OncePerRow(vs)'
  BY DEF AccountOK, OncePerRow
<1>8. QED
  BY <1>4, <1>6, <1>7 DEF AccountOK

LEMMA SameAccount ==
    ASSUME UNCHANGED db, \A i \in Ids : Past(i) => Past(i)', NEW vs, NEW m,
           AccountOK(vs, m)
    PROVE  AccountOK(vs, m)'
<1>1. FindingWrites(vs, m)'
  BY DEF AccountOK, FindingWrites, AddedOK, TakenOK, findings
<1>2. \A b \in Ids : RolledOK(b, vs) => RolledOK(b, vs)'
  BY DEF RolledOK, FindingsOf, findings, batches
<1>3. \A batch : OpenedOK(batch, m, vs)' <=> OpenedOK(batch, m, vs)
  BY DEF OpenedOK, AddedBy
<1>4. BatchWrites(vs, m)'
  BY <1>2, <1>3 DEF AccountOK, BatchWrites
<1>5. OncePerRow(vs)'
  BY DEF AccountOK, OncePerRow
<1>6. QED
  BY <1>1, <1>4, <1>5 DEF AccountOK

LEMMA FlushJ ==
    ASSUME IInv, JInv, NEW r \in Slots, Flush(r)
    PROVE  JInv'
<1>1. PICK ws, n : ws = slot[r].writes /\ n = slot[r].n
  OBVIOUS
<1>2. SlotOK(slot[r], sent) /\ slot[r].phase = "flush" /\ Busy(r)
  BY DEF IInv, Flush, Commit, Busy
<1>3. /\ Allowed(ws) /\ db' = Flushed(ws, References) /\ served' = served
      /\ n \in Ids /\ n <= served /\ AccountOK(ws, n)
  BY <1>1, <1>2 DEF Allowed, SlotOK, Flush, Commit, JInv
<1>4. ~Busy(r)'
  BY <1>2 DEF Flush, Commit, After, SlotOK, Busy, Idle
<1>5. ASSUME NEW q \in Slots, Busy(q)'
      PROVE  /\ q # r /\ Busy(q)
             /\ slot'[q].n = slot[q].n /\ slot'[q].writes = slot[q].writes
  <2>1. q # r
    BY <1>4, <1>5
  <2>2. Busy(q)
    BY <1>5, <2>1 DEF Flush, Commit, Busy, Idle
  <2>3. PICK x, o : x = slot[q] /\ o = (x.overtaken \/ db' # db)
    OBVIOUS
  <2>4. slot'[q] = [x EXCEPT !.overtaken = o]
    BY <2>1, <2>2, <2>3 DEF Flush, Commit
  <2>5. QED
    BY <2>1, <2>2, <2>3, <2>4
<1>6. ASSUME NEW i \in Ids, Past(i)
      PROVE  Past(i)' /\ i # n
  BY <1>1, <1>2, <1>3, <1>5, <1>6 DEF Past
<1>7. Past(n)'
  BY <1>1, <1>2, <1>3, <1>5 DEF Past, JInv
<1>8. ASSUME NEW q \in Slots, Busy(q)'
      PROVE  /\ slot'[q].n <= served'
             /\ \A p \in Slots \ {q} : Busy(p)' => slot'[p].n # slot'[q].n
             /\ AccountOK(slot[q].writes, slot[q].n)'
  <2>1. Busy(q) /\ slot'[q].n = slot[q].n /\ slot'[q].writes = slot[q].writes
    BY <1>5, <1>8
  <2>2. PICK vs, m : vs = slot[q].writes /\ m = slot[q].n
    OBVIOUS
  <2>3. AccountOK(vs, m)
    BY <2>1, <2>2 DEF JInv
  <2>4. AccountOK(vs, m)'
    BY <1>3, <1>6, <2>3, OthersAccount
  <2>5. vs = slot'[q].writes /\ m = slot'[q].n
    BY <2>1, <2>2
  <2>6. AccountOK(slot[q].writes, slot[q].n)'
    BY <2>4, <2>5
  <2>7. QED
    BY <1>3, <1>5, <2>1, <2>6 DEF JInv
<1>9. ASSUME NEW k \in FindingKeys, findings'[k] # NoRow
      PROVE  /\ Past(findings[k].id)'
             /\ findings'[k].ingest # NoRow => batches'[findings'[k].ingest] # NoRow
  <2>1. /\ FindingMoves(findings'[k], findings[k], k, ws)
        /\ findings'[k].ingest # NoRow => batches'[findings'[k].ingest] # NoRow
    BY <1>3, <1>9, FindingAfter
  <2>2. CASE findings[k] # NoRow
    <3>1. findings[k].id \in Ids
      BY <2>2, IInvTypeOK DEF TypeOK, Finding
    <3>2. QED
      BY <1>6, <1>9, <2>1, <2>2, <3>1 DEF FindingMoves, JInv
  <2>3. CASE findings[k] = NoRow
    BY <1>3, <1>7, <1>9, <2>1, <2>3 DEF FindingMoves, AccountOK, FindingWrites, AddedOK
  <2>4. QED
    BY <2>1, <2>2, <2>3
<1>10. /\ BatchAccounts'
       /\ \A b \in Ids : batches'[b] # NoRow => IsFiniteSet(FindingsOf(b)')
  BY <1>3, AccountsStay
<1>11. QED
  BY <1>8, <1>9, <1>10 DEF JInv

LEMMA EndsJ ==
    ASSUME IInv, JInv, UNCHANGED <<db, served>>,
           \A q \in Slots : slot'[q] \in {slot[q], Idle}
    PROVE  JInv'
<1>1. ASSUME NEW q \in Slots, Busy(q)'
      PROVE  Busy(q) /\ slot'[q] = slot[q]
  BY <1>1 DEF Busy, Idle
<1>2. \A i \in Ids : Past(i) => Past(i)'
  BY <1>1 DEF Past
<1>3. ASSUME NEW q \in Slots, Busy(q)'
      PROVE  /\ slot'[q].n <= served'
             /\ \A p \in Slots \ {q} : Busy(p)' => slot'[p].n # slot'[q].n
             /\ AccountOK(slot[q].writes, slot[q].n)'
  <2>1. PICK vs, m : vs = slot[q].writes /\ m = slot[q].n
    OBVIOUS
  <2>2. AccountOK(vs, m)'
    BY <1>1, <1>2, <1>3, <2>1, SameAccount DEF JInv
  <2>3. vs = slot'[q].writes /\ m = slot'[q].n
    BY <1>1, <1>3, <2>1
  <2>4. AccountOK(slot[q].writes, slot[q].n)'
    BY <2>2, <2>3
  <2>5. QED
    BY <1>1, <1>3, <2>4 DEF JInv
<1>4. ASSUME NEW k \in FindingKeys, findings[k] # NoRow
      PROVE  Past(findings[k].id)'
  <2>1. findings[k].id \in Ids
    BY <1>4, IInvTypeOK DEF TypeOK, Finding
  <2>2. QED
    BY <1>2, <1>4, <2>1 DEF JInv, findings
<1>5. /\ BatchAccounts'
      /\ \A b \in Ids : batches'[b] # NoRow => IsFiniteSet(FindingsOf(b)')
  BY DEF JInv, BatchAccounts, FindingsOf, batches, findings
<1>6. QED
  BY <1>3, <1>4, <1>5 DEF JInv, findings, batches

LEMMA BeginJ ==
    ASSUME IInv, JInv, NEW r \in Slots, NEW op, NEW on, NEW ws,
           Begin(r, op, on, ws, "answer"), UNCHANGED db, AccountOK(ws, Number)
    PROVE  JInv'
<1>1. PICK x, n : /\ n = Number
                  /\ x = [phase |-> "flush", op |-> op, on |-> on, n |-> n,
                          writes |-> ws, then |-> "answer", overtaken |-> FALSE]
  OBVIOUS
<1>2. /\ slot' = [slot EXCEPT ![r] = x] /\ served' = n /\ n = served + 1
      /\ served \in Nat /\ ~Busy(r)
  BY <1>1 DEF Begin, BeginAt, Number, Free, IInv
<1>3. x.n = n /\ x.writes = ws
  BY <1>1
<1>4. ASSUME NEW q \in Slots, q # r, Busy(q)'
      PROVE  Busy(q) /\ slot'[q] = slot[q] /\ slot[q].n <= served
  BY <1>2, <1>4 DEF Busy, JInv
<1>5. slot'[r] = x
  BY <1>2 DEF IInv
<1>6. ASSUME NEW i \in Ids, Past(i)
      PROVE  Past(i)'
  <2>1. i \in Nat /\ i <= served
    BY <1>6 DEF Past, Ids
  <2>2. i <= served' /\ i # n
    BY <1>2, <2>1
  <2>3. \A q \in Slots : Busy(q)' => slot'[q].n # i
    BY <1>3, <1>4, <1>5, <1>6, <2>2 DEF Past
  <2>4. QED
    BY <2>2, <2>3 DEF Past
<1>7. AccountOK(ws, n)'
  BY <1>1, <1>6, SameAccount
<1>8. ASSUME NEW q \in Slots, Busy(q)'
      PROVE  slot'[q].n <= served' /\ (q # r => slot'[q].n # n)
  <2>1. CASE q = r
    BY <1>2, <1>3, <1>5, <2>1
  <2>2. CASE q # r
    <3>1. slot'[q].n \in Ids /\ slot'[q].n <= served
      BY <1>4, <1>8, <2>2 DEF IInv, SlotOK, Busy
    <3>2. QED
      BY <1>2, <3>1 DEF Ids
  <2>3. QED
    BY <2>1, <2>2
<1>9. ASSUME NEW q \in Slots, Busy(q)', NEW p \in Slots, p # q, Busy(p)'
      PROVE  slot'[p].n # slot'[q].n
  <2>1. CASE q = r \/ p = r
    BY <1>3, <1>5, <1>8, <1>9, <2>1
  <2>2. CASE q # r /\ p # r
    BY <1>4, <1>9, <2>2 DEF JInv
  <2>3. QED
    BY <2>1, <2>2
<1>10. ASSUME NEW q \in Slots, Busy(q)'
       PROVE  AccountOK(slot[q].writes, slot[q].n)'
  <2>1. CASE q = r
    <3>1. slot'[q].writes = ws /\ slot'[q].n = n
      BY <1>3, <1>5, <2>1
    <3>2. QED
      BY <1>7, <3>1
  <2>2. CASE q # r
    <3>1. PICK vs, m : vs = slot[q].writes /\ m = slot[q].n
      OBVIOUS
    <3>2. AccountOK(vs, m)'
      BY <1>4, <1>6, <1>10, <2>2, <3>1, SameAccount DEF JInv
    <3>3. vs = slot'[q].writes /\ m = slot'[q].n
      BY <1>4, <1>10, <2>2, <3>1
    <3>4. QED
      BY <3>2, <3>3
  <2>3. QED
    BY <2>1, <2>2
<1>11. ASSUME NEW k \in FindingKeys, findings[k] # NoRow
       PROVE  Past(findings[k].id)'
  <2>1. findings[k].id \in Ids
    BY <1>11, IInvTypeOK DEF TypeOK, Finding
  <2>2. QED
    BY <1>6, <1>11, <2>1 DEF JInv, findings
<1>12. /\ BatchAccounts'
       /\ \A b \in Ids : batches'[b] # NoRow => IsFiniteSet(FindingsOf(b)')
  BY DEF JInv, BatchAccounts, FindingsOf, batches, findings
<1>13. QED
  BY <1>8, <1>9, <1>10, <1>11, <1>12 DEF JInv, findings, batches

-----------------------------------------------------------------------------
(***************************************************************************)
(* What the requests may do to the accounts.                               *)
(***************************************************************************)
LEMMA AlonePerRow ==
    ASSUME NEW w
    PROVE  OncePerRow({w})
  BY DEF OncePerRow

\* A request that writes neither findings nor batches.
LEMMA Elsewhere ==
    ASSUME NEW ws, NEW n, OncePerRow(ws),
           \A w \in ws : \E t, k : w.at = <<t, k>> /\ t \notin {"findings", "batches"}
    PROVE  AccountOK(ws, n)
<1>1. \A w \in ws : \A k : w.at # <<"findings", k>> /\ w.at # <<"batches", k>>
  OBVIOUS
<1>2. FindingWrites(ws, n)
  BY <1>1 DEF FindingWrites, Adds, Takes
<1>3. BatchWrites(ws, n)
  BY <1>1 DEF BatchWrites
<1>4. QED
  BY <1>2, <1>3 DEF AccountOK

LEMMA AloneElsewhere ==
    ASSUME NEW w, NEW n, NEW t, NEW k, w.at = <<t, k>>, t \notin {"findings", "batches"}
    PROVE  AccountOK({w}, n)
<1>1. \A v \in {w} : \E x, y : v.at = <<x, y>> /\ x \notin {"findings", "batches"}
  OBVIOUS
<1>2. QED
  BY <1>1, AlonePerRow, Elsewhere

LEMMA RequestJ ==
    ASSUME IInv, JInv, NEW r \in Slots, NEW op, NEW on, NEW ws,
           Request(r, op, on, ws), AccountOK(ws, Number)
    PROVE  JInv'
  BY BeginJ DEF Request

\* A request about a monitored asset is one write of its row.
AssetWrite(r) ==
    \E op, w, k : w.at = <<"assets", k>> /\ Request(r, op, NoRow, {w})

LEMMA AssetRequests ==
    ASSUME NEW r, AssetRequest(r)
    PROVE  AssetWrite(r)
<1>1. ASSUME NEW e \in Emails, NEW crit \in Criticalities, create_asset(r, e, crit)
      PROVE  AssetWrite(r)
  <2>1. PICK w : w = Insert("assets", Number, [id |-> Number, email |-> e,
                                               criticality |-> crit])
    OBVIOUS
  <2>2. w.at = <<"assets", Number>>
    BY <2>1, Added
  <2>3. Request(r, "asset_create", NoRow, {w})
    BY <1>1, <2>1 DEF create_asset
  <2>4. QED
    BY <2>2, <2>3 DEF AssetWrite
<1>2. ASSUME NEW i \in Ids, NEW crit \in Criticalities, update_asset(r, i, crit)
      PROVE  AssetWrite(r)
  <2>1. PICK w : w = Update("assets", i, assets[i],
                            [assets[i] EXCEPT !.criticality = crit])
    OBVIOUS
  <2>2. w.at = <<"assets", i>>
    BY <2>1, Updated
  <2>3. Request(r, "asset_update", NoRow, {w})
    BY <1>2, <2>1 DEF update_asset
  <2>4. QED
    BY <2>2, <2>3 DEF AssetWrite
<1>3. ASSUME NEW i \in Ids, delete_asset(r, i)
      PROVE  AssetWrite(r)
  <2>1. PICK w : w = Delete("assets", i, assets[i])
    OBVIOUS
  <2>2. w.at = <<"assets", i>>
    BY <2>1, Removed
  <2>3. Request(r, "asset_delete", NoRow, {w})
    BY <1>3, <2>1 DEF delete_asset
  <2>4. QED
    BY <2>2, <2>3 DEF AssetWrite
<1>4. QED
  BY <1>1, <1>2, <1>3 DEF AssetRequest

LEMMA AssetJ ==
    ASSUME IInv, JInv, NEW r \in Slots, AssetRequest(r)
    PROVE  JInv'
<1>1. PICK op, w, k : w.at = <<"assets", k>> /\ Request(r, op, NoRow, {w})
  BY AssetRequests DEF AssetWrite
<1>2. AccountOK({w}, Number)
  BY <1>1, AloneElsewhere
<1>3. QED
  BY <1>1, <1>2, RequestJ

\* The writes of a session, and that of the batch it imports.
SessionWrite(w, s) ==
    \/ \E k \in FindingKeys :
         /\ w.at = <<"findings", k>> /\ s.findings[k] # findings[k]
         /\ \/ findings[k] = NoRow /\ w = Insert("findings", k, s.findings[k])
            \/ findings[k] # NoRow /\ w = Update("findings", k, findings[k], s.findings[k])
    \/ \E e \in Emails :
         /\ w.at = <<"identities", e>>
         /\ \/ identities[e] = NoRow /\ w = Insert("identities", e, s.identities[e])
            \/ /\ identities[e] # NoRow
               /\ w = Update("identities", e, identities[e], s.identities[e])

LEMMA SessionWriteCases ==
    ASSUME NEW n, NEW ingest, NEW s, SessionOK(s, n, ingest), NEW w \in SessionWrites(s)
    PROVE  \/ SessionWrite(w, s)
           \/ /\ \E k \in s.twice : w.at = <<"findings", k>>
              /\ w.how = "insert_twice"
<1>1. CASE w \in Changed("findings", s.findings)
  <2>1. PICK k \in FindingKeys :
          /\ s.findings[k] # findings[k]
          /\ findings[k] = NoRow => w = Insert("findings", k, s.findings[k])
          /\ findings[k] # NoRow =>
               w = Update("findings", k, findings[k], s.findings[k])
    BY <1>1, ChangedWrite DEF SessionOK, findings
  <2>2. w.at = <<"findings", k>>
    BY <2>1, Added, Updated
  <2>3. QED
    BY <2>1, <2>2 DEF SessionWrite
<1>2. CASE w \in Changed("identities", s.identities)
  <2>1. PICK e \in Emails :
          /\ s.identities[e] # identities[e]
          /\ identities[e] = NoRow => w = Insert("identities", e, s.identities[e])
          /\ identities[e] # NoRow =>
               w = Update("identities", e, identities[e], s.identities[e])
    BY <1>2, ChangedWrite DEF SessionOK, identities
  <2>2. w.at = <<"identities", e>>
    BY <2>1, Added, Updated
  <2>3. QED
    BY <2>1, <2>2 DEF SessionWrite
<1>3. CASE \E k \in s.twice :
             w = [Insert("findings", k, s.findings[k]) EXCEPT !.how = "insert_twice"]
  <2>1. PICK k \in s.twice :
             w = [Insert("findings", k, s.findings[k]) EXCEPT !.how = "insert_twice"]
    BY <1>3
  <2>2. w.at = <<"findings", k>> /\ w.how = "insert_twice"
    BY <2>1 DEF Insert
  <2>3. QED
    BY <2>2
<1>4. QED
  BY <1>1, <1>2, <1>3 DEF SessionWrites

\* A finding that a session adds is among its writes.
LEMMA SessionAdds ==
    ASSUME NEW n, NEW ingest, NEW s, SessionOK(s, n, ingest), NEW k \in NewKeys(s)
    PROVE  \E w \in SessionWrites(s) : Adds(w, k) /\ w.set.ingest = ingest
<1>1. k \in FindingKeys /\ findings[k] = NoRow /\ s.findings[k] # NoRow
  BY DEF NewKeys
<1>2. PICK w : w = Insert("findings", k, s.findings[k])
  OBVIOUS
<1>3. k \in DOMAIN s.findings
  BY <1>1 DEF SessionOK
<1>4. w \in Changed("findings", s.findings)
  BY <1>1, <1>2, <1>3 DEF Changed, findings
<1>5. Adds(w, k) /\ w.set = s.findings[k]
  BY <1>2, Added DEF Adds
<1>6. s.findings[k].ingest = ingest
  BY <1>1 DEF SessionOK, SessionFinding
<1>7. QED
  BY <1>4, <1>5, <1>6 DEF SessionWrites

LEMMA SessionFindingWrite ==
    ASSUME IInv, NEW n, NEW ingest, NEW s, SessionOK(s, n, ingest),
           NEW w \in SessionWrites(s), NEW k \in FindingKeys, w.at = <<"findings", k>>
    PROVE  /\ w.how \in {"insert", "update", "insert_twice"}
           /\ w.how = "insert" =>
                k \in NewKeys(s) /\ w.set.id = n /\ w.set.ingest = ingest
           /\ w.how = "update" => {"id", "ingest"} \cap DOMAIN w.set = {}
<1>1. CASE SessionWrite(w, s)
  <2>1. /\ s.findings[k] # findings[k]
        /\ \/ findings[k] = NoRow /\ w = Insert("findings", k, s.findings[k])
           \/ findings[k] # NoRow /\ w = Update("findings", k, findings[k], s.findings[k])
    BY <1>1 DEF SessionWrite
  <2>2. SessionFinding(s, k, n, ingest)
    BY DEF SessionOK
  <2>3. CASE findings[k] = NoRow
    <3>1. w.how = "insert" /\ w.set = s.findings[k]
      BY <2>1, <2>3, Added
    <3>2. s.findings[k] # NoRow
      BY <2>1, <2>3
    <3>3. QED
      BY <2>2, <2>3, <3>1, <3>2 DEF SessionFinding, NewKeys
  <2>4. CASE findings[k] # NoRow
    <3>1. /\ w.how = "update"
          /\ DOMAIN w.set = {c \in DOMAIN findings[k] : s.findings[k][c] # findings[k][c]}
      BY <2>1, <2>4, Updated
    <3>2. s.findings[k].id = findings[k].id /\ s.findings[k].ingest = findings[k].ingest
      BY <2>2, <2>4 DEF SessionFinding
    <3>3. QED
      BY <3>1, <3>2
  <2>5. QED
    BY <2>3, <2>4
<1>2. CASE w.how = "insert_twice"
  BY <1>2
<1>3. QED
  BY <1>1, <1>2, SessionWriteCases

LEMMA SessionOnce ==
    ASSUME NEW n, NEW ingest, NEW s, SessionOK(s, n, ingest)
    PROVE  OncePerRow(SessionWrites(s))
<1>1. ASSUME NEW v, NEW w, SessionWrite(v, s), SessionWrite(w, s), v.at = w.at
      PROVE  v = w
  BY <1>1 DEF SessionWrite
<1>2. QED
  BY <1>1, SessionWriteCases DEF OncePerRow

LEMMA SessionAccount ==
    ASSUME IInv, NEW n, NEW s, SessionOK(s, n, NoRow)
    PROVE  AccountOK(SessionWrites(s), n)
<1>1. FindingWrites(SessionWrites(s), n)
  BY SessionFindingWrite DEF FindingWrites, Adds, Takes, AddedOK
<1>2. BatchWrites(SessionWrites(s), n)
  <2>1. \A w \in SessionWrites(s), b \in Ids : w.at # <<"batches", b>>
    BY SessionWriteCases DEF SessionWrite
  <2>2. QED
    BY <2>1 DEF BatchWrites
<1>3. QED
  BY <1>1, <1>2, SessionOnce DEF AccountOK

LEMMA ImportAccount ==
    ASSUME IInv, NEW n \in Ids, NEW s, SessionOK(s, n, n), NEW m, Counted(s, m),
           NEW w, Opens(w, n), w.set.status = "completed", w.set.total = m,
           w.set.created = s.created, w.set.deduped = s.deduped,
           w.set.errors = s.errors
    PROVE  AccountOK({w} \cup SessionWrites(s), n)
<1>1. PICK ws : ws = {w} \cup SessionWrites(s)
  OBVIOUS
<1>2. /\ \A v \in SessionWrites(s) : \A b : v.at # <<"batches", b>>
      /\ \A k : w.at # <<"findings", k>>
      /\ w.how = "insert" /\ w.at = <<"batches", n>>
  BY SessionWriteCases DEF SessionWrite, Opens
<1>3. \E v \in ws : Opens(v, n)
  BY <1>1
<1>4. FindingWrites(ws, n)
  <2>1. ASSUME NEW v \in SessionWrites(s), NEW k \in FindingKeys, Adds(v, k)
        PROVE  AddedOK(v, n, ws)
    BY <1>3, <2>1, SessionFindingWrite DEF Adds, AddedOK
  <2>2. ASSUME NEW v \in SessionWrites(s), NEW k \in FindingKeys
        PROVE  /\ ~Takes(v, k)
               /\ v.at = <<"findings", k>> /\ v.how = "update" =>
                    {"id", "ingest"} \cap DOMAIN v.set = {}
    BY <2>2, SessionFindingWrite DEF Takes
  <2>3. \A k : ~Adds(w, k) /\ ~Takes(w, k)
    BY <1>2 DEF Adds, Takes
  <2>4. QED
    BY <1>1, <1>2, <2>1, <2>2, <2>3 DEF FindingWrites
<1>5. AddedBy(ws, n) = NewKeys(s)
  <2>1. ASSUME NEW k \in NewKeys(s)
        PROVE  k \in AddedBy(ws, n)
    <3>1. \E v \in SessionWrites(s) : Adds(v, k) /\ v.set.ingest = n
      BY SessionAdds
    <3>2. QED
      BY <1>1, <3>1 DEF AddedBy, NewKeys
  <2>2. ASSUME NEW k \in AddedBy(ws, n)
        PROVE  k \in NewKeys(s)
    <3>1. k \in FindingKeys /\ \E v \in ws : Adds(v, k)
      BY <2>2 DEF AddedBy
    <3>2. PICK v \in SessionWrites(s) : v.at = <<"findings", k>> /\ v.how = "insert"
      BY <1>1, <1>2, <3>1 DEF Adds
    <3>3. QED
      BY <3>1, <3>2, SessionFindingWrite
  <2>3. QED
    BY <2>1, <2>2
<1>6. OpenedOK(w.set, n, ws)
  <2>1. Sums(w.set)
    <3>1. s.created + s.deduped + s.errors = m
      BY DEF Counted
    <3>2. QED
      BY <3>1 DEF Sums
  <2>2. CASE s.twice = {}
    BY <1>5, <2>1, <2>2 DEF OpenedOK, Counted
  <2>3. CASE s.twice # {}
    <3>1. PICK k \in s.twice : TRUE
      BY <2>3
    <3>2. PICK v : v = [Insert("findings", k, s.findings[k]) EXCEPT !.how = "insert_twice"]
      OBVIOUS
    <3>3. v \in ws
      BY <1>1, <3>1, <3>2 DEF SessionWrites
    <3>4. v.how = "insert_twice"
      BY <3>2 DEF Insert
    <3>5. QED
      BY <2>1, <3>3, <3>4 DEF OpenedOK
  <2>4. QED
    BY <2>2, <2>3
<1>7. BatchWrites(ws, n)
  BY <1>1, <1>2, <1>6 DEF BatchWrites
<1>8. OncePerRow(ws)
  <2>1. \A v \in SessionWrites(s) : v.at # w.at
    BY <1>2
  <2>2. OncePerRow(SessionWrites(s))
    BY SessionOnce
  <2>3. QED
    BY <1>1, <2>1, <2>2 DEF OncePerRow
<1>9. QED
  BY <1>1, <1>4, <1>7, <1>8 DEF AccountOK

\* A rollback deletes every finding of a completed batch, and of a batch that
\* was rolled back there is none left.
LEMMA RollbackAccount ==
    ASSUME IInv, JInv, NEW n, NEW b \in Ids, batches[b] # NoRow, NEW row,
           row = [batches[b] EXCEPT !.status = "rolled_back"], NEW ws,
           ws = {Update("batches", b, batches[b], row)} \cup
                {Delete("findings", k, findings[k]) : k \in FindingsOf(b)}
    PROVE  AccountOK(ws, n)
<1>1. PICK w : w = Update("batches", b, batches[b], row)
  OBVIOUS
<1>2. batches[b] \in Batch
  BY IInvTypeOK DEF TypeOK
<1>3. /\ w.at = <<"batches", b>> /\ w.how = "update"
      /\ DOMAIN w.set = {c \in DOMAIN batches[b] : row[c] # batches[b][c]}
      /\ \A c \in DOMAIN w.set : w.set[c] = row[c]
  BY <1>1, Updated
<1>4. IF batches[b].status = "completed" THEN Rolls(w, b) ELSE DOMAIN w.set = {}
  <2>1. /\ row.status = "rolled_back"
        /\ \A c \in DOMAIN batches[b] : c # "status" => row[c] = batches[b][c]
        /\ "status" \in DOMAIN batches[b]
        /\ batches[b].status \in {"completed", "rolled_back"}
    BY <1>2 DEF Batch
  <2>2. CASE batches[b].status = "completed"
    <3>1. DOMAIN w.set = {"status"}
      BY <1>3, <2>1, <2>2
    <3>2. w.set["status"] = "rolled_back"
      BY <1>3, <2>1, <3>1
    <3>3. QED
      BY <1>3, <2>2, <3>1, <3>2 DEF Rolls
  <2>3. CASE batches[b].status = "rolled_back"
    BY <1>3, <2>1, <2>3
  <2>4. QED
    BY <2>1, <2>2, <2>3
<1>5. batches[b].status # "completed" => FindingsOf(b) = {}
  BY FS_EmptySet DEF JInv, BatchAccounts
<1>6. \A v \in ws : \/ v = w
                    \/ \E k \in FindingsOf(b) :
                         /\ v.at = <<"findings", k>> /\ v.how = "delete"
                         /\ v.id = findings[k].id /\ v = Delete("findings", k, findings[k])
  BY <1>1, Removed
<1>7. \A k \in FindingsOf(b) : \E v \in ws : Takes(v, k) /\ v.id = findings[k].id
  BY Removed DEF Takes
<1>8. FindingWrites(ws, n)
  <2>1. ASSUME NEW v \in ws, NEW k \in FindingKeys, v.at = <<"findings", k>>
        PROVE  v.how = "delete" /\ TakenOK(v, k, ws)
    <3>1. /\ v.how = "delete" /\ v.id = findings[k].id /\ k \in FindingsOf(b)
      BY <1>3, <1>6, <2>1
    <3>2. findings[k] # NoRow /\ findings[k].ingest = b
      BY <3>1 DEF FindingsOf
    <3>3. findings[k].id \in Ids /\ Past(findings[k].id)
      BY <3>2, IInvTypeOK DEF TypeOK, Finding, JInv
    <3>4. w \in ws /\ Rolls(w, b)
      BY <1>1, <1>4, <1>5, <3>1
    <3>5. QED
      BY <3>1, <3>2, <3>3, <3>4 DEF TakenOK
  <2>2. QED
    BY <2>1 DEF FindingWrites, Adds, Takes
<1>9. BatchWrites(ws, n)
  <2>1. ASSUME NEW v \in ws, NEW c \in Ids, v.at = <<"batches", c>>
        PROVE  v = w /\ c = b
    BY <1>3, <1>6, <2>1
  <2>2. RolledOK(b, ws)
    BY <1>7 DEF RolledOK
  <2>3. QED
    BY <1>3, <1>4, <2>1, <2>2 DEF BatchWrites
<1>10. OncePerRow(ws)
  BY <1>3, <1>6 DEF OncePerRow
<1>11. QED
  BY <1>8, <1>9, <1>10 DEF AccountOK

LEMMA FindingJ ==
    ASSUME IInv, JInv, NEW r \in Slots, Free(r), FindingRequest(r)
    PROVE  JInv'
<1>1. TablesOK /\ Number \in Ids
  BY NumberId DEF IInv
<1>2. ASSUME NEW rec \in Records, NEW asset \in Ids \cup {NoRow},
             intake_finding(r, rec, asset)
      PROVE  JInv'
  <2>1. PICK s : s = persist_record(Session, rec, Number, asset, NoRow, 4)
    OBVIOUS
  <2>2. SessionOK(s, Number, NoRow)
    <3>1. NoRow \in Ids \cup {NoRow} /\ 4 \in 0..10
      OBVIOUS
    <3>2. SessionOK(Session, Number, NoRow)
      BY SessionStarts
    <3>3. QED
      BY <1>1, <2>1, <3>1, <3>2, PersistOK
  <2>3. /\ Begin(r, "intake", dedup_key(rec), SessionWrites(s), "answer")
        /\ UNCHANGED db
    BY <1>2, <2>1 DEF intake_finding
  <2>4. QED
    BY <2>2, <2>3, SessionAccount, BeginJ
<1>3. ASSUME NEW file \in Files, import_file(r, file)
      PROVE  JInv'
  <2>1. PICK n, s : n = Number /\ s = Imported(file, n)
    OBVIOUS
  <2>2. SessionOK(s, n, n) /\ Counted(s, Len(file))
    BY <1>1, <2>1, ImportedCounted
  <2>3. PICK batch :
          batch = [id |-> n, status |-> "completed", total |-> Len(file),
                   created |-> s.created, deduped |-> s.deduped,
                   errors |-> s.errors]
    OBVIOUS
  <2>4. PICK w : w = Insert("batches", n, batch)
    OBVIOUS
  <2>5. w.at = <<"batches", n>> /\ w.how = "insert" /\ w.set = batch
    BY <2>4, Added
  <2>6. AccountOK({w} \cup SessionWrites(s), n)
    BY <1>1, <2>1, <2>2, <2>3, <2>5, ImportAccount DEF Opens
  <2>7. /\ Begin(r, "import", NoRow, {w} \cup SessionWrites(s), "answer")
        /\ UNCHANGED db
    BY <1>3, <2>1, <2>3, <2>4 DEF import_file
  <2>8. QED
    BY <2>1, <2>6, <2>7, BeginJ
<1>4. ASSUME NEW b \in Ids, rollback_ingest(r, b)
      PROVE  JInv'
  <2>1. PICK row, ws :
          /\ row = [batches[b] EXCEPT !.status = "rolled_back"]
          /\ ws = {Update("batches", b, batches[b], row)} \cup
                  {Delete("findings", k, findings[k]) : k \in FindingsOf(b)}
    OBVIOUS
  <2>2. batches[b] # NoRow /\ Request(r, "import_rollback", b, ws)
    BY <1>4, <2>1 DEF rollback_ingest, FindingsOf
  <2>3. AccountOK(ws, Number)
    BY <2>1, <2>2, RollbackAccount
  <2>4. QED
    BY <2>2, <2>3, RequestJ
<1>5. ASSUME NEW k \in FindingKeys, NEW body \in Triages, triage_finding(r, k, body)
      PROVE  JInv'
  <2>1. PICK old, f : /\ old = findings[k]
                      /\ f = [old EXCEPT !.status = body.status, !.doubt = body.doubt]
    OBVIOUS
  <2>2. old # NoRow /\ old \in Finding
    BY <1>5, <2>1, IInvTypeOK DEF triage_finding, TypeOK
  <2>3. f \in Finding /\ f.id = old.id /\ f.ingest = old.ingest
    <3>1. body.status \in DOMAIN VERIFY_INTENSITY /\ body.doubt \in 0..10
      BY InputsAssumption
    <3>2. f.id = old.id /\ f.ingest = old.ingest
      BY <2>1, <2>2 DEF Finding
    <3>3. f \in Finding
      BY <2>1, <2>2, <3>1 DEF Finding
    <3>4. QED
      BY <3>2, <3>3
  <2>4. PICK g : g = Triaged(k, old, body)
    OBVIOUS
  <2>5. g.id = old.id /\ g.ingest = old.ingest
    <3>1. g = apply_risk(k, f)
      BY <2>1, <2>4 DEF Triaged
    <3>2. QED
      BY <1>1, <2>3, <3>1, Scored, TypedRow DEF Rescored
  <2>6. PICK w : w = Update("findings", k, old, g)
    OBVIOUS
  <2>7. /\ w.at = <<"findings", k>> /\ w.how = "update"
        /\ {"id", "ingest"} \cap DOMAIN w.set = {}
    BY <2>5, <2>6, Updated
  <2>8. AccountOK({w}, Number)
    <3>1. FindingWrites({w}, Number)
      BY <2>7 DEF FindingWrites, Adds, Takes
    <3>2. BatchWrites({w}, Number)
      BY <2>7 DEF BatchWrites
    <3>3. QED
      BY <3>1, <3>2, AlonePerRow DEF AccountOK
  <2>9. Request(r, "triage", k, {w})
    BY <1>5, <2>1, <2>4, <2>6 DEF triage_finding
  <2>10. QED
    BY <2>8, <2>9, RequestJ
<1>6. ASSUME NEW e \in Emails, triage_identity(r, e, "closed")
      PROVE  JInv'
  <2>1. PICK w : w = Update("identities", e, identities[e],
                            [identities[e] EXCEPT !.status = "closed"])
    OBVIOUS
  <2>2. w.at = <<"identities", e>>
    BY <2>1, Updated
  <2>3. Request(r, "identity_triage", NoRow, {w})
    BY <1>6, <2>1 DEF triage_identity
  <2>4. QED
    BY <2>2, <2>3, AloneElsewhere, RequestJ
<1>7. QED
  BY <1>2, <1>3, <1>4, <1>5, <1>6 DEF FindingRequest

LEMMA SurfaceJ ==
    ASSUME IInv, JInv, NEW r \in Slots, Free(r), SurfaceRequest(r)
    PROVE  JInv'
<1>1. TablesOK /\ Number \in Ids
  BY NumberId DEF IInv
<1>2. ASSUME NEW items \in SUBSET SurfaceKeys, import_surface(r, items)
      PROVE  JInv'
  <2>1. PICK ws : ws = {Insert("surface", s, NewSurface(Number, NoRow)) :
                          s \in {s \in items : surface[s] = NoRow}}
    OBVIOUS
  <2>2. \A w \in ws : \E s : /\ w.at = <<"surface", s>>
                             /\ w = Insert("surface", s, NewSurface(Number, NoRow))
    BY <2>1, Added
  <2>3. AccountOK(ws, Number)
    <3>1. OncePerRow(ws)
      BY <2>2 DEF OncePerRow
    <3>2. \A w \in ws : \E t, k : w.at = <<t, k>> /\ t \notin {"findings", "batches"}
      BY <2>2
    <3>3. QED
      BY <3>1, <3>2, Elsewhere
  <2>4. Request(r, "surface_import", NoRow, ws)
    BY <1>2, <2>1 DEF import_surface
  <2>5. QED
    BY <2>3, <2>4, RequestJ
<1>3. ASSUME NEW s \in SurfaceKeys, promote(r, s)
      PROVE  JInv'
  <2>1. PICK k : k = SurfaceKey(s)
    OBVIOUS
  <2>2. PICK w : w = Update("surface", s, surface[s], Promoted(s, findings[k]))
    OBVIOUS
  <2>3. PICK f : f = NewFinding(k, Number, NoRow, NoRow, 2, s)
    OBVIOUS
  <2>4. PICK v : v = Insert("findings", k, f)
    OBVIOUS
  <2>5. w.at = <<"surface", s>>
    BY <2>2, Updated
  <2>6. v.at = <<"findings", k>> /\ v.how = "insert" /\ v.set = f
    BY <2>4, Added
  <2>7. f.id = Number /\ f.ingest = NoRow
    <3>1. /\ NoRow \in Ids \cup {NoRow} /\ 2 \in 0..10 /\ s \in SurfaceKeys \cup {NoRow}
          /\ k \in FindingKeys
      BY <2>1 DEF FindingKeys
    <3>2. AddedRow(f, Number, NoRow)
      BY <1>1, <2>3, <3>1, NewFindingRow
    <3>3. QED
      BY <3>2 DEF AddedRow
  <2>8. PICK ws : ws = {w} \cup (IF findings[k] # NoRow THEN {} ELSE {v})
    OBVIOUS
  <2>9. Request(r, "surface_promote", s, ws)
    BY <1>3, <2>1, <2>2, <2>3, <2>4, <2>8 DEF promote
  <2>10. AccountOK(ws, Number)
    <3>1. FindingWrites(ws, Number)
      BY <2>5, <2>6, <2>7, <2>8 DEF FindingWrites, Adds, Takes, AddedOK
    <3>2. BatchWrites(ws, Number)
      BY <2>5, <2>6, <2>8 DEF BatchWrites
    <3>3. OncePerRow(ws)
      BY <2>5, <2>6, <2>8 DEF OncePerRow
    <3>4. QED
      BY <3>1, <3>2, <3>3 DEF AccountOK
  <2>11. QED
    BY <2>9, <2>10, RequestJ
<1>4. ASSUME NEW s \in SurfaceKeys, triage_surface(r, s, "ignored")
      PROVE  JInv'
  <2>1. PICK w : w = Update("surface", s, surface[s],
                            [surface[s] EXCEPT !.status = "ignored"])
    OBVIOUS
  <2>2. w.at = <<"surface", s>>
    BY <2>1, Updated
  <2>3. Request(r, "surface_triage", s, {w})
    BY <1>4, <2>1 DEF triage_surface
  <2>4. QED
    BY <2>2, <2>3, AloneElsewhere, RequestJ
<1>5. ASSUME NEW some \in SUBSET SurfaceKeys, NEW found \in [some -> Lookups],
             discover(r, found)
      PROVE  JInv'
  <2>1. PICK ws : ws = {upsert(s, found[s]) : s \in DOMAIN found}
    OBVIOUS
  <2>2. \A s : upsert(s, found[s]).at = <<"surface", s>>
    BY Added, Updated DEF upsert
  <2>3. \A w \in ws : \E s : w.at = <<"surface", s>> /\ w = upsert(s, found[s])
    BY <2>1, <2>2
  <2>4. AccountOK(ws, Number)
    <3>1. OncePerRow(ws)
      BY <2>3 DEF OncePerRow
    <3>2. \A w \in ws : \E t, k : w.at = <<t, k>> /\ t \notin {"findings", "batches"}
      BY <2>3
    <3>3. QED
      BY <3>1, <3>2, Elsewhere
  <2>5. Request(r, "surface_discover", NoRow, ws)
    BY <1>5, <2>1 DEF discover
  <2>6. QED
    BY <2>4, <2>5, RequestJ
<1>6. QED
  BY <1>2, <1>3, <1>4, <1>5 DEF SurfaceRequest

-----------------------------------------------------------------------------
LEMMA InitJ == Init => JInv
<1> SUFFICES ASSUME Init
             PROVE  JInv
  OBVIOUS
<1>1. /\ db = Tables /\ slot = [r \in Slots |-> Idle]
  BY DEF Init, Start
<1>2. /\ findings = [k \in FindingKeys |-> NoRow]
      /\ batches = [i \in Ids |-> NoRow]
  BY <1>1 DEF Tables, findings, batches
<1>3. \A r \in Slots : ~Busy(r)
  BY <1>1 DEF Busy, Idle
<1>4. BatchAccounts
  BY <1>2 DEF BatchAccounts
<1>5. QED
  BY <1>2, <1>3, <1>4 DEF JInv

LEMMA NextJ == IInv /\ JInv /\ [Next]_vars => JInv'
<1> SUFFICES ASSUME IInv, JInv, [Next]_vars
             PROVE  JInv'
  OBVIOUS
<1>1. ASSUME NEW r \in Slots, Refuse(r)
      PROVE  JInv'
  BY <1>1, EndsJ DEF Refuse, CommitRaises, IInv
<1>2. ASSUME NEW e \in Emails, resend_vip_alert(e)
      PROVE  JInv'
  BY <1>2, EndsJ DEF resend_vip_alert
<1>3. CASE Die
  BY <1>3, EndsJ DEF Die, Crash
<1>4. CASE UNCHANGED vars
  BY <1>4, EndsJ DEF vars
<1>5. QED
  BY <1>1, <1>2, <1>3, <1>4, FlushJ, AssetJ, FindingJ, SurfaceJ DEF Next

\* Whatever intakes, imports, triages and rollbacks overlap, a completed batch
\* has the findings it says it created and its counts add up to the lines of
\* its file, and a batch that was rolled back has none (import_file,
\* rollback_ingest).
THEOREM BatchesAccounted == Spec => []BatchAccounts
<1>1. Init => IInv /\ JInv
  BY InitI, InitJ
<1>2. (IInv /\ JInv) /\ [Next]_vars => (IInv /\ JInv)'
  BY NextI, NextJ
<1>3. IInv /\ JInv => BatchAccounts
  BY DEF JInv
<1>4. QED
  BY <1>1, <1>2, <1>3, PTL DEF Spec

-----------------------------------------------------------------------------
(***************************************************************************)
(* The properties about races.  The rows after the writes of a request are *)
(* judged on the rows there are now: as long as no commit overtook it,     *)
(* those are the rows the handler read (Judged).  The keys of a finding    *)
(* from the attack surface are in no batch, so no rollback takes one away. *)
(***************************************************************************)
RowsAfter(ws) ==
    [findings   |-> [k \in FindingKeys |-> Row("findings", k, ws)],
     identities |-> [e \in Emails |-> Row("identities", e, ws)],
     surface    |-> [s \in SurfaceKeys |-> Row("surface", s, ws)]]

KeepsSightings(t) ==
    \A k \in FindingKeys : findings[k] # NoRow /\ t.findings[k] # NoRow =>
       t.findings[k].detail.sightings >= findings[k].detail.sightings
KeepsLinks(t) == \A s \in SurfaceKeys : Linked(s, db) => Linked(s, t)
KeepsLeaks(t) == \A e \in Emails : Accounted(e, db) => Accounted(e, t)

Judged(ws) ==
    OncePerRow(ws) /\ ~Raises(ws, References) =>
       LET t == RowsAfter(ws) IN
       KeepsSightings(t) /\ KeepsLinks(t) /\ KeepsLeaks(t)

Present == {k \in FindingKeys : findings[k] # NoRow}

\* What a request adds: finitely many findings, and those of the attack surface
\* to no batch.
AddsOK(ws) ==
    /\ IsFiniteSet({k \in FindingKeys : \E w \in ws : Adds(w, k)})
    /\ \A s \in SurfaceKeys : \A w \in ws :
         Adds(w, SurfaceKey(s)) => w.set.ingest = NoRow

KInv ==
    /\ IsFiniteSet(Present)
    /\ \A s \in SurfaceKeys :
         findings[SurfaceKey(s)] # NoRow => findings[SurfaceKey(s)].ingest = NoRow
    /\ \A r \in Slots : Busy(r) =>
         /\ AddsOK(slot[r].writes)
         /\ ~slot[r].overtaken => Judged(slot[r].writes)

\* A flush leaves the rows after its writes but for the links to deleted rows.
LEMMA RowStays ==
    ASSUME TablesOK, NEW ws, Allowed(ws), NEW t \in TableNames, NEW k \in Keys[t],
           NEW row, row = Row(t, k, ws), NEW after, after = Flushed(ws, References)[t][k]
    PROVE  /\ after = NoRow <=> row = NoRow
           /\ row # NoRow =>
                \A c \in DOMAIN Columns[t] : c \notin Nullable(t) => after[c] = row[c]
<1>1. PICK lost : lost \subseteq Nullable(t) /\ Left(after, row, lost)
  BY LeftRow
<1>2. CASE row = NoRow
  BY <1>1, <1>2 DEF Left
<1>3. CASE row # NoRow
  <2>1. Typed(t, row) /\ after = Nulled(row, lost)
    BY <1>1, <1>3, RowTyped DEF Left
  <2>2. after # NoRow
    BY <1>1, <2>1, NulledTyped, RowNotNull
  <2>3. DOMAIN row = DOMAIN Columns[t]
    BY <2>1 DEF Typed
  <2>4. \A c \in DOMAIN Columns[t] : c \notin Nullable(t) => after[c] = row[c]
    BY <1>1, <2>1, <2>3 DEF Nulled
  <2>5. QED
    BY <1>3, <2>2, <2>4
<1>4. QED
  BY <1>2, <1>3

LEMMA KeepsFlushed ==
    ASSUME TablesOK, NEW ws, Allowed(ws), OncePerRow(ws), Judged(ws),
           NEW u, u = Flushed(ws, References)
    PROVE  KeepsSightings(u) /\ KeepsLinks(u) /\ KeepsLeaks(u)
<1>1. PICK t : t = RowsAfter(ws)
  OBVIOUS
<1>2. KeepsSightings(t) /\ KeepsLinks(t) /\ KeepsLeaks(t)
  BY <1>1 DEF Judged, Allowed
<1>3. ASSUME NEW k \in FindingKeys
      PROVE  /\ u.findings[k] = NoRow <=> t.findings[k] = NoRow
             /\ t.findings[k] # NoRow => u.findings[k].detail = t.findings[k].detail
  <2>1. PICK row : row = Row("findings", k, ws)
    OBVIOUS
  <2>2. /\ "findings" \in TableNames /\ k \in Keys["findings"]
        /\ "detail" \in DOMAIN Columns["findings"] /\ "detail" \notin Nullable("findings")
    BY DEF TableNames, Keys, Columns, Nullable
  <2>3. t.findings[k] = row
    BY <1>1, <2>1 DEF RowsAfter
  <2>4. QED
    BY <2>1, <2>2, <2>3, RowStays
<1>4. ASSUME NEW s \in SurfaceKeys
      PROVE  /\ u.surface[s] = NoRow <=> t.surface[s] = NoRow
             /\ t.surface[s] # NoRow => u.surface[s].detail = t.surface[s].detail
  <2>1. PICK row : row = Row("surface", s, ws)
    OBVIOUS
  <2>2. /\ "surface" \in TableNames /\ s \in Keys["surface"]
        /\ "detail" \in DOMAIN Columns["surface"] /\ "detail" \notin Nullable("surface")
    BY DEF TableNames, Keys, Columns, Nullable
  <2>3. t.surface[s] = row
    BY <1>1, <2>1 DEF RowsAfter
  <2>4. QED
    BY <2>1, <2>2, <2>3, RowStays
<1>5. ASSUME NEW e \in Emails
      PROVE  /\ u.identities[e] = NoRow <=> t.identities[e] = NoRow
             /\ t.identities[e] # NoRow =>
                  /\ u.identities[e].leak_count = t.identities[e].leak_count
                  /\ u.identities[e].passwords = t.identities[e].passwords
  <2>1. PICK row : row = Row("identities", e, ws)
    OBVIOUS
  <2>2. /\ "identities" \in TableNames /\ e \in Keys["identities"]
        /\ {"leak_count", "passwords"} \subseteq DOMAIN Columns["identities"]
        /\ {"leak_count", "passwords"} \cap Nullable("identities") = {}
    BY DEF TableNames, Keys, Columns, Nullable
  <2>3. t.identities[e] = row
    BY <1>1, <2>1 DEF RowsAfter
  <2>4. QED
    BY <2>1, <2>2, <2>3, RowStays
<1>6. KeepsSightings(u)
  BY <1>2, <1>3 DEF KeepsSightings
<1>7. KeepsLinks(u)
  <2>1. \A s \in SurfaceKeys : SurfaceKey(s) \in FindingKeys
    BY DEF FindingKeys
  <2>2. \A s \in SurfaceKeys : Linked(s, t) => Linked(s, u)
    BY <1>3, <1>4, <2>1 DEF Linked
  <2>3. QED
    BY <1>2, <2>2 DEF KeepsLinks
<1>8. KeepsLeaks(u)
  <2>1. ASSUME NEW e \in Emails, Accounted(e, t)
        PROVE  Accounted(e, u)
    <3>1. Live(e, u.findings) = Live(e, t.findings)
      BY <1>3 DEF Live, Credentials
    <3>2. QED
      BY <1>5, <2>1, <3>1 DEF Accounted
  <2>2. QED
    BY <1>2, <2>1 DEF KeepsLeaks
<1>9. QED
  BY <1>6, <1>7, <1>8

LEMMA SameJudged ==
    ASSUME UNCHANGED db, NEW ws, Judged(ws)
    PROVE  Judged(ws)'
<1>1. \A t, k : Row(t, k, ws)' = Row(t, k, ws)
  BY DEF Row, Written, Stale, Gone
<1>2. Raises(ws, References)' <=> Raises(ws, References)
  BY DEF Raises, Dangling, Stale, Gone
<1>3. RowsAfter(ws)' = RowsAfter(ws)
  BY <1>1 DEF RowsAfter
<1>4. \A t : KeepsSightings(t)' <=> KeepsSightings(t)
  BY DEF KeepsSightings, findings
<1>5. \A t : KeepsLinks(t)' <=> KeepsLinks(t)
  BY DEF KeepsLinks
<1>6. \A t : KeepsLeaks(t)' <=> KeepsLeaks(t)
  BY DEF KeepsLeaks
<1>7. PICK t : t = RowsAfter(ws)
  OBVIOUS
<1>8. /\ OncePerRow(ws) /\ ~Raises(ws, References) =>
           KeepsSightings(t) /\ KeepsLinks(t) /\ KeepsLeaks(t)
      /\ RowsAfter(ws)' = t
  BY <1>3, <1>7 DEF Judged
<1>9. OncePerRow(ws)' <=> OncePerRow(ws)
  BY DEF OncePerRow
<1>10. QED
  BY <1>2, <1>4, <1>5, <1>6, <1>8, <1>9 DEF Judged

LEMMA FlushK ==
    ASSUME IInv, JInv, KInv, NEW r \in Slots, Flush(r)
    PROVE  KInv'
<1>1. PICK ws, n : ws = slot[r].writes /\ n = slot[r].n
  OBVIOUS
<1>2. SlotOK(slot[r], sent) /\ slot[r].phase = "flush" /\ Busy(r)
  BY DEF IInv, Flush, Commit, Busy
<1>3. /\ Allowed(ws) /\ db' = Flushed(ws, References) /\ n \in Ids
      /\ AccountOK(ws, n) /\ AddsOK(ws)
  BY <1>1, <1>2 DEF Allowed, SlotOK, Flush, Commit, JInv, KInv
<1>4. ~Busy(r)'
  BY <1>2 DEF Flush, Commit, After, SlotOK, Busy, Idle
<1>5. ASSUME NEW q \in Slots, Busy(q)'
      PROVE  /\ Busy(q) /\ slot'[q].writes = slot[q].writes
             /\ ~slot'[q].overtaken => ~slot[q].overtaken /\ db' = db
  <2>1. q # r
    BY <1>4, <1>5
  <2>2. Busy(q)
    BY <1>5, <2>1 DEF Flush, Commit, Busy, Idle
  <2>3. PICK x, o : x = slot[q] /\ o = (x.overtaken \/ db' # db)
    OBVIOUS
  <2>4. slot'[q] = [x EXCEPT !.overtaken = o]
    BY <2>1, <2>2, <2>3 DEF Flush, Commit
  <2>5. DOMAIN x = {"phase", "op", "on", "n", "writes", "then", "overtaken"}
    BY <2>2, <2>3 DEF IInv, SlotOK, Busy
  <2>6. slot'[q].overtaken = o /\ slot'[q].writes = x.writes
    BY <2>4, <2>5
  <2>7. ~o => ~x.overtaken /\ db' = db
    BY <2>3, Zenon
  <2>8. QED
    BY <2>2, <2>3, <2>6, <2>7, Zenon
<1>6. ASSUME NEW k \in FindingKeys
      PROVE  FindingMoves(findings'[k], findings[k], k, ws)
  BY <1>3, FindingAfter
<1>7. IsFiniteSet(Present')
  <2>1. PICK new : new = {k \in FindingKeys : \E w \in ws : Adds(w, k)}
    OBVIOUS
  <2>2. Present' \subseteq Present \cup new
    BY <1>6, <2>1 DEF Present, FindingMoves
  <2>3. IsFiniteSet(Present \cup new)
    BY <1>3, <2>1, FS_Union DEF AddsOK, KInv
  <2>4. QED
    BY <2>2, <2>3, FS_Subset
<1>8. ASSUME NEW s \in SurfaceKeys, findings'[SurfaceKey(s)] # NoRow
      PROVE  findings'[SurfaceKey(s)].ingest = NoRow
  <2>1. PICK k \in FindingKeys : k = SurfaceKey(s)
    BY DEF FindingKeys
  <2>2. CASE findings[k] # NoRow
    <3>1. findings[k].ingest = NoRow
      BY <2>1, <2>2 DEF KInv
    <3>2. QED
      BY <1>6, <1>8, <2>1, <2>2, <3>1 DEF FindingMoves
  <2>3. CASE findings[k] = NoRow
    <3>1. PICK w \in ws : Adds(w, k)
      BY <1>6, <1>8, <2>1, <2>3 DEF FindingMoves
    <3>2. w.set.ingest = NoRow
      BY <1>3, <2>1, <3>1 DEF AddsOK
    <3>3. QED
      BY <1>6, <2>1, <3>1, <3>2 DEF FindingMoves
  <2>4. QED
    BY <2>2, <2>3
<1>9. ASSUME NEW q \in Slots, Busy(q)'
      PROVE  AddsOK(slot'[q].writes) /\ (~slot'[q].overtaken => Judged(slot[q].writes)')
  <2>1. PICK vs : vs = slot[q].writes
    OBVIOUS
  <2>2. slot'[q].writes = vs /\ AddsOK(vs)
    BY <1>5, <1>9, <2>1 DEF KInv
  <2>3. ASSUME ~slot'[q].overtaken
        PROVE  Judged(vs)'
    BY <1>5, <1>9, <2>1, <2>3, SameJudged DEF KInv
  <2>4. QED
    BY <2>2, <2>3
<1>10. QED
  BY <1>7, <1>8, <1>9 DEF KInv, AddsOK, Adds, findings

LEMMA EndsK ==
    ASSUME KInv, UNCHANGED db, \A q \in Slots : slot'[q] \in {slot[q], Idle}
    PROVE  KInv'
<1>1. ASSUME NEW q \in Slots, Busy(q)'
      PROVE  Busy(q) /\ slot'[q] = slot[q]
  BY <1>1 DEF Busy, Idle
<1>2. ASSUME NEW q \in Slots, Busy(q)'
      PROVE  AddsOK(slot'[q].writes) /\ (~slot'[q].overtaken => Judged(slot[q].writes)')
  <2>1. PICK vs : vs = slot[q].writes
    OBVIOUS
  <2>2. slot'[q].writes = vs /\ AddsOK(vs)
    BY <1>1, <1>2, <2>1 DEF KInv
  <2>3. ASSUME ~slot'[q].overtaken
        PROVE  Judged(vs)'
    BY <1>1, <1>2, <2>1, <2>3, SameJudged DEF KInv
  <2>4. QED
    BY <2>2, <2>3
<1>3. IsFiniteSet(Present')
  BY DEF KInv, Present, findings
<1>4. QED
  BY <1>2, <1>3 DEF KInv, AddsOK, Adds, findings

LEMMA BeginK ==
    ASSUME IInv, KInv, NEW r \in Slots, NEW op, NEW on, NEW ws,
           Begin(r, op, on, ws, "answer"), UNCHANGED db, AddsOK(ws), Judged(ws)
    PROVE  KInv'
<1>1. PICK x, n : /\ n = Number
                  /\ x = [phase |-> "flush", op |-> op, on |-> on, n |-> n,
                          writes |-> ws, then |-> "answer", overtaken |-> FALSE]
  OBVIOUS
<1>2. slot' = [slot EXCEPT ![r] = x] /\ x.writes = ws
  BY <1>1 DEF Begin, BeginAt
<1>3. slot'[r] = x /\ \A q \in Slots : q # r => slot'[q] = slot[q]
  BY <1>2 DEF IInv
<1>4. ASSUME NEW q \in Slots, Busy(q)'
      PROVE  AddsOK(slot'[q].writes) /\ (~slot'[q].overtaken => Judged(slot[q].writes)')
  <2>1. CASE q = r
    <3>1. Judged(ws)'
      BY SameJudged
    <3>2. slot'[q].writes = ws
      BY <1>2, <1>3, <2>1
    <3>3. QED
      BY <3>1, <3>2
  <2>2. CASE q # r
    <3>1. PICK vs : vs = slot[q].writes
      OBVIOUS
    <3>2. Busy(q) /\ slot'[q].writes = vs /\ AddsOK(vs) /\ slot'[q] = slot[q]
      BY <1>3, <1>4, <2>2, <3>1 DEF KInv, Busy
    <3>3. ASSUME ~slot'[q].overtaken
          PROVE  Judged(vs)'
      BY <3>1, <3>2, <3>3, SameJudged DEF KInv
    <3>4. QED
      BY <3>2, <3>3
  <2>3. QED
    BY <2>1, <2>2
<1>5. IsFiniteSet(Present')
  BY DEF KInv, Present, findings
<1>6. QED
  BY <1>4, <1>5 DEF KInv, AddsOK, Adds, findings

-----------------------------------------------------------------------------
(***************************************************************************)
(* What writes make of the rows they were decided on.                      *)
(***************************************************************************)
Spares(t, ws) == \A w \in ws : \A k : w.at # <<t, k>>

LEMMA SparedRow ==
    ASSUME NEW t, NEW k, NEW ws, \A w \in ws : w.at # <<t, k>>
    PROVE  Row(t, k, ws) = db[t][k]
  BY DEF Row

LEMMA OnlyWrite ==
    ASSUME NEW ws, OncePerRow(ws), ~Raises(ws, References), NEW w \in ws,
           NEW t, NEW k, w.at = <<t, k>>
    PROVE  Row(t, k, ws) = Written(t, k, w)
<1>1. PICK v : v = CHOOSE u \in ws : u.at = <<t, k>>
  OBVIOUS
<1>2. v \in ws /\ v.at = <<t, k>>
  BY <1>1
<1>3. v.how # "insert_twice" /\ w.how # "insert_twice"
  BY <1>2 DEF Raises
<1>4. v = w
  BY <1>2, <1>3 DEF OncePerRow
<1>5. QED
  BY <1>1, <1>4 DEF Row

LEMMA InsertedRow ==
    ASSUME NEW ws, OncePerRow(ws), ~Raises(ws, References), NEW t, NEW k, NEW row,
           Insert(t, k, row) \in ws
    PROVE  Row(t, k, ws) = row
<1>1. PICK w : w = Insert(t, k, row)
  OBVIOUS
<1>2. w.at = <<t, k>> /\ w.how = "insert" /\ w.set = row
  BY <1>1, Added
<1>3. QED
  BY <1>1, <1>2, OnlyWrite DEF Written

LEMMA ChangedRow ==
    ASSUME NEW ws, OncePerRow(ws), ~Raises(ws, References), NEW t, NEW k, NEW old,
           old = db[t][k], NEW row, Typed(t, old), Typed(t, row),
           Update(t, k, old, row) \in ws
    PROVE  Row(t, k, ws) = row
<1>1. PICK w : w = Update(t, k, old, row)
  OBVIOUS
<1>2. /\ w.at = <<t, k>> /\ w.how = "update"
      /\ DOMAIN w.set = {c \in DOMAIN old : row[c] # old[c]}
      /\ \A c \in DOMAIN w.set : w.set[c] = row[c]
  BY <1>1, Updated
<1>3. /\ DOMAIN old = DOMAIN Columns[t] /\ DOMAIN row = DOMAIN Columns[t]
      /\ row = [c \in DOMAIN Columns[t] |-> row[c]]
      /\ old = [c \in DOMAIN Columns[t] |-> old[c]]
  BY DEF Typed
<1>4. Row(t, k, ws) = Written(t, k, w)
  BY <1>1, <1>2, OnlyWrite
<1>5. CASE DOMAIN w.set = {}
  <2>1. Row(t, k, ws) = old
    BY <1>2, <1>4, <1>5 DEF Written
  <2>2. \A c \in DOMAIN Columns[t] : row[c] = old[c]
    BY <1>2, <1>3, <1>5
  <2>3. QED
    BY <1>3, <2>1, <2>2
<1>6. CASE DOMAIN w.set # {}
  <2>1. Row(t, k, ws) =
          [c \in DOMAIN old |-> IF c \in DOMAIN w.set THEN w.set[c] ELSE old[c]]
    BY <1>2, <1>4, <1>6 DEF Written
  <2>2. \A c \in DOMAIN old : (IF c \in DOMAIN w.set THEN w.set[c] ELSE old[c]) = row[c]
    BY <1>2
  <2>3. QED
    BY <1>3, <2>1, <2>2
<1>7. QED
  BY <1>5, <1>6

LEMMA RowsTyped ==
    ASSUME TablesOK
    PROVE  /\ \A k \in FindingKeys :
                /\ db["findings"][k] = findings[k]
                /\ findings[k] # NoRow => Typed("findings", findings[k])
           /\ \A e \in Emails :
                /\ db["identities"][e] = identities[e]
                /\ identities[e] # NoRow => Typed("identities", identities[e])
           /\ \A s \in SurfaceKeys :
                /\ db["surface"][s] = surface[s]
                /\ surface[s] # NoRow => Typed("surface", surface[s])
  BY DEF TablesOK, TableNames, Keys, findings, identities, surface

\* Findings keep their sightings.
LEMMA SightingsGentle ==
    ASSUME TablesOK, NEW t,
           \A k \in FindingKeys : findings[k] # NoRow =>
              \/ t.findings[k] \in {NoRow, findings[k]}
              \/ t.findings[k].detail.sightings >= findings[k].detail.sightings
    PROVE  KeepsSightings(t)
<1>1. \A k \in FindingKeys : findings[k] # NoRow => findings[k].detail.sightings \in Nat
  BY RowsTyped, TypedRow DEF Finding
<1>2. QED
  BY <1>1 DEF KeepsSightings

\* The findings of the attack surface stay, and what an asset says of them.
LinkKept(old, row) ==
    IF old = NoRow THEN row # NoRow => row.detail.finding = NoRow
    ELSE row # NoRow /\ row.detail.finding = old.detail.finding

LEMMA LinksGentle ==
    ASSUME NEW t,
           \A s \in SurfaceKeys :
              /\ t.findings[SurfaceKey(s)] # NoRow <=> findings[SurfaceKey(s)] # NoRow
              /\ LinkKept(surface[s], t.surface[s])
    PROVE  KeepsLinks(t)
<1>1. ASSUME NEW s \in SurfaceKeys, Linked(s, db)
      PROVE  Linked(s, t)
  <2>1. SurfaceKey(s) # NoRow
    BY NullAssumption DEF FindingKeys
  <2>2. findings[SurfaceKey(s)] # NoRow <=>
          (surface[s] # NoRow /\ surface[s].detail.finding = SurfaceKey(s))
    BY <1>1 DEF Linked, findings, surface
  <2>3. QED
    BY <2>1, <2>2 DEF Linked, LinkKept
<1>2. QED
  BY <1>1 DEF KeepsLinks

\* No credential is added, and the dossiers count what they did.
LEMMA LeaksGentle ==
    ASSUME IInv, KInv, NEW t,
           \A k \in FindingKeys : k[1] = "credential_exposure" /\ t.findings[k] # NoRow
                                    => findings[k] # NoRow,
           \A e \in Emails : identities[e] # NoRow =>
              /\ t.identities[e] # NoRow
              /\ t.identities[e].leak_count = identities[e].leak_count
              /\ t.identities[e].passwords = identities[e].passwords
    PROVE  KeepsLeaks(t)
<1>1. ASSUME NEW e \in Emails, Accounted(e, db), Live(e, t.findings) # {}
      PROVE  /\ t.identities[e] # NoRow
             /\ t.identities[e].leak_count >= Cardinality(Live(e, t.findings))
             /\ \A k \in Live(e, t.findings) :
                  k[3] # NoRow => k[3] \in t.identities[e].passwords
  <2>1. PICK now, then : now = Live(e, findings) /\ then = Live(e, t.findings)
    OBVIOUS
  <2>2. then \subseteq now /\ now \subseteq Present
    BY <2>1 DEF Live, Credentials, Present
  <2>3. /\ IsFiniteSet(now) /\ IsFiniteSet(then)
        /\ Cardinality(then) <= Cardinality(now)
        /\ Cardinality(then) \in Nat /\ Cardinality(now) \in Nat
    BY <2>2, FS_Subset, FS_CardinalityType DEF KInv
  <2>4. now # {}
    BY <1>1, <2>1, <2>2
  <2>5. /\ identities[e] # NoRow /\ identities[e].leak_count >= Cardinality(now)
        /\ \A k \in now : k[3] # NoRow => k[3] \in identities[e].passwords
    BY <1>1, <2>1, <2>4 DEF Accounted, findings, identities
  <2>6. identities[e].leak_count \in Nat
    BY <2>5, IInvTypeOK DEF TypeOK, Identity
  <2>7. QED
    BY <2>1, <2>2, <2>3, <2>5, <2>6
<1>2. \A e \in Emails : Accounted(e, db) => Accounted(e, t)
  BY <1>1 DEF Accounted
<1>3. QED
  BY <1>2 DEF KeepsLeaks

\* Rows that no write touches.
LEMMA SparedRows ==
    ASSUME NEW ws
    PROVE  /\ Spares("findings", ws) =>
                \A k \in FindingKeys : RowsAfter(ws).findings[k] = findings[k]
           /\ Spares("identities", ws) =>
                \A e \in Emails : RowsAfter(ws).identities[e] = identities[e]
           /\ Spares("surface", ws) =>
                \A s \in SurfaceKeys : RowsAfter(ws).surface[s] = surface[s]
<1>1. /\ \A k \in FindingKeys : RowsAfter(ws).findings[k] = Row("findings", k, ws)
      /\ \A e \in Emails : RowsAfter(ws).identities[e] = Row("identities", e, ws)
      /\ \A s \in SurfaceKeys : RowsAfter(ws).surface[s] = Row("surface", s, ws)
  BY DEF RowsAfter
<1>2. \A t : Spares(t, ws) => \A k : Row(t, k, ws) = db[t][k]
  BY SparedRow DEF Spares
<1>3. QED
  BY <1>1, <1>2 DEF findings, identities, surface

LEMMA SparedAdds ==
    ASSUME NEW ws, Spares("findings", ws)
    PROVE  AddsOK(ws)
<1>1. {k \in FindingKeys : \E w \in ws : Adds(w, k)} = {}
  BY DEF Spares, Adds
<1>2. \A s, w : w \in ws => ~Adds(w, SurfaceKey(s))
  BY DEF Spares, Adds
<1>3. QED
  BY <1>1, <1>2, FS_EmptySet DEF AddsOK

\* Writes that leave the findings and the dossiers alone.
LEMMA SurfaceOnly ==
    ASSUME IInv, KInv, NEW ws, Spares("findings", ws), Spares("identities", ws),
           OncePerRow(ws) /\ ~Raises(ws, References) =>
             \A s \in SurfaceKeys : LinkKept(surface[s], RowsAfter(ws).surface[s])
    PROVE  AddsOK(ws) /\ Judged(ws)
<1>1. SUFFICES ASSUME OncePerRow(ws), ~Raises(ws, References), NEW t, t = RowsAfter(ws)
               PROVE  KeepsSightings(t) /\ KeepsLinks(t) /\ KeepsLeaks(t)
  BY SparedAdds DEF Judged
<1>2. /\ \A k \in FindingKeys : t.findings[k] = findings[k]
      /\ \A e \in Emails : t.identities[e] = identities[e]
      /\ \A s \in SurfaceKeys : LinkKept(surface[s], t.surface[s])
  BY <1>1, SparedRows
<1>3. KeepsSightings(t)
  BY <1>2, SightingsGentle DEF IInv
<1>4. KeepsLinks(t)
  BY <1>2, LinksGentle DEF FindingKeys
<1>5. KeepsLeaks(t)
  BY <1>2, LeaksGentle
<1>6. QED
  BY <1>3, <1>4, <1>5

LEMMA RequestK ==
    ASSUME IInv, KInv, NEW r \in Slots, NEW op, NEW on, NEW ws,
           Request(r, op, on, ws), AddsOK(ws) /\ Judged(ws)
    PROVE  KInv'
  BY BeginK DEF Request

LEMMA AssetK ==
    ASSUME IInv, KInv, NEW r \in Slots, AssetRequest(r)
    PROVE  KInv'
<1>1. PICK op, w, k : w.at = <<"assets", k>> /\ Request(r, op, NoRow, {w})
  BY AssetRequests DEF AssetWrite
<1>2. Spares("findings", {w}) /\ Spares("identities", {w}) /\ Spares("surface", {w})
  BY <1>1 DEF Spares
<1>3. \A s \in SurfaceKeys : LinkKept(surface[s], RowsAfter({w}).surface[s])
  BY <1>2, SparedRows DEF LinkKept
<1>4. QED
  BY <1>1, <1>2, <1>3, SurfaceOnly, RequestK

-----------------------------------------------------------------------------
(***************************************************************************)
(* The dossiers of a session follow its findings.                          *)
(***************************************************************************)
LeaksOK(s) ==
    /\ \A x \in SurfaceKeys : s.findings[SurfaceKey(x)] = findings[SurfaceKey(x)]
    /\ \A e \in Emails : Accounted(e, db) => Accounted(e, s)

LEMMA StartLeaks == LeaksOK(Session)
<1>1. PICK s : s = Session
  OBVIOUS
<1>2. s.findings = db.findings /\ s.identities = db.identities
  BY <1>1 DEF Session, findings, identities
<1>3. QED
  BY <1>1, <1>2 DEF LeaksOK, Accounted, findings

LEMMA LiveFinite ==
    ASSUME KInv, NEW s, IsFiniteSet(NewKeys(s)), NEW e
    PROVE  IsFiniteSet(Live(e, s.findings))
<1>1. Live(e, s.findings) \subseteq Present \cup NewKeys(s)
  BY DEF Live, Credentials, Present, NewKeys
<1>2. IsFiniteSet(Present \cup NewKeys(s))
  BY FS_Union DEF KInv
<1>3. QED
  BY <1>1, <1>2, FS_Subset

\* One more record of a leaked password: the dossier counts a finding the
\* session does not see, and knows the password.
LEMMA CountedLeak ==
    ASSUME NEW s, NEW u, NEW e, NEW k, Accounted(e, s),
           IsFiniteSet(Live(e, s.findings)),
           Live(e, u.findings) = Live(e, s.findings) \cup {k},
           NEW ci, ci.leak_count \in Nat,
           s.identities[e] # NoRow => ci = s.identities[e],
           NEW row, row # NoRow, u.identities[e] = row,
           \/ k \in Live(e, s.findings) /\ row.leak_count = ci.leak_count
           \/ row.leak_count = ci.leak_count + 1,
           row.passwords = IF k[3] = NoRow THEN ci.passwords
                           ELSE ci.passwords \cup {k[3]}
    PROVE  Accounted(e, u)
<1>1. PICK now, then : now = Live(e, s.findings) /\ then = now \cup {k}
  OBVIOUS
<1>2. /\ Cardinality(now) \in Nat
      /\ Cardinality(then) = IF k \in now THEN Cardinality(now) ELSE Cardinality(now) + 1
  BY <1>1, FS_CardinalityType, FS_AddElement
<1>3. CASE now = {}
  <2>1. Cardinality(now) = 0 /\ k \notin now
    BY <1>3, FS_EmptySet
  <2>2. row.leak_count >= Cardinality(then)
    BY <1>1, <1>2, <2>1
  <2>3. \A j \in then : j[3] # NoRow => j[3] \in row.passwords
    BY <1>1, <1>3
  <2>4. QED
    BY <1>1, <2>2, <2>3 DEF Accounted
<1>4. CASE now # {}
  <2>1. /\ ci = s.identities[e] /\ ci.leak_count >= Cardinality(now)
        /\ \A j \in now : j[3] # NoRow => j[3] \in ci.passwords
    BY <1>1, <1>4 DEF Accounted
  <2>2. row.leak_count >= Cardinality(then)
    BY <1>1, <1>2, <2>1
  <2>3. \A j \in then : j[3] # NoRow => j[3] \in row.passwords
    BY <1>1, <2>1
  <2>4. QED
    BY <1>1, <2>2, <2>3 DEF Accounted
<1>5. QED
  BY <1>3, <1>4

LEMMA PersistLeaks ==
    ASSUME IInv, KInv, NEW n \in Ids, NEW ingest \in Ids \cup {NoRow}, NEW s,
           SessionOK(s, n, ingest), IsFiniteSet(NewKeys(s)), LeaksOK(s),
           NEW rec \in Records, NEW asset \in Ids \cup {NoRow}, NEW doubt \in 0..10
    PROVE  LeaksOK(persist_record(s, rec, n, asset, ingest, doubt))
<1>1. PICK k, f : k = dedup_key(rec) /\ f = FindingOf(s, rec, n, asset, ingest, doubt)
  OBVIOUS
<1>2. PICK t : t = Recorded(s, k, f)
  OBVIOUS
<1>3. k \in FindingKeys /\ OneMore(s, k, f, n, ingest) /\ TablesOK
  BY <1>1, OneMoreRow DEF IInv
<1>4. Records1(s, t, k, f)
  BY <1>2, RecordedFields DEF SessionOK
<1>5. f # NoRow /\ SessionOK(t, n, ingest)
  BY <1>3, <1>4, RowNotNull, RecordedOK DEF OneMore, TableNames
<1>6. /\ k[1] = rec.type /\ k[2] = rec.email /\ k[3] = rec.what
      /\ rec.type \in {"credential_exposure", "identity_exposure"}
      /\ rec.email \in Emails
  BY <1>1, InputsAssumption DEF dedup_key
<1>7. /\ t.findings[k] = f
      /\ \A j \in FindingKeys : j # k => t.findings[j] = s.findings[j]
      /\ t.identities = s.identities
  BY <1>3, <1>4 DEF Records1, SessionOK
<1>8. \A x \in SurfaceKeys : t.findings[SurfaceKey(x)] = findings[SurfaceKey(x)]
  <2>1. \A x \in SurfaceKeys : SurfaceKey(x) \in FindingKeys /\ SurfaceKey(x) # k
    BY <1>6 DEF SurfaceKey, FindingKeys
  <2>2. QED
    BY <1>7, <2>1 DEF LeaksOK
<1>9. PICK e : e = rec.email
  OBVIOUS
<1>10. \A x \in Emails : rec.type # "credential_exposure" \/ x # e
         => Live(x, t.findings) = Live(x, s.findings)
  BY <1>6, <1>7, <1>9 DEF Live, Credentials
<1>11. ASSUME NEW x \in Emails, Accounted(x, db)
       PROVE  Accounted(x, s)
  BY <1>11 DEF LeaksOK
<1>12. CASE rec.type # "credential_exposure"
  <2>1. \A x \in Emails : Accounted(x, db) => Accounted(x, t)
    BY <1>7, <1>10, <1>11, <1>12 DEF Accounted
  <2>2. persist_record(s, rec, n, asset, ingest, doubt) = t
    BY <1>1, <1>2, <1>12, PersistParts, Zenon
  <2>3. QED
    BY <1>8, <2>1, <2>2 DEF LeaksOK
<1>13. CASE rec.type = "credential_exposure"
  <2>1. PICK u : u = update_identity(t, rec, f, ~Seen(s, k), n)
    OBVIOUS
  <2>2. persist_record(s, rec, n, asset, ingest, doubt) = u
    BY <1>1, <1>2, <1>13, <2>1, PersistParts, Zenon
  <2>3. PICK ci : ci = DossierBefore(t, e, n)
    OBVIOUS
  <2>4. PICK row : row = Dossier(ci, rec, f, ~Seen(s, k), LinkOf(ci, e))
    OBVIOUS
  <2>5. Typed("identities", ci) /\ LinkOf(ci, e) \in Ids \cup {NoRow}
    BY <1>5, <1>6, <1>9, <2>3, BeforeRow
  <2>6. Dossiered(row, ci, rec, ~Seen(s, k), LinkOf(ci, e))
    BY <1>3, <2>4, <2>5, DossierRow DEF OneMore
  <2>7. Follows(t, u, e, ci, row)
    BY <1>5, <1>9, <2>1, <2>3, <2>4, FollowedFields DEF SessionOK
  <2>8. /\ u.findings = t.findings /\ u.identities[e] = row
        /\ \A x \in Emails : x # e => u.identities[x] = s.identities[x]
    BY <1>5, <1>6, <1>7, <1>9, <2>7 DEF Follows, SessionOK
  <2>9. ASSUME Accounted(e, s)
        PROVE  Accounted(e, u)
    <3>1. Live(e, u.findings) = Live(e, s.findings) \cup {k}
      BY <1>3, <1>5, <1>6, <1>7, <1>9, <1>13, <2>8 DEF Live, Credentials
    <3>2. IsFiniteSet(Live(e, s.findings))
      BY LiveFinite
    <3>3. ci.leak_count \in Nat
      BY <2>5, TypedRow DEF Identity
    <3>4. s.identities[e] # NoRow => ci = s.identities[e]
      BY <1>7, <2>3 DEF DossierBefore
    <3>5. row # NoRow
      BY <2>6, RowNotNull DEF Dossiered, TableNames
    <3>6. \/ k \in Live(e, s.findings) /\ row.leak_count = ci.leak_count
          \/ row.leak_count = ci.leak_count + 1
      <4>1. Seen(s, k) => k \in Live(e, s.findings)
        BY <1>3, <1>6, <1>9, <1>13 DEF Seen, Live, Credentials
      <4>2. row.leak_count = IF ~Seen(s, k) THEN ci.leak_count + 1 ELSE ci.leak_count
        BY <2>6 DEF Dossiered
      <4>3. QED
        BY <4>1, <4>2
    <3>7. row.passwords = IF k[3] = NoRow THEN ci.passwords ELSE ci.passwords \cup {k[3]}
      BY <1>6, <2>6 DEF Dossiered
    <3>8. QED
      BY <2>8, <2>9, <3>1, <3>2, <3>3, <3>4, <3>5, <3>6, <3>7, CountedLeak
  <2>10. ASSUME NEW x \in Emails, Accounted(x, db)
         PROVE  Accounted(x, u)
    <3>1. CASE x = e
      BY <1>11, <2>9, <2>10, <3>1
    <3>2. CASE x # e
      <4>1. Live(x, u.findings) = Live(x, s.findings)
        BY <1>10, <2>8, <3>2
      <4>2. QED
        BY <1>11, <2>8, <2>10, <3>2, <4>1 DEF Accounted
    <3>3. QED
      BY <3>1, <3>2
  <2>11. QED
    BY <1>8, <2>2, <2>8, <2>10 DEF LeaksOK
<1>14. QED
  BY <1>12, <1>13

LEMMA LineLeaks ==
    ASSUME IInv, KInv, NEW n \in Ids, NEW s, SessionOK(s, n, n),
           IsFiniteSet(NewKeys(s)), LeaksOK(s), NEW line \in Records \cup {Bad}
    PROVE  LeaksOK(ImportLine(s, line, n))
<1>1. CASE line = Bad
  <2>1. PICK t : t = [s EXCEPT !.errors = @ + 1]
    OBVIOUS
  <2>2. t.findings = s.findings /\ t.identities = s.identities
    BY <2>1 DEF SessionOK, SessionFields
  <2>3. LeaksOK(t)
    BY <2>2 DEF LeaksOK, Accounted
  <2>4. QED
    BY <1>1, <2>1, <2>3 DEF ImportLine
<1>2. CASE line # Bad
  <2>1. NoRow \in Ids \cup {NoRow} /\ 10 \in 0..10 /\ n \in Ids \cup {NoRow}
    OBVIOUS
  <2>2. line \in Records
    BY <1>2
  <2>3. LeaksOK(persist_record(s, line, n, NoRow, n, 10))
    BY <2>1, <2>2, PersistLeaks
  <2>4. QED
    BY <1>2, <2>3 DEF ImportLine
<1>3. QED
  BY <1>1, <1>2

LEMMA ImportedLeaks ==
    ASSUME IInv, KInv, NEW n \in Ids, NEW file \in Files
    PROVE  LeaksOK(Imported(file, n))
<1>1. /\ Len(file) \in Nat
      /\ \A i \in 1..Len(file) : file[i] \in Records \cup {Bad}
  BY InputsAssumption
<1>2. PICK g : /\ Lines(g, file, n, Len(file))
               /\ Imported(file, n) = g[Len(file)]
  BY <1>1, ImportedLines
<1>3. PICK T : T = {i \in 0..Len(file) : ~LeaksOK(g[i])}
  OBVIOUS
<1>4. ASSUME T # {}
      PROVE  FALSE
  <2>1. T \subseteq Nat
    BY <1>1, <1>3
  <2>2. PICK i \in T : \A j \in T : i <= j
    BY <1>4, <2>1, Least
  <2>3. i \in 0..Len(file) /\ ~LeaksOK(g[i])
    BY <1>3, <2>2
  <2>4. g[i] = IF i = 0 THEN Session ELSE ImportLine(g[i - 1], file[i], n)
    BY <1>2, <2>3 DEF Lines
  <2>5. i # 0
    BY <2>3, <2>4, StartLeaks
  <2>6. PICK m \in Nat : i = m + 1
    BY <1>1, <2>3, <2>5
  <2>7. m \in 0..Len(file) /\ m \notin T
    BY <1>1, <2>2, <2>3, <2>6
  <2>8. LeaksOK(g[m]) /\ SessionOK(g[m], n, n) /\ Counted(g[m], m)
    BY <1>2, <1>3, <2>7, LinesCounted
  <2>9. file[i] \in Records \cup {Bad}
    BY <1>1, <2>3, <2>5
  <2>10. g[i] = ImportLine(g[m], file[i], n)
    BY <2>4, <2>5, <2>6
  <2>11. LeaksOK(g[i])
    BY <2>8, <2>9, <2>10, LineLeaks DEF Counted
  <2>12. QED
    BY <2>3, <2>11
<1>5. QED
  BY <1>1, <1>2, <1>3, <1>4

\* The flush of a session leaves the rows as the session sees them.
SessionSees(s, t) ==
    /\ \A k \in FindingKeys : t.findings[k] = s.findings[k]
    /\ \A e \in Emails : t.identities[e] = s.identities[e]
    /\ \A x \in SurfaceKeys : t.surface[x] = surface[x]

LEMMA SessionRows ==
    ASSUME IInv, NEW n, NEW ingest, NEW s, SessionOK(s, n, ingest),
           NEW ws, SessionWrites(s) \subseteq ws,
           \A w \in ws : w \in SessionWrites(s) \/ \E b : w.at = <<"batches", b>>,
           OncePerRow(ws), ~Raises(ws, References), NEW t, t = RowsAfter(ws)
    PROVE  SessionSees(s, t)
<1>1. \A w \in ws : w.how # "insert_twice"
  BY DEF Raises
<1>2. \A w \in ws : SessionWrite(w, s) \/ \E b : w.at = <<"batches", b>>
  BY <1>1, SessionWriteCases
<1>3. ASSUME NEW k \in FindingKeys
      PROVE  t.findings[k] = s.findings[k]
  <2>1. t.findings[k] = Row("findings", k, ws)
    BY DEF RowsAfter
  <2>2. CASE Insert("findings", k, s.findings[k]) \in ws
    BY <2>1, <2>2, InsertedRow
  <2>3. CASE /\ findings[k] # NoRow
             /\ Update("findings", k, findings[k], s.findings[k]) \in ws
    <3>1. findings[k] = db["findings"][k] /\ Typed("findings", findings[k])
      BY <2>3, RowsTyped DEF IInv
    <3>2. Typed("findings", s.findings[k])
      BY <2>3 DEF SessionOK, SessionFinding
    <3>3. QED
      BY <2>1, <2>3, <3>1, <3>2, ChangedRow
  <2>4. CASE \A w \in ws : w.at # <<"findings", k>>
    <3>1. t.findings[k] = findings[k]
      BY <2>1, <2>4, SparedRow DEF findings
    <3>2. ASSUME s.findings[k] # findings[k]
          PROVE  FALSE
      <4>1. PICK w : w = IF findings[k] = NoRow THEN Insert("findings", k, s.findings[k])
                         ELSE Update("findings", k, findings[k], s.findings[k])
        OBVIOUS
      <4>2. w \in Changed("findings", s.findings)
        BY <3>2, <4>1 DEF Changed, findings, SessionOK
      <4>3. w.at = <<"findings", k>>
        BY <4>1, Added, Updated
      <4>4. QED
        BY <2>4, <4>2, <4>3 DEF SessionWrites
    <3>3. QED
      BY <3>1, <3>2
  <2>5. QED
    <3>1. ASSUME NEW w \in ws, w.at = <<"findings", k>>
          PROVE  \/ Insert("findings", k, s.findings[k]) \in ws
                 \/ /\ findings[k] # NoRow
                    /\ Update("findings", k, findings[k], s.findings[k]) \in ws
      BY <1>2, <3>1 DEF SessionWrite
    <3>2. QED
      BY <2>2, <2>3, <2>4, <3>1
<1>4. ASSUME NEW e \in Emails
      PROVE  t.identities[e] = s.identities[e]
  <2>1. t.identities[e] = Row("identities", e, ws)
    BY DEF RowsAfter
  <2>2. CASE Insert("identities", e, s.identities[e]) \in ws
    BY <2>1, <2>2, InsertedRow
  <2>3. CASE /\ identities[e] # NoRow
             /\ Update("identities", e, identities[e], s.identities[e]) \in ws
    <3>1. identities[e] = db["identities"][e] /\ Typed("identities", identities[e])
      BY <2>3, RowsTyped DEF IInv
    <3>2. Typed("identities", s.identities[e])
      BY <2>3 DEF SessionOK, SessionIdentity
    <3>3. QED
      BY <2>1, <2>3, <3>1, <3>2, ChangedRow
  <2>4. CASE \A w \in ws : w.at # <<"identities", e>>
    <3>1. t.identities[e] = identities[e]
      BY <2>1, <2>4, SparedRow DEF identities
    <3>2. ASSUME s.identities[e] # identities[e]
          PROVE  FALSE
      <4>1. PICK w : w = IF identities[e] = NoRow THEN Insert("identities", e, s.identities[e])
                         ELSE Update("identities", e, identities[e], s.identities[e])
        OBVIOUS
      <4>2. w \in Changed("identities", s.identities)
        BY <3>2, <4>1 DEF Changed, identities, SessionOK
      <4>3. w.at = <<"identities", e>>
        BY <4>1, Added, Updated
      <4>4. QED
        BY <2>4, <4>2, <4>3 DEF SessionWrites
    <3>3. QED
      BY <3>1, <3>2
  <2>5. QED
    <3>1. ASSUME NEW w \in ws, w.at = <<"identities", e>>
          PROVE  \/ Insert("identities", e, s.identities[e]) \in ws
                 \/ /\ identities[e] # NoRow
                    /\ Update("identities", e, identities[e], s.identities[e]) \in ws
      BY <1>2, <3>1 DEF SessionWrite
    <3>2. QED
      BY <2>2, <2>3, <2>4, <3>1
<1>5. ASSUME NEW x \in SurfaceKeys
      PROVE  t.surface[x] = surface[x]
  <2>1. \A w \in ws : w.at # <<"surface", x>>
    BY <1>2 DEF SessionWrite
  <2>2. QED
    BY <2>1, SparedRow DEF RowsAfter, surface
<1>6. QED
  BY <1>3, <1>4, <1>5 DEF SessionSees

\* The writes of a session are what a request may do.
LEMMA SessionK ==
    ASSUME IInv, KInv, NEW n, NEW ingest, NEW s, SessionOK(s, n, ingest),
           IsFiniteSet(NewKeys(s)), LeaksOK(s), NEW ws, SessionWrites(s) \subseteq ws,
           \A w \in ws : w \in SessionWrites(s) \/ \E b : w.at = <<"batches", b>>
    PROVE  AddsOK(ws) /\ Judged(ws)
<1>1. ASSUME NEW k \in FindingKeys, NEW w \in ws, Adds(w, k)
      PROVE  k \in NewKeys(s)
  <2>1. w \in SessionWrites(s) /\ w.at = <<"findings", k>> /\ w.how = "insert"
    BY <1>1 DEF Adds
  <2>2. QED
    BY <2>1, SessionFindingWrite
<1>2. AddsOK(ws)
  <2>1. PICK new : new = {k \in FindingKeys : \E w \in ws : Adds(w, k)}
    OBVIOUS
  <2>2. new \subseteq NewKeys(s)
    BY <1>1, <2>1
  <2>3. IsFiniteSet(new)
    BY <2>2, FS_Subset
  <2>4. ASSUME NEW x \in SurfaceKeys, NEW w \in ws, Adds(w, SurfaceKey(x))
        PROVE  FALSE
    <3>1. SurfaceKey(x) \in NewKeys(s)
      BY <1>1, <2>4 DEF FindingKeys
    <3>2. QED
      BY <3>1 DEF NewKeys, LeaksOK
  <2>5. QED
    BY <2>1, <2>3, <2>4 DEF AddsOK
<1>3. ASSUME OncePerRow(ws), ~Raises(ws, References), NEW t, t = RowsAfter(ws)
      PROVE  KeepsSightings(t) /\ KeepsLinks(t) /\ KeepsLeaks(t)
  <2>1. SessionSees(s, t)
    BY <1>3, SessionRows
  <2>2. KeepsSightings(t)
    <3>1. \A k \in FindingKeys : findings[k] # NoRow =>
            s.findings[k].detail.sightings >= findings[k].detail.sightings
      BY DEF SessionOK, SessionFinding
    <3>2. QED
      BY <2>1, <3>1, SightingsGentle DEF SessionSees, IInv
  <2>3. KeepsLinks(t)
    <3>1. \A x \in SurfaceKeys : t.findings[SurfaceKey(x)] = findings[SurfaceKey(x)]
      BY <2>1 DEF SessionSees, LeaksOK, FindingKeys
    <3>2. \A x \in SurfaceKeys : LinkKept(surface[x], t.surface[x])
      BY <2>1 DEF SessionSees, LinkKept
    <3>3. QED
      BY <3>1, <3>2, LinksGentle
  <2>4. KeepsLeaks(t)
    <3>1. \A e : Live(e, t.findings) = Live(e, s.findings)
      BY <2>1 DEF SessionSees, Live, Credentials
    <3>2. \A e \in Emails : Accounted(e, s) => Accounted(e, t)
      BY <2>1, <3>1 DEF SessionSees, Accounted
    <3>3. QED
      BY <3>2 DEF KeepsLeaks, LeaksOK
  <2>5. QED
    BY <2>2, <2>3, <2>4
<1>4. QED
  BY <1>2, <1>3 DEF Judged

\* A finding that stays keeps its sightings, and one that goes was of a batch.
FindingKept(old, row) ==
    /\ row # NoRow => old # NoRow
    /\ old # NoRow /\ row = NoRow => old.ingest # NoRow
    /\ old # NoRow /\ row # NoRow =>
         row = old \/ row.detail.sightings >= old.detail.sightings

\* Writes of findings that add none.
LEMMA FindingsOnly ==
    ASSUME IInv, KInv, NEW ws, Spares("identities", ws), Spares("surface", ws),
           \A k, w : w \in ws => ~Adds(w, k),
           OncePerRow(ws) /\ ~Raises(ws, References) =>
             \A k \in FindingKeys : FindingKept(findings[k], RowsAfter(ws).findings[k])
    PROVE  AddsOK(ws) /\ Judged(ws)
<1>1. AddsOK(ws)
  <2>1. {k \in FindingKeys : \E w \in ws : Adds(w, k)} = {}
    OBVIOUS
  <2>2. QED
    BY <2>1, FS_EmptySet DEF AddsOK
<1>2. SUFFICES ASSUME OncePerRow(ws), ~Raises(ws, References), NEW t, t = RowsAfter(ws)
               PROVE  KeepsSightings(t) /\ KeepsLinks(t) /\ KeepsLeaks(t)
  BY <1>1 DEF Judged
<1>3. /\ \A k \in FindingKeys : FindingKept(findings[k], t.findings[k])
      /\ \A e \in Emails : t.identities[e] = identities[e]
      /\ \A s \in SurfaceKeys : t.surface[s] = surface[s]
  BY <1>2, SparedRows
<1>4. KeepsSightings(t)
  BY <1>3, SightingsGentle DEF FindingKept, IInv
<1>5. KeepsLinks(t)
  <2>1. \A s \in SurfaceKeys :
          /\ SurfaceKey(s) \in FindingKeys
          /\ findings[SurfaceKey(s)] # NoRow => findings[SurfaceKey(s)].ingest = NoRow
    BY DEF KInv, FindingKeys
  <2>2. \A s \in SurfaceKeys : LinkKept(surface[s], t.surface[s])
    BY <1>3 DEF LinkKept
  <2>3. QED
    BY <1>3, <2>1, <2>2, LinksGentle DEF FindingKept
<1>6. KeepsLeaks(t)
  BY <1>3, LeaksGentle DEF FindingKept
<1>7. QED
  BY <1>4, <1>5, <1>6

LEMMA RollbackK ==
    ASSUME IInv, KInv, NEW b \in Ids, NEW w, w.at = <<"batches", b>>, NEW ws,
           ws = {w} \cup {Delete("findings", k, findings[k]) : k \in FindingsOf(b)}
    PROVE  AddsOK(ws) /\ Judged(ws)
<1>1. \A v \in ws : \/ v = w
                    \/ \E k \in FindingsOf(b) : v.at = <<"findings", k>> /\ v.how = "delete"
  BY Removed
<1>2. Spares("identities", ws) /\ Spares("surface", ws)
  BY <1>1 DEF Spares
<1>3. \A k, v : v \in ws => ~Adds(v, k)
  BY <1>1 DEF Adds
<1>4. ASSUME NEW k \in FindingKeys
      PROVE  FindingKept(findings[k], RowsAfter(ws).findings[k])
  <2>1. PICK row, old : row = Row("findings", k, ws) /\ old = findings[k]
    OBVIOUS
  <2>2. RowsAfter(ws).findings[k] = row
    BY <2>1 DEF RowsAfter
  <2>3. CASE k \in FindingsOf(b)
    <3>1. old # NoRow /\ old.ingest # NoRow
      BY <2>1, <2>3, NullAssumption DEF FindingsOf
    <3>2. Outcome(row, old, ws, <<"findings", k>>)
      BY <2>1, RowCases DEF findings
    <3>3. \A v \in ws : v.at = <<"findings", k>> => v.how = "delete"
      BY <1>1
    <3>4. row \in {old, NoRow}
      BY <3>2, <3>3 DEF Outcome
    <3>5. QED
      BY <2>1, <2>2, <3>1, <3>4 DEF FindingKept
  <2>4. CASE k \notin FindingsOf(b)
    <3>1. \A v \in ws : v.at # <<"findings", k>>
      BY <1>1, <2>4
    <3>2. row = old
      BY <2>1, <3>1, SparedRow DEF findings
    <3>3. QED
      BY <2>1, <2>2, <3>2 DEF FindingKept
  <2>5. QED
    BY <2>3, <2>4
<1>5. QED
  BY <1>2, <1>3, <1>4, FindingsOnly

LEMMA TriageK ==
    ASSUME IInv, KInv, NEW k \in FindingKeys, findings[k] # NoRow,
           NEW body \in Triages, NEW w,
           w = Update("findings", k, findings[k], Triaged(k, findings[k], body))
    PROVE  AddsOK({w}) /\ Judged({w})
<1>1. PICK old, f, g :
        /\ old = findings[k]
        /\ f = [old EXCEPT !.status = body.status, !.doubt = body.doubt]
        /\ g = Triaged(k, old, body)
  OBVIOUS
<1>2. old \in Finding /\ Typed("findings", old) /\ old = db["findings"][k]
  BY <1>1, RowsTyped, TypedRow DEF IInv
<1>3. f \in Finding /\ f.detail = old.detail
  <2>1. body.status \in DOMAIN VERIFY_INTENSITY /\ body.doubt \in 0..10
    BY InputsAssumption
  <2>2. f.detail = old.detail
    BY <1>1, <1>2 DEF Finding
  <2>3. f \in Finding
    BY <1>1, <1>2, <2>1 DEF Finding
  <2>4. QED
    BY <2>2, <2>3
<1>4. g = apply_risk(k, f)
  BY <1>1 DEF Triaged
<1>5. Typed("findings", g) /\ g.detail.sightings = old.detail.sightings
  BY <1>3, <1>4, Scored, TypedRow DEF Rescored, IInv
<1>6. g # NoRow /\ old.detail.sightings \in Nat
  BY <1>2, <1>5, RowNotNull DEF Finding, TableNames
<1>7. w.at = <<"findings", k>> /\ w.how = "update"
  BY Updated
<1>8. Spares("identities", {w}) /\ Spares("surface", {w})
  BY <1>7 DEF Spares
<1>9. ASSUME OncePerRow({w}), ~Raises({w}, References), NEW j \in FindingKeys
      PROVE  FindingKept(findings[j], RowsAfter({w}).findings[j])
  <2>1. PICK row : row = Row("findings", j, {w})
    OBVIOUS
  <2>2. RowsAfter({w}).findings[j] = row
    BY <2>1 DEF RowsAfter
  <2>3. CASE j = k
    <3>1. Update("findings", k, old, g) \in {w}
      BY <1>1
    <3>2. Row("findings", k, {w}) = g
      BY <1>2, <1>5, <1>9, <3>1, ChangedRow
    <3>3. QED
      BY <1>1, <1>5, <1>6, <2>1, <2>2, <2>3, <3>2 DEF FindingKept
  <2>4. CASE j # k
    <3>1. row = findings[j]
      BY <1>7, <2>1, <2>4, SparedRow DEF findings
    <3>2. QED
      BY <2>2, <3>1 DEF FindingKept
  <2>5. QED
    BY <2>3, <2>4
<1>10. \A j, v : v \in {w} => ~Adds(v, j)
  BY <1>7 DEF Adds
<1>11. QED
  BY <1>8, <1>9, <1>10, FindingsOnly

LEMMA TriageIdentityK ==
    ASSUME IInv, KInv, NEW e \in Emails, identities[e] # NoRow, NEW row,
           row = [identities[e] EXCEPT !.status = "closed"],
           NEW w, w = Update("identities", e, identities[e], row)
    PROVE  AddsOK({w}) /\ Judged({w})
<1>1. PICK old : old = identities[e]
  OBVIOUS
<1>2. old \in Identity /\ Typed("identities", old) /\ old = db["identities"][e]
  BY <1>1, RowsTyped, TypedRow DEF IInv
<1>3. /\ row \in Identity /\ row.leak_count = old.leak_count
      /\ row.passwords = old.passwords
  BY <1>1, <1>2 DEF Identity
<1>4. Typed("identities", row) /\ row # NoRow
  BY <1>3, TypedRow, RowNotNull DEF TableNames
<1>5. w.at = <<"identities", e>>
  BY Updated
<1>6. Spares("findings", {w}) /\ Spares("surface", {w})
  BY <1>5 DEF Spares
<1>7. SUFFICES ASSUME OncePerRow({w}), ~Raises({w}, References),
                      NEW t, t = RowsAfter({w})
               PROVE  KeepsSightings(t) /\ KeepsLinks(t) /\ KeepsLeaks(t)
  BY <1>6, SparedAdds DEF Judged
<1>8. /\ \A k \in FindingKeys : t.findings[k] = findings[k]
      /\ \A s \in SurfaceKeys : t.surface[s] = surface[s]
  BY <1>6, <1>7, SparedRows
<1>9. ASSUME NEW x \in Emails, identities[x] # NoRow
      PROVE  /\ t.identities[x] # NoRow
             /\ t.identities[x].leak_count = identities[x].leak_count
             /\ t.identities[x].passwords = identities[x].passwords
  <2>1. t.identities[x] = Row("identities", x, {w})
    BY <1>7 DEF RowsAfter
  <2>2. CASE x = e
    <3>1. Update("identities", e, old, row) \in {w}
      BY <1>1
    <3>2. Row("identities", e, {w}) = row
      BY <1>2, <1>4, <1>7, <3>1, ChangedRow
    <3>3. QED
      BY <1>1, <1>3, <1>4, <2>1, <2>2, <3>2
  <2>3. CASE x # e
    <3>1. Row("identities", x, {w}) = identities[x]
      BY <1>5, <2>3, SparedRow DEF identities
    <3>2. QED
      BY <1>9, <2>1, <3>1
  <2>4. QED
    BY <2>2, <2>3
<1>10. KeepsSightings(t)
  BY <1>8, SightingsGentle DEF IInv
<1>11. KeepsLinks(t)
  BY <1>8, LinksGentle DEF LinkKept, FindingKeys
<1>12. KeepsLeaks(t)
  BY <1>8, <1>9, LeaksGentle
<1>13. QED
  BY <1>10, <1>11, <1>12

\* w adds the asset x, or writes it, with the finding it named before.
AssetKept(w, x) ==
    /\ w.at = <<"surface", x>>
    /\ IF surface[x] = NoRow
       THEN \E row : w = Insert("surface", x, row) /\ row.detail.finding = NoRow
       ELSE \E row \in Surface : /\ w = Update("surface", x, surface[x], row)
                                 /\ row.detail.finding = surface[x].detail.finding

LEMMA AssetsKept ==
    ASSUME IInv, KInv, NEW ws, \A w \in ws : \E x \in SurfaceKeys : AssetKept(w, x)
    PROVE  AddsOK(ws) /\ Judged(ws)
<1>1. \A w \in ws : \E x \in SurfaceKeys : w.at = <<"surface", x>>
  BY DEF AssetKept
<1>2. Spares("findings", ws) /\ Spares("identities", ws)
  BY <1>1 DEF Spares
<1>3. ASSUME OncePerRow(ws), ~Raises(ws, References), NEW s \in SurfaceKeys
      PROVE  LinkKept(surface[s], RowsAfter(ws).surface[s])
  <2>1. RowsAfter(ws).surface[s] = Row("surface", s, ws)
    BY DEF RowsAfter
  <2>2. surface[s] # NoRow =>
          Typed("surface", surface[s]) /\ surface[s] = db["surface"][s]
    BY RowsTyped DEF IInv
  <2>3. CASE \E w \in ws : w.at = <<"surface", s>>
    <3>1. PICK w \in ws : w.at = <<"surface", s>>
      BY <2>3
    <3>2. AssetKept(w, s)
      BY <3>1 DEF AssetKept
    <3>3. CASE surface[s] = NoRow
      <4>1. PICK row : w = Insert("surface", s, row) /\ row.detail.finding = NoRow
        BY <3>2, <3>3 DEF AssetKept
      <4>2. Row("surface", s, ws) = row
        BY <1>3, <3>1, <4>1, InsertedRow
      <4>3. QED
        BY <2>1, <3>3, <4>1, <4>2 DEF LinkKept
    <3>4. CASE surface[s] # NoRow
      <4>1. PICK row \in Surface :
              /\ w = Update("surface", s, surface[s], row)
              /\ row.detail.finding = surface[s].detail.finding
        BY <3>2, <3>4 DEF AssetKept
      <4>2. Typed("surface", row) /\ row # NoRow
        BY TypedRow, RowNotNull DEF TableNames
      <4>3. Row("surface", s, ws) = row
        BY <1>3, <2>2, <3>1, <3>4, <4>1, <4>2, ChangedRow
      <4>4. QED
        BY <2>1, <3>4, <4>1, <4>2, <4>3 DEF LinkKept
    <3>5. QED
      BY <3>3, <3>4
  <2>4. CASE \A w \in ws : w.at # <<"surface", s>>
    <3>1. Row("surface", s, ws) = surface[s]
      BY <2>4, SparedRow DEF surface
    <3>2. QED
      BY <2>1, <3>1 DEF LinkKept
  <2>5. QED
    BY <2>3, <2>4
<1>4. QED
  BY <1>2, <1>3, SurfaceOnly

\* A promotion leaves the asset and its finding naming each other.
LEMMA PromoteK ==
    ASSUME IInv, KInv, NEW s \in SurfaceKeys, surface[s] # NoRow, NEW k,
           k = SurfaceKey(s), NEW row, row = Promoted(s, findings[k]),
           NEW f, f # NoRow, f.ingest = NoRow, NEW w, NEW v, NEW ws,
           w = Update("surface", s, surface[s], row), v = Insert("findings", k, f),
           ws = {w} \cup (IF findings[k] # NoRow THEN {} ELSE {v})
    PROVE  AddsOK(ws) /\ Judged(ws)
<1>1. k \in FindingKeys /\ k[1] = "infrastructure_exposure"
  BY DEF FindingKeys, SurfaceKey
<1>2. /\ surface[s] \in Surface /\ Typed("surface", surface[s])
      /\ surface[s] = db["surface"][s]
  BY RowsTyped, TypedRow DEF IInv
<1>3. Typed("surface", row) /\ row # NoRow /\ row.detail.finding = k
  BY <1>2, PromotedRow, TypedRow, RowNotNull DEF TableNames
<1>4. /\ w.at = <<"surface", s>>
      /\ v.at = <<"findings", k>> /\ v.how = "insert" /\ v.set = f
  BY Added, Updated
<1>5. AddsOK(ws)
  <2>1. \A j : \A u \in ws : Adds(u, j) => j = k /\ u = v
    BY <1>4 DEF Adds
  <2>2. PICK new : new = {j \in FindingKeys : \E u \in ws : Adds(u, j)}
    OBVIOUS
  <2>3. new \subseteq {k}
    BY <2>1, <2>2
  <2>4. IsFiniteSet(new)
    BY <2>3, FS_Singleton, FS_Subset
  <2>5. QED
    BY <1>4, <2>1, <2>2, <2>4 DEF AddsOK
<1>6. SUFFICES ASSUME OncePerRow(ws), ~Raises(ws, References), NEW t, t = RowsAfter(ws)
               PROVE  KeepsSightings(t) /\ KeepsLinks(t) /\ KeepsLeaks(t)
  BY <1>5 DEF Judged
<1>7. \A j \in FindingKeys :
        t.findings[j] = IF j = k /\ findings[k] = NoRow THEN f ELSE findings[j]
  <2>1. ASSUME NEW j \in FindingKeys
        PROVE  t.findings[j] = IF j = k /\ findings[k] = NoRow THEN f ELSE findings[j]
    <3>1. t.findings[j] = Row("findings", j, ws)
      BY <1>6 DEF RowsAfter
    <3>2. CASE j = k /\ findings[k] = NoRow
      <4>1. Insert("findings", k, f) \in ws
        BY <3>2
      <4>2. Row("findings", k, ws) = f
        BY <1>6, <4>1, InsertedRow
      <4>3. QED
        BY <3>1, <3>2, <4>2
    <3>3. CASE ~(j = k /\ findings[k] = NoRow)
      <4>1. \A u \in ws : u.at # <<"findings", j>>
        BY <1>4, <3>3
      <4>2. QED
        BY <3>1, <3>3, <4>1, SparedRow DEF findings
    <3>4. QED
      BY <3>2, <3>3
  <2>2. QED
    BY <2>1
<1>8. t.surface[s] = row
  <2>1. Row("surface", s, ws) = row
    BY <1>2, <1>3, <1>6, ChangedRow
  <2>2. QED
    BY <1>6, <2>1 DEF RowsAfter
<1>9. \A x \in SurfaceKeys : x # s => t.surface[x] = surface[x]
  <2>1. ASSUME NEW x \in SurfaceKeys, x # s
        PROVE  Row("surface", x, ws) = surface[x]
    <3>1. \A u \in ws : u.at # <<"surface", x>>
      BY <1>4, <2>1
    <3>2. QED
      BY <3>1, SparedRow DEF surface
  <2>2. QED
    BY <1>6, <2>1 DEF RowsAfter
<1>10. \A e \in Emails : t.identities[e] = identities[e]
  <2>1. Spares("identities", ws)
    BY <1>4 DEF Spares
  <2>2. QED
    BY <1>6, <2>1, SparedRows
<1>11. KeepsSightings(t)
  BY <1>7, SightingsGentle DEF IInv
<1>12. KeepsLinks(t)
  <2>1. ASSUME NEW x \in SurfaceKeys, Linked(x, db)
        PROVE  Linked(x, t)
    <3>1. CASE x = s
      BY <1>1, <1>3, <1>7, <1>8, <3>1 DEF Linked
    <3>2. CASE x # s
      <4>1. SurfaceKey(x) \in FindingKeys /\ SurfaceKey(x) # k
        BY <3>2 DEF SurfaceKey, FindingKeys
      <4>2. t.findings[SurfaceKey(x)] = findings[SurfaceKey(x)]
        BY <1>7, <4>1
      <4>3. QED
        BY <1>9, <2>1, <3>2, <4>2 DEF Linked, findings, surface
    <3>3. QED
      BY <3>1, <3>2
  <2>2. QED
    BY <2>1 DEF KeepsLinks
<1>13. KeepsLeaks(t)
  BY <1>1, <1>7, <1>10, LeaksGentle
<1>14. QED
  BY <1>11, <1>12, <1>13

LEMMA FindingK ==
    ASSUME IInv, JInv, KInv, NEW r \in Slots, Free(r), FindingRequest(r)
    PROVE  KInv'
<1>1. TablesOK /\ Number \in Ids
  BY NumberId DEF IInv
<1>2. ASSUME NEW rec \in Records, NEW asset \in Ids \cup {NoRow},
             intake_finding(r, rec, asset)
      PROVE  KInv'
  <2>1. PICK s : s = persist_record(Session, rec, Number, asset, NoRow, 4)
    OBVIOUS
  <2>2. NoRow \in Ids \cup {NoRow} /\ 4 \in 0..10 /\ 0 \in Nat
    OBVIOUS
  <2>3. SessionOK(Session, Number, NoRow) /\ Counted(Session, 0) /\ LeaksOK(Session)
    BY SessionStarts, StartCounted, StartLeaks
  <2>4. SessionOK(s, Number, NoRow)
    BY <1>1, <2>1, <2>2, <2>3, PersistOK
  <2>5. Counted(s, 0 + 1)
    BY <1>1, <2>1, <2>2, <2>3, PersistCounted
  <2>6. LeaksOK(s)
    BY <1>1, <2>1, <2>2, <2>3, PersistLeaks DEF Counted
  <2>7. AddsOK(SessionWrites(s)) /\ Judged(SessionWrites(s))
    BY <2>4, <2>5, <2>6, SessionK DEF Counted
  <2>8. /\ Begin(r, "intake", dedup_key(rec), SessionWrites(s), "answer")
        /\ UNCHANGED db
    BY <1>2, <2>1 DEF intake_finding
  <2>9. QED
    BY <2>7, <2>8, BeginK
<1>3. ASSUME NEW file \in Files, import_file(r, file)
      PROVE  KInv'
  <2>1. PICK n, s : n = Number /\ s = Imported(file, n)
    OBVIOUS
  <2>2. SessionOK(s, n, n) /\ Counted(s, Len(file)) /\ LeaksOK(s)
    BY <1>1, <2>1, ImportedCounted, ImportedLeaks
  <2>3. PICK batch :
          batch = [id |-> n, status |-> "completed", total |-> Len(file),
                   created |-> s.created, deduped |-> s.deduped,
                   errors |-> s.errors]
    OBVIOUS
  <2>4. PICK w : w = Insert("batches", n, batch)
    OBVIOUS
  <2>5. PICK ws : ws = {w} \cup SessionWrites(s)
    OBVIOUS
  <2>6. w.at = <<"batches", n>>
    BY <2>4, Added
  <2>7. AddsOK(ws) /\ Judged(ws)
    BY <2>2, <2>5, <2>6, SessionK DEF Counted
  <2>8. Begin(r, "import", NoRow, ws, "answer") /\ UNCHANGED db
    BY <1>3, <2>1, <2>3, <2>4, <2>5 DEF import_file
  <2>9. QED
    BY <2>7, <2>8, BeginK
<1>4. ASSUME NEW b \in Ids, rollback_ingest(r, b)
      PROVE  KInv'
  <2>1. PICK w : w = Update("batches", b, batches[b],
                            [batches[b] EXCEPT !.status = "rolled_back"])
    OBVIOUS
  <2>2. PICK ws :
          ws = {w} \cup {Delete("findings", k, findings[k]) : k \in FindingsOf(b)}
    OBVIOUS
  <2>3. w.at = <<"batches", b>>
    BY <2>1, Updated
  <2>4. Request(r, "import_rollback", b, ws)
    BY <1>4, <2>1, <2>2 DEF rollback_ingest, FindingsOf
  <2>5. QED
    BY <2>2, <2>3, <2>4, RollbackK, RequestK
<1>5. ASSUME NEW k \in FindingKeys, NEW body \in Triages, triage_finding(r, k, body)
      PROVE  KInv'
  <2>1. PICK w : w = Update("findings", k, findings[k], Triaged(k, findings[k], body))
    OBVIOUS
  <2>2. findings[k] # NoRow /\ Request(r, "triage", k, {w})
    BY <1>5, <2>1 DEF triage_finding
  <2>3. QED
    BY <2>1, <2>2, TriageK, RequestK
<1>6. ASSUME NEW e \in Emails, triage_identity(r, e, "closed")
      PROVE  KInv'
  <2>1. PICK row, w : /\ row = [identities[e] EXCEPT !.status = "closed"]
                      /\ w = Update("identities", e, identities[e], row)
    OBVIOUS
  <2>2. identities[e] # NoRow /\ Request(r, "identity_triage", NoRow, {w})
    BY <1>6, <2>1 DEF triage_identity
  <2>3. QED
    BY <2>1, <2>2, TriageIdentityK, RequestK
<1>7. QED
  BY <1>2, <1>3, <1>4, <1>5, <1>6 DEF FindingRequest

LEMMA SurfaceK ==
    ASSUME IInv, JInv, KInv, NEW r \in Slots, Free(r), SurfaceRequest(r)
    PROVE  KInv'
<1>1. TablesOK /\ Number \in Ids
  BY NumberId DEF IInv
<1>2. ASSUME NEW s \in SurfaceKeys, surface[s] # NoRow
      PROVE  surface[s] \in Surface
  BY <1>1, <1>2, RowsTyped, TypedRow
<1>3. ASSUME NEW s \in SurfaceKeys, surface[s] = NoRow, NEW found
      PROVE  AssetKept(Insert("surface", s, NewSurface(Number, found)), s)
  <2>1. PICK row : row = NewSurface(Number, found)
    OBVIOUS
  <2>2. row.detail.finding = NoRow
    BY <2>1 DEF NewSurface
  <2>3. QED
    BY <1>3, <2>1, <2>2, Added DEF AssetKept
<1>4. ASSUME NEW s \in SurfaceKeys, surface[s] # NoRow, NEW row \in Surface,
             row.detail.finding = surface[s].detail.finding
      PROVE  AssetKept(Update("surface", s, surface[s], row), s)
  BY <1>4, Updated DEF AssetKept
<1>5. ASSUME NEW items \in SUBSET SurfaceKeys, import_surface(r, items)
      PROVE  KInv'
  <2>1. PICK ws : ws = {Insert("surface", s, NewSurface(Number, NoRow)) :
                          s \in {s \in items : surface[s] = NoRow}}
    OBVIOUS
  <2>2. \A w \in ws : \E s \in SurfaceKeys : AssetKept(w, s)
    BY <1>3, <2>1
  <2>3. Request(r, "surface_import", NoRow, ws)
    BY <1>5, <2>1 DEF import_surface
  <2>4. QED
    BY <2>2, <2>3, AssetsKept, RequestK
<1>6. ASSUME NEW s \in SurfaceKeys, promote(r, s)
      PROVE  KInv'
  <2>1. PICK k : k = SurfaceKey(s)
    OBVIOUS
  <2>2. PICK row : row = Promoted(s, findings[k])
    OBVIOUS
  <2>3. PICK w : w = Update("surface", s, surface[s], row)
    OBVIOUS
  <2>4. PICK f : f = NewFinding(k, Number, NoRow, NoRow, 2, s)
    OBVIOUS
  <2>5. PICK v : v = Insert("findings", k, f)
    OBVIOUS
  <2>6. f # NoRow /\ f.ingest = NoRow
    <3>1. /\ NoRow \in Ids \cup {NoRow} /\ 2 \in 0..10 /\ s \in SurfaceKeys \cup {NoRow}
          /\ k \in FindingKeys
      BY <2>1 DEF FindingKeys
    <3>2. AddedRow(f, Number, NoRow)
      BY <1>1, <2>4, <3>1, NewFindingRow
    <3>3. QED
      BY <3>2, RowNotNull DEF AddedRow, TableNames
  <2>7. PICK ws : ws = {w} \cup (IF findings[k] # NoRow THEN {} ELSE {v})
    OBVIOUS
  <2>8. surface[s] # NoRow /\ Request(r, "surface_promote", s, ws)
    BY <1>6, <2>1, <2>2, <2>3, <2>4, <2>5, <2>7 DEF promote
  <2>9. AddsOK(ws) /\ Judged(ws)
    BY <2>1, <2>2, <2>3, <2>5, <2>6, <2>7, <2>8, PromoteK
  <2>10. QED
    BY <2>8, <2>9, RequestK
<1>7. ASSUME NEW s \in SurfaceKeys, triage_surface(r, s, "ignored")
      PROVE  KInv'
  <2>1. PICK row, w : /\ row = [surface[s] EXCEPT !.status = "ignored"]
                      /\ w = Update("surface", s, surface[s], row)
    OBVIOUS
  <2>2. surface[s] # NoRow /\ Request(r, "surface_triage", s, {w})
    BY <1>7, <2>1 DEF triage_surface
  <2>3. row \in Surface /\ row.detail.finding = surface[s].detail.finding
    BY <1>2, <2>1, <2>2 DEF Surface
  <2>4. \A u \in {w} : \E x \in SurfaceKeys : AssetKept(u, x)
    BY <1>4, <2>1, <2>2, <2>3
  <2>5. QED
    BY <2>2, <2>4, AssetsKept, RequestK
<1>8. ASSUME NEW some \in SUBSET SurfaceKeys, NEW found \in [some -> Lookups],
             discover(r, found)
      PROVE  KInv'
  <2>1. PICK ws : ws = {upsert(s, found[s]) : s \in DOMAIN found}
    OBVIOUS
  <2>2. ASSUME NEW s \in some
        PROVE  AssetKept(upsert(s, found[s]), s)
    <3>1. CASE surface[s] = NoRow
      BY <1>3, <3>1 DEF upsert
    <3>2. CASE surface[s] # NoRow
      <4>1. PICK row : row = [surface[s] EXCEPT !.detail.found = found[s]]
        OBVIOUS
      <4>2. row \in Surface /\ row.detail.finding = surface[s].detail.finding
        BY <1>2, <3>2, <4>1, LookedUpRow
      <4>3. QED
        BY <1>4, <3>2, <4>1, <4>2 DEF upsert
    <3>3. QED
      BY <3>1, <3>2
  <2>3. \A w \in ws : \E s \in SurfaceKeys : AssetKept(w, s)
    BY <2>1, <2>2
  <2>4. Request(r, "surface_discover", NoRow, ws)
    BY <1>8, <2>1 DEF discover
  <2>5. QED
    BY <2>3, <2>4, AssetsKept, RequestK
<1>9. QED
  BY <1>5, <1>6, <1>7, <1>8 DEF SurfaceRequest

LEMMA InitK == Init => KInv
<1> SUFFICES ASSUME Init
             PROVE  KInv
  OBVIOUS
<1>1. /\ db = Tables /\ slot = [r \in Slots |-> Idle]
  BY DEF Init, Start
<1>2. findings = [k \in FindingKeys |-> NoRow]
  BY <1>1 DEF Tables, findings
<1>3. \A r \in Slots : ~Busy(r)
  BY <1>1 DEF Busy, Idle
<1>4. IsFiniteSet(Present)
  BY <1>2, FS_EmptySet DEF Present
<1>5. \A s \in SurfaceKeys : findings[SurfaceKey(s)] = NoRow
  BY <1>2 DEF FindingKeys
<1>6. QED
  BY <1>3, <1>4, <1>5 DEF KInv

LEMMA NextK == IInv /\ JInv /\ KInv /\ [Next]_vars => KInv'
<1> SUFFICES ASSUME IInv, JInv, KInv, [Next]_vars
             PROVE  KInv'
  OBVIOUS
<1>1. ASSUME NEW r \in Slots, Refuse(r)
      PROVE  KInv'
  BY <1>1, EndsK DEF Refuse, CommitRaises, IInv
<1>2. ASSUME NEW e \in Emails, resend_vip_alert(e)
      PROVE  KInv'
  BY <1>2, EndsK DEF resend_vip_alert
<1>3. CASE Die
  BY <1>3, EndsK DEF Die, Crash
<1>4. CASE UNCHANGED vars
  BY <1>4, EndsK DEF vars
<1>5. QED
  BY <1>1, <1>2, <1>3, <1>4, FlushK, AssetK, FindingK, SurfaceK DEF Next

LEMMA AllInvariants == Spec => [](IInv /\ JInv /\ KInv)
<1>1. Init => IInv /\ JInv /\ KInv
  BY InitI, InitJ, InitK
<1>2. (IInv /\ JInv /\ KInv) /\ [Next]_vars => (IInv /\ JInv /\ KInv)'
  BY NextI, NextJ, NextK
<1>3. QED
  BY <1>1, <1>2, PTL DEF Spec

-----------------------------------------------------------------------------
(***************************************************************************)
(* What a step keeps unless a commit overtook its transaction.             *)
(***************************************************************************)
RacedFlush == \E r \in Slots : Flushes(r) /\ slot[r].overtaken

LEMMA SameKeeps ==
    ASSUME IInv
    PROVE  KeepsSightings(db) /\ KeepsLinks(db) /\ KeepsLeaks(db)
<1>1. \A k \in FindingKeys : db.findings[k] = findings[k]
  BY DEF findings
<1>2. KeepsSightings(db)
  BY <1>1, SightingsGentle DEF IInv
<1>3. QED
  BY <1>2 DEF KeepsLinks, KeepsLeaks

LEMMA FlushKeeps ==
    ASSUME IInv, JInv, KInv, NEW r \in Slots, Flush(r), ~RacedFlush, db' # db,
           NEW u, u = db'
    PROVE  KeepsSightings(u) /\ KeepsLinks(u) /\ KeepsLeaks(u)
<1>1. PICK ws : ws = slot[r].writes
  OBVIOUS
<1>2. SlotOK(slot[r], sent) /\ slot[r].phase = "flush" /\ Busy(r)
  BY DEF IInv, Flush, Commit, Busy
<1>3. Allowed(ws) /\ u = Flushed(ws, References) /\ OncePerRow(ws)
  BY <1>1, <1>2 DEF Allowed, SlotOK, Flush, Commit, JInv, AccountOK
<1>4. ~Busy(r)'
  BY <1>2 DEF Flush, Commit, After, SlotOK, Busy, Idle
<1>5. ~slot[r].overtaken
  BY <1>2, <1>4 DEF RacedFlush, Flushes
<1>6. Judged(ws)
  BY <1>1, <1>2, <1>5 DEF KInv
<1>7. QED
  BY <1>3, <1>6, KeepsFlushed DEF IInv

LEMMA StepKeeps ==
    ASSUME IInv, JInv, KInv, [Next]_vars, ~RacedFlush, NEW u, u = db'
    PROVE  KeepsSightings(u) /\ KeepsLinks(u) /\ KeepsLeaks(u)
<1>1. CASE db' = db
  BY <1>1, SameKeeps
<1>2. CASE db' # db
  <2>1. ASSUME NEW r \in Slots, FindingRequest(r)
        PROVE  FALSE
    BY <1>2, <2>1 DEF FindingRequest, intake_finding, import_file, rollback_ingest,
       triage_finding, triage_identity, Request
  <2>2. ASSUME NEW r \in Slots, SurfaceRequest(r)
        PROVE  FALSE
    BY <1>2, <2>2 DEF SurfaceRequest, import_surface, promote, triage_surface,
       discover, Request
  <2>3. ASSUME NEW r \in Slots, AssetRequest(r)
        PROVE  FALSE
    BY <1>2, <2>3, AssetRequests DEF AssetWrite, Request
  <2>4. ASSUME NEW r \in Slots, Refuse(r)
        PROVE  FALSE
    BY <1>2, <2>4 DEF Refuse, CommitRaises
  <2>5. ~Die /\ ~UNCHANGED vars /\ \A e \in Emails : ~resend_vip_alert(e)
    BY <1>2 DEF Die, Crash, vars, resend_vip_alert
  <2>6. PICK r \in Slots : Flush(r)
    BY <2>1, <2>2, <2>3, <2>4, <2>5 DEF Next
  <2>7. QED
    BY <1>2, <2>6, FlushKeeps
<1>3. QED
  BY <1>1, <1>2

SightingsStep ==
    \A k \in FindingKeys :
      /\ findings[k] # NoRow /\ findings'[k] # NoRow
      /\ findings'[k].id = findings[k].id
      /\ findings'[k].detail.sightings < findings[k].detail.sightings
      => \E r \in Slots : Flushes(r) /\ slot[r].overtaken

SightingsCount ==
    \A k \in FindingKeys : findings[k] # NoRow => findings[k].detail.sightings \in Nat

LEMMA SightingsCounted == IInv => SightingsCount
  BY RowsTyped, TypedRow DEF IInv, SightingsCount, Finding

LEMMA SightingsSteps == IInv /\ JInv /\ KInv /\ [Next]_vars => SightingsStep
<1> SUFFICES ASSUME IInv, JInv, KInv, [Next]_vars, ~RacedFlush, NEW k \in FindingKeys,
                    findings[k] # NoRow, findings'[k] # NoRow,
                    findings'[k].detail.sightings < findings[k].detail.sightings
             PROVE  FALSE
  BY DEF SightingsStep, RacedFlush
<1>1. PICK u : u = db'
  OBVIOUS
<1>2. u.findings[k].detail.sightings >= findings[k].detail.sightings
  BY <1>1, StepKeeps DEF KeepsSightings, findings
<1>3. IInv'
  BY NextI
<1>4. SightingsCount /\ SightingsCount'
  BY <1>3, SightingsCounted, PTL
<1>5. QED
  BY <1>1, <1>2, <1>4 DEF SightingsCount, findings

\* The sightings inside the JSON document of a finding fall only when a commit
\* overtook the transaction that writes the document: the counter of one
\* record that was seen twice is never lost by an intake, an import, a triage
\* or a promotion that ran alone (_persist_record, _apply_risk, triage_finding).
THEOREM SightingsKept == Spec => SightingsFallOnlyInARace
<1>1. IInv /\ JInv /\ KInv /\ [Next]_vars => [SightingsStep]_vars
  BY SightingsSteps
<1>2. QED
  BY <1>1, AllInvariants, PTL DEF Spec, SightingsFallOnlyInARace, SightingsStep

LeaksStep ==
    \A e \in Emails : Accounted(e, db) /\ ~Accounted(e, db') =>
      \E r \in Slots : Flushes(r) /\ slot[r].overtaken

LEMMA LeaksSteps == IInv /\ JInv /\ KInv /\ [Next]_vars => LeaksStep
<1> SUFFICES ASSUME IInv, JInv, KInv, [Next]_vars, ~RacedFlush, NEW e \in Emails,
                    Accounted(e, db)
             PROVE  Accounted(e, db')
  BY DEF LeaksStep, RacedFlush
<1>1. PICK u : u = db'
  OBVIOUS
<1>2. Accounted(e, u)
  BY <1>1, StepKeeps DEF KeepsLeaks
<1>3. QED
  BY <1>1, <1>2

\* The dossier of an e-mail goes on counting its credential findings and knows
\* their passwords, whatever the request, unless a commit overtook its
\* transaction (update_identity of credential_intel.py under _persist_record).
THEOREM LeaksCounted == Spec => LeaksCountedUnlessRaced
<1>1. IInv /\ JInv /\ KInv /\ [Next]_vars => [LeaksStep]_vars
  BY LeaksSteps
<1>2. QED
  BY <1>1, AllInvariants, PTL DEF Spec, LeaksCountedUnlessRaced, LeaksStep

LinksStep ==
    \A s \in SurfaceKeys : Linked(s, db) /\ ~Linked(s, db') =>
      \E r \in Slots : Flushes(r) /\ slot[r].overtaken

LEMMA LinksSteps == IInv /\ JInv /\ KInv /\ [Next]_vars => LinksStep
<1> SUFFICES ASSUME IInv, JInv, KInv, [Next]_vars, ~RacedFlush, NEW s \in SurfaceKeys,
                    Linked(s, db)
             PROVE  Linked(s, db')
  BY DEF LinksStep, RacedFlush
<1>1. PICK u : u = db'
  OBVIOUS
<1>2. Linked(s, u)
  BY <1>1, StepKeeps DEF KeepsLinks
<1>3. QED
  BY <1>1, <1>2

\* The finding that names an asset of the attack surface is named by it, unless
\* a commit overtook the transaction that broke the pair: no rollback of a
\* batch, triage, discovery or promotion breaks it alone (promote and discover
\* of surface_routes.py, rollback_ingest of exposure_routes.py).
THEOREM LinksBothWays == Spec => PromotionLinksBothWays
<1>1. IInv /\ JInv /\ KInv /\ [Next]_vars => [LinksStep]_vars
  BY LinksSteps
<1>2. QED
  BY <1>1, AllInvariants, PTL DEF Spec, PromotionLinksBothWays, LinksStep

=============================================================================
