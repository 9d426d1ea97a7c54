-------------------------- MODULE UnitOfWorkProofs --------------------------
(***************************************************************************)
(* Lemmas about UnitOfWork: what a flush makes of one row.                 *)
(***************************************************************************)
EXTENDS UnitOfWork, TLAPS

\* A row with the columns of set written over its own.
Merged(row, set) ==
    [c \in DOMAIN row |-> IF c \in DOMAIN set THEN set[c] ELSE row[c]]

\* The columns of an UPDATE are those of the row whose value differs.
LEMMA Updated ==
    ASSUME NEW t, NEW k, NEW old, NEW new
    PROVE  LET w == Update(t, k, old, new) IN
           /\ w.at = <<t, k>> /\ w.how = "update" /\ w.id = old.id
           /\ w.needs = {}
           /\ DOMAIN w.set = {c \in DOMAIN old : new[c] # old[c]}
           /\ \A c \in DOMAIN w.set : w.set[c] = new[c]
  BY DEF Update

\* Written over the row it was decided on, it makes the row wanted.
LEMMA UpdatedRow ==
    ASSUME NEW t, NEW k, NEW old, NEW new, DOMAIN new = DOMAIN old
    PROVE  Merged(old, Update(t, k, old, new).set)
              = [c \in DOMAIN old |-> new[c]]
  BY Updated DEF Merged

LEMMA Added ==
    ASSUME NEW t, NEW k, NEW row
    PROVE  LET w == Insert(t, k, row) IN
           /\ w.at = <<t, k>> /\ w.how = "insert" /\ w.id = row.id
           /\ w.set = row /\ w.needs = {}
  BY DEF Insert

LEMMA Removed ==
    ASSUME NEW t, NEW k, NEW row
    PROVE  LET w == Delete(t, k, row) IN
           /\ w.at = <<t, k>> /\ w.how = "delete" /\ w.id = row.id
           /\ w.needs = {} /\ DOMAIN w.set = {}
  BY DEF Delete

\* row is what the writes ws make of the row old at the place at, before the
\* foreign keys are looked at.
Outcome(row, old, ws, at) ==
    \/ row = old
    \/ \E w \in ws : w.at = at /\ w.how = "insert" /\ row = w.set
    \/ \E w \in ws : w.at = at /\ w.how = "delete" /\ ~Stale(w) /\ row = NoRow
    \/ \E w \in ws : /\ w.at = at /\ w.how \notin {"insert", "delete"}
                     /\ DOMAIN w.set # {} /\ row = Merged(old, w.set)

LEMMA RowCases ==
    ASSUME NEW ws, NEW t, NEW k
    PROVE  Outcome(Row(t, k, ws), db[t][k], ws, <<t, k>>)
<1> USE DEF Outcome
<1>1. CASE \E w \in ws : w.at = <<t, k>>
  <2>1. PICK w : /\ w = CHOOSE v \in ws : v.at = <<t, k>>
                 /\ w \in ws /\ w.at = <<t, k>>
    BY <1>1
  <2>2. Row(t, k, ws) = Written(t, k, w)
    BY <1>1, <2>1 DEF Row
  <2>3. CASE w.how = "insert"
    <3>1. Written(t, k, w) = w.set
      BY <2>3 DEF Written
    <3>2. QED
      BY <2>1, <2>2, <2>3, <3>1
  <2>4. CASE w.how = "delete"
    <3>1. Written(t, k, w) = IF Stale(w) THEN db[t][k] ELSE NoRow
      BY <2>4 DEF Written
    <3>2. QED
      BY <2>1, <2>2, <2>4, <3>1
  <2>5. CASE w.how \notin {"insert", "delete"}
    <3>1. Written(t, k, w) = IF DOMAIN w.set = {} THEN db[t][k]
                             ELSE Merged(db[t][k], w.set)
      BY <2>5 DEF Written, Merged
    <3>2. QED
      BY <2>1, <2>2, <2>5, <3>1
  <2>6. QED
    BY <2>3, <2>4, <2>5
<1>2. CASE ~\E w \in ws : w.at = <<t, k>>
  BY <1>2 DEF Row
<1>3. QED
  BY <1>1, <1>2

\* A row that a flush takes away was deleted by it.
LEMMA RowGoes ==
    ASSUME NEW ws, NEW t, NEW k, Row(t, k, ws) = NoRow, db[t][k] # NoRow,
           \A w \in ws : w.at = <<t, k>> =>
              /\ w.how # "insert"
              /\ w.how # "delete" => Merged(db[t][k], w.set) # NoRow
    PROVE  \E w \in ws : w.at = <<t, k>> /\ w.how = "delete"
<1>1. SUFFICES ASSUME ~\E w \in ws : w.at = <<t, k>> /\ w.how = "delete"
               PROVE  FALSE
  OBVIOUS
<1>2. \A w \in ws : w.at = <<t, k>> =>
              /\ w.how \notin {"insert", "delete"}
              /\ Merged(db[t][k], w.set) # NoRow
  BY <1>1
<1>3. \/ Row(t, k, ws) = db[t][k]
      \/ \E w \in ws : w.at = <<t, k>> /\ Row(t, k, ws) = Merged(db[t][k], w.set)
  <2>1. Outcome(Row(t, k, ws), db[t][k], ws, <<t, k>>)
    BY RowCases
  <2>2. QED
    BY <1>2, <2>1 DEF Outcome
<1>4. QED
  BY <1>2, <1>3

\* The row k of t refers, in its column c, to a row of the table to that is gone.
Dangles(rows, t, k, c, to) ==
    rows[t][k][c] # NoRow /\ rows[to][rows[t][k][c]] = NoRow

\* What the columns of Lost have in common.
LEMMA LostColumn ==
    ASSUME NEW rows, NEW t, NEW k, NEW References, NEW ondelete, NEW c
    PROVE  c \in Lost(rows, t, k, References, ondelete) <=>
              \E f \in References :
                 /\ f.table = t /\ f.column = c /\ f.ondelete = ondelete
                 /\ Dangles(rows, t, k, c, f.to)
  BY DEF Lost, Dangles

\* The tables after the flush, after ON DELETE CASCADE, and at the end.
RowsOf(ws) == [t \in DOMAIN db |-> [k \in DOMAIN db[t] |-> Row(t, k, ws)]]
Kept(ws, References) == Cascade(RowsOf(ws), References)

LEMMA FlushedTables ==
    ASSUME NEW ws, NEW References
    PROVE  /\ DOMAIN Flushed(ws, References) = DOMAIN db
           /\ \A t \in DOMAIN db :
                Flushed(ws, References)[t] =
                   [k \in DOMAIN db[t] |-> Flushed(ws, References)[t][k]]
  BY DEF Flushed, SetNull, Cascade

LEMMA TakenRow ==
    ASSUME NEW ws, NEW t \in DOMAIN db, NEW k \in DOMAIN db[t]
    PROVE  RowsOf(ws)[t][k] = Row(t, k, ws)
  BY DEF RowsOf

\* What ON DELETE CASCADE keeps of a row that loses the references lost.
Cascaded(kept, row, lost) ==
    kept = IF row = NoRow \/ lost # {} THEN NoRow ELSE row

LEMMA KeptRow ==
    ASSUME NEW ws, NEW References, NEW t \in DOMAIN db, NEW k \in DOMAIN db[t]
    PROVE  Cascaded(Kept(ws, References)[t][k], Row(t, k, ws),
                    Lost(RowsOf(ws), t, k, References, "cascade"))
  BY DEF Kept, RowsOf, Cascade, Cascaded

\* A row without the references in the columns lost, and what ON DELETE SET
\* NULL leaves of a row that was kept.
Nulled(row, lost) == [c \in DOMAIN row |-> IF c \in lost THEN NoRow ELSE row[c]]
Left(after, kept, lost) ==
    after = IF kept = NoRow THEN NoRow ELSE Nulled(kept, lost)

LEMMA FlushedRow ==
    ASSUME NEW ws, NEW References, NEW t \in DOMAIN db, NEW k \in DOMAIN db[t]
    PROVE  Left(Flushed(ws, References)[t][k], Kept(ws, References)[t][k],
                Lost(Kept(ws, References), t, k, References, "set null"))
<1>1. DOMAIN Kept(ws, References) = DOMAIN db
  BY DEF Kept, Cascade, RowsOf
<1>2. DOMAIN Kept(ws, References)[t] = DOMAIN db[t]
  BY DEF Kept, Cascade, RowsOf
<1>3. Flushed(ws, References) = SetNull(Kept(ws, References), References)
  BY DEF Flushed, Kept, RowsOf
<1>4. PICK rows, row, lost :
          /\ rows = Kept(ws, References)
          /\ row = Kept(ws, References)[t][k]
          /\ lost = Lost(Kept(ws, References), t, k, References, "set null")
  OBVIOUS
<1>5. rows[t][k] = row /\ lost = Lost(rows, t, k, References, "set null")
  BY <1>4
<1>6. SetNull(rows, References)[t][k] =
         IF row = NoRow THEN NoRow ELSE Nulled(row, lost)
  BY <1>1, <1>2, <1>4, <1>5 DEF SetNull, Nulled
<1>7. QED
  BY <1>3, <1>4, <1>6 DEF Left
=============================================================================
