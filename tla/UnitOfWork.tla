----------------------------- MODULE UnitOfWork -----------------------------
(***************************************************************************)
(* Request handlers over one database (app/database.py): every request has *)
(* a SQLAlchemy session of its own, with autoflush off, and FastAPI runs   *)
(* the handlers, which are synchronous, on a pool of threads.  A handler   *)
(* reads rows, changes the objects it read, and commits; only the commit   *)
(* writes, column by column, what differs from what was read, and looks at *)
(* the row again only to find it by its primary key.                       *)
(*                                                                         *)
(* An action of a module that extends this one is the part of a handler up *)
(* to its commit: Begin leaves the transaction in a slot, Commit flushes   *)
(* it, CommitRaises is the flush the database refuses.                     *)
(***************************************************************************)
EXTENDS Integers

CONSTANTS
    Slots,        \* requests the thread pool runs at once
    MaxRequests,  \* bound: requests served
    NoRow         \* "no such row", and NULL

ASSUME MaxRequestsNat == MaxRequests \in Nat

VARIABLES
    db,      \* table name |-> key |-> row or NoRow; every row has an id
    slot,    \* [Slots -> request in progress]
    served   \* requests begun

Ids == 1..MaxRequests

\* One row a flush writes: its table and key, how, the primary key the session
\* knows it by, and the columns that changed (of an insert, all of them).
\* needs: rows its foreign keys name by more than the key, <<table, key, id>>.
Insert(table, key, row) ==
    [at |-> <<table, key>>, how |-> "insert", id |-> row.id,
     set |-> row, needs |-> {}]
Update(table, key, old, new) ==
    [at |-> <<table, key>>, how |-> "update", id |-> old.id,
     set |-> [c \in {c \in DOMAIN old : new[c] # old[c]} |-> new[c]],
     needs |-> {}]
Delete(table, key, row) ==
    [at |-> <<table, key>>, how |-> "delete", id |-> row.id,
     set |-> [c \in {} |-> NoRow], needs |-> {}]

\* The row is no longer there, or is another one.
Gone(table, key, id) ==
    IF db[table][key] = NoRow THEN TRUE ELSE db[table][key].id # id

\* So for the row the write is for.
Stale(w) == Gone(w.at[1], w.at[2], w.id)

\* A foreign key column of the write w of ws names a row that is gone, and
\* that ws does not insert.  References is a set of [table, column, to, ondelete],
\* ondelete: "set null" or "cascade".
Dangling(w, ws, References) ==
    \/ \E n \in w.needs : Gone(n[1], n[2], n[3])
    \/ \E f \in References :
           /\ f.table = w.at[1]
           /\ f.column \in DOMAIN w.set
           /\ LET to == w.set[f.column] IN
              IF to = NoRow THEN FALSE
              ELSE /\ db[f.to][to] = NoRow
                   /\ ~\E v \in ws : v.at = <<f.to, to>> /\ v.how = "insert"

\* A row that vanished is a StaleDataError for an UPDATE and a warning for a
\* DELETE; a key that is taken breaks the unique index.
Raises(ws, References) ==
    \E w \in ws :
        \/ w.how = "update" /\ DOMAIN w.set # {} /\ Stale(w)
        \/ w.how = "insert" /\ db[w.at[1]][w.at[2]] # NoRow
        \/ w.how = "insert_twice"
        \/ Dangling(w, ws, References)

Written(t, k, w) ==
    CASE w.how = "insert" -> w.set
      [] w.how = "delete" -> IF Stale(w) THEN db[t][k] ELSE NoRow
      [] OTHER -> IF DOMAIN w.set = {} THEN db[t][k]
                  ELSE [c \in DOMAIN db[t][k] |->
                          IF c \in DOMAIN w.set THEN w.set[c] ELSE db[t][k][c]]

Row(t, k, ws) ==
    IF \E w \in ws : w.at = <<t, k>>
    THEN Written(t, k, CHOOSE w \in ws : w.at = <<t, k>>)
    ELSE db[t][k]

\* The columns of a row that name a row which is not there.
Lost(rows, t, k, References, ondelete) ==
    {f.column : f \in {f \in References :
        /\ f.table = t /\ f.ondelete = ondelete
        /\ IF rows[t][k][f.column] = NoRow THEN FALSE
           ELSE rows[f.to][rows[t][k][f.column]] = NoRow}}

\* ON DELETE CASCADE (one level deep), then ON DELETE SET NULL.
Cascade(rows, References) ==
    [t \in DOMAIN rows |-> [k \in DOMAIN rows[t] |->
       IF rows[t][k] = NoRow THEN NoRow
       ELSE IF Lost(rows, t, k, References, "cascade") # {} THEN NoRow
       ELSE rows[t][k]]]

SetNull(rows, References) ==
    [t \in DOMAIN rows |-> [k \in DOMAIN rows[t] |->
       IF rows[t][k] = NoRow THEN NoRow
       ELSE [c \in DOMAIN rows[t][k] |->
               IF c \in Lost(rows, t, k, References, "set null")
               THEN NoRow ELSE rows[t][k][c]]]]

Flushed(ws, References) ==
    SetNull(Cascade([t \in DOMAIN db |-> [k \in DOMAIN db[t] |-> Row(t, k, ws)]],
                    References), References)

-----------------------------------------------------------------------------
Idle    == [phase |-> "idle"]
Busy(r) == slot[r].phase # "idle"

\* The number of a request, which is also the id of the rows it inserts.
Number == served + 1

\* A slot that can take a request.
Free(r) == ~Busy(r) /\ served < MaxRequests

BeginAt(r, phase, op, on, writes, then) ==
    /\ Free(r)
    /\ served' = Number
    /\ slot' = [slot EXCEPT ![r] =
         [phase |-> phase, op |-> op, on |-> on, n |-> Number,
          writes |-> writes, then |-> then, overtaken |-> FALSE]]

Begin(r, op, on, writes, then) == BeginAt(r, "flush", op, on, writes, then)

\* The request goes on, with another transaction, where it was to go on after
\* its commit, or answers.
After(r) ==
    IF slot[r].then = "answer" THEN Idle
    ELSE [slot[r] EXCEPT !.phase = slot[r].then, !.writes = {}, !.overtaken = FALSE]

\* A session that has read rows does not see that another one has changed
\* them: "overtaken" remembers that it happened.
Commit(r, References) ==
    /\ slot[r].phase = "flush"
    /\ ~Raises(slot[r].writes, References)
    /\ db' = Flushed(slot[r].writes, References)
    /\ slot' = [q \in Slots |->
         IF q = r THEN After(r)
         ELSE IF Busy(q) THEN [slot[q] EXCEPT !.overtaken = @ \/ db' # db]
         ELSE Idle]
    /\ UNCHANGED served

\* The database refuses the flush: the request answers 500.
CommitRaises(r, References) ==
    /\ slot[r].phase = "flush"
    /\ Raises(slot[r].writes, References)
    /\ slot' = [slot EXCEPT ![r] = Idle]
    /\ UNCHANGED <<db, served>>

\* The process dies; its open transactions are rolled back.
Crash ==
    /\ \E r \in Slots : Busy(r)
    /\ slot' = [r \in Slots |-> Idle]
    /\ UNCHANGED <<db, served>>
=============================================================================
