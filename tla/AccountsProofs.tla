----------------------------- MODULE AccountsProofs -----------------------------
(***************************************************************************)
(* Theorems about Accounts, for any number of requests in flight.          *)
(*                                                                         *)
(* A handler decides on rows it has read and writes, some commits later,   *)
(* only the columns it found different.  What makes the result sound is    *)
(* what every pending write promises (WriteOK), and that for an account of *)
(* a given id is_operator only ever goes from true to false (Still): the   *)
(* columns found different then are different now.                         *)
(***************************************************************************)
EXTENDS Accounts, FiniteSetTheorems, WellFoundedInduction, TLAPS

Tables == {"users", "tenants", "invites", "keys", "access", "trail"}

\* What a flush may write into the columns of an account that exists: no
\* handler makes it an operator, or takes its tenant away.
UserChange(set) ==
    /\ DOMAIN set \subseteq {"role", "orole", "operator", "tenant", "active",
                             "version"}
    /\ "role" \in DOMAIN set => set["role"] \in DOMAIN ROLE_RANK
    /\ "orole" \in DOMAIN set =>
          set["orole"] \in DOMAIN OPERATOR_EFFECTIVE_ROLE
    /\ "operator" \in DOMAIN set => set["operator"] = FALSE
    /\ "tenant" \in DOMAIN set => set["tenant"] \in Tenants
    /\ "active" \in DOMAIN set => set["active"] \in BOOLEAN
    /\ "version" \in DOMAIN set => set["version"] \in Nat

InviteChange(set) ==
    /\ DOMAIN set \subseteq {"status", "user"}
    /\ "status" \in DOMAIN set =>
          set["status"] \in {"pending", "accepted", "expired", "revoked"}
    /\ "user" \in DOMAIN set => set["user"] \in Nat

TenantChange(set) ==
    /\ DOMAIN set \subseteq {"status"}
    /\ "status" \in DOMAIN set => set["status"] \in {"active", "suspended"}

ActiveChange(set) ==
    /\ DOMAIN set \subseteq {"active"}
    /\ "active" \in DOMAIN set => set["active"] \in BOOLEAN

Matching(u) == u.operator <=> u.tenant = NoRow

InsertOK(w) ==
    /\ w.table = "users" =>
          w.key \in Emails /\ w.set \in User /\ Matching(w.set)
    /\ w.table = "tenants" => w.set \in Tenant
    /\ w.table = "invites" => w.set \in Invite
    /\ w.table = "keys" => w.set \in ApiKey
    /\ w.table = "access" => w.set \in Access
    /\ w.table = "trail" => w.set = CreateEntry

UpdateOK(w) ==
    /\ w.table # "trail"
    /\ w.table = "users" => /\ w.id \in Nat
                            /\ w.id < nextId
                            /\ UserChange(w.set)
    /\ w.table = "tenants" => TenantChange(w.set)
    /\ w.table = "invites" => InviteChange(w.set)
    /\ w.table \in {"keys", "access"} => ActiveChange(w.set)

WriteOK(w) ==
    /\ w.table \in Tables
    /\ \/ w.how = "insert" /\ InsertOK(w)
       \/ w.how = "update" /\ w.key # Fresh /\ UpdateOK(w)
       \/ w.how = "delete" /\ w.key # Fresh /\ w.table = "users"

\* While the account is still an operator, an update of it that writes one of
\* the two columns writes the other.
Still(w) ==
    w.how = "update" /\ w.table = "users" =>
        \A e \in Emails :
            e = w.key /\ HasRow(e) /\ users[e].id = w.id /\ users[e].operator
            => ("operator" \in DOMAIN w.set <=> "tenant" \in DOMAIN w.set)

\* A tenant is inserted with the rest of its rows.
Whole(ws) ==
    \A w \in ws : w.table = "tenants" /\ w.how = "insert" =>
        \E t \in Tenants, e \in Emails, p \in BOOLEAN :
            ws = TenantRows(t, e, p)

WritesOK(ws) == Whole(ws) /\ \A w \in ws : WriteOK(w) /\ Still(w)

SlotOK(x) ==
    /\ x.phase # "idle" => x.overtaken \in BOOLEAN
    /\ x.phase = "flush" => WritesOK(x.writes)
    /\ x.phase = "flush" /\ x.op = "tenant.invite" =>
          x.on \in Tenants \X Emails
    /\ x.phase = "invite" =>
          x.on[1] \in Tenants /\ x.on[2] \in Emails /\ x.on[3] \in Nat

IInv ==
    /\ TypeOK
    /\ DOMAIN db = Tables
    /\ DOMAIN slot = Slots
    /\ \A e \in Emails : HasRow(e) => users[e].id < nextId
    /\ KindMatchesTenant
    /\ \A r \in Slots : SlotOK(slot[r])

-----------------------------------------------------------------------------
(***************************************************************************)
(* What a flush does to one row.                                           *)
(***************************************************************************)
Merged(row, set) ==
    [c \in DOMAIN row |-> IF c \in DOMAIN set THEN set[c] ELSE row[c]]

\* The row of a new account gets its id from the database.
Numbered(u) == [u EXCEPT !.id = nextId]

\* A row after a flush is the row before it, is deleted, or is what one of
\* the writes made of it; what Raises refuses does not happen.
LEMMA Rows ==
    ASSUME NEW ws, \A w \in ws : WriteOK(w), \A w \in ws : ~Raises(w),
           NEW t \in Tables, NEW k \in DOMAIN db[t]
    PROVE  \/ RowAfter(ws, t, k) = db[t][k]
           \/ t = "invites" /\ RowAfter(ws, t, k) = Gone
           \/ t \in {"users", "access"} /\ RowAfter(ws, t, k) = NoRow
           \/ \E w \in ws :
                 /\ w.table = t /\ w.how = "insert"
                 /\ w.key # Fresh => w.key = k /\ db[t][k] = NoRow
                 /\ RowAfter(ws, t, k) =
                       IF t = "users" THEN Numbered(w.set)
                       ELSE w.set
           \/ \E w \in ws :
                 /\ w.table = t /\ w.how = "update" /\ w.key = k
                 /\ db[t][k] \notin {NoRow, Gone}
                 /\ t = "users" => db[t][k].id = w.id
                 /\ RowAfter(ws, t, k) = Merged(db[t][k], w.set)
<1>1. CASE Writes(ws, t, k) = {}
  BY <1>1 DEF RowAfter
<1>2. CASE Writes(ws, t, k) # {}
  <2>1. PICK w \in Writes(ws, t, k) : RowAfter(ws, t, k) = Written(t, k, w)
    <3>1. (CHOOSE w \in Writes(ws, t, k) : TRUE) \in Writes(ws, t, k)
      BY <1>2
    <3>2. QED
      BY <1>2, <3>1 DEF RowAfter
  <2>2. /\ w \in ws
        /\ w.table = t
        /\ w.how = "update" => DOMAIN w.set # {}
        /\ k = IF w.key = Fresh THEN FreshKey(t) ELSE w.key
    BY <2>1 DEF Writes
  <2>3. WriteOK(w) /\ ~Raises(w)
    BY <2>2
  <2>4. CASE w.how = "insert"
    <3>1. w.key # Fresh => db[t][k] = NoRow
      BY <2>2, <2>3, <2>4 DEF Raises
    <3>2. Written(t, k, w) = IF t = "users" THEN Numbered(w.set)
                             ELSE w.set
      BY <2>4 DEF Written, Numbered
    <3>3. \E v \in ws :
             /\ v.table = t /\ v.how = "insert"
             /\ v.key # Fresh => v.key = k /\ db[t][k] = NoRow
             /\ RowAfter(ws, t, k) =
                   IF t = "users" THEN Numbered(v.set)
                   ELSE v.set
      <4> w \in ws
        BY <2>2
      <4> WITNESS w \in ws
      <4> QED
        BY <2>1, <2>2, <2>4, <3>1, <3>2
    <3>4. QED
      BY <3>3
  <2>5. CASE w.how = "update"
    <3>1. w.key = k
      BY <2>2, <2>3, <2>5 DEF WriteOK
    <3>2. /\ db[t][k] \notin {NoRow, Gone}
          /\ t = "users" => db[t][k].id = w.id
      BY <2>2, <2>3, <2>5, <3>1 DEF Raises
    <3>3. Written(t, k, w) = Merged(db[t][k], w.set)
      BY <2>5 DEF Written, Merged
    <3>4. QED
      BY <2>1, <2>2, <2>5, <3>1, <3>2, <3>3
  <2>6. CASE w.how = "delete"
    <3>1. t = "users"
      BY <2>2, <2>3, <2>6 DEF WriteOK
    <3>2. Written(t, k, w) \in {NoRow, db[t][k]}
      BY <2>6 DEF Written
    <3>3. QED
      BY <2>1, <3>1, <3>2
  <2>7. QED
    BY <2>3, <2>4, <2>5, <2>6 DEF WriteOK
<1>3. QED
  BY <1>1, <1>2

\* Writing well-typed columns leaves a well-typed account, with its id.
LEMMA MergedUser ==
    ASSUME NEW u \in User, NEW set, UserChange(set)
    PROVE  /\ Merged(u, set) \in User
           /\ Merged(u, set).id = u.id
           /\ Merged(u, set).operator =
                 IF "operator" \in DOMAIN set THEN FALSE ELSE u.operator
           /\ Merged(u, set).tenant =
                 IF "tenant" \in DOMAIN set THEN set["tenant"] ELSE u.tenant
           /\ Merged(u, set).role =
                 IF "role" \in DOMAIN set THEN set["role"] ELSE u.role
           /\ Merged(u, set).active =
                 IF "active" \in DOMAIN set THEN set["active"] ELSE u.active
<1>1. DOMAIN u = {"id", "role", "operator", "orole", "tenant", "active",
                  "version"}
  BY DEF User
<1>2. PICK m : m = Merged(u, set)
  OBVIOUS
<1>3. /\ m = [id |-> m.id, role |-> m.role, operator |-> m.operator,
              orole |-> m.orole, tenant |-> m.tenant, active |-> m.active,
              version |-> m.version]
  BY <1>1, <1>2 DEF Merged
<1>4. /\ m.id = u.id
      /\ m.role = IF "role" \in DOMAIN set THEN set["role"] ELSE u.role
      /\ m.operator = IF "operator" \in DOMAIN set THEN FALSE ELSE u.operator
      /\ m.orole = IF "orole" \in DOMAIN set THEN set["orole"] ELSE u.orole
      /\ m.tenant = IF "tenant" \in DOMAIN set THEN set["tenant"]
                    ELSE u.tenant
      /\ m.active = IF "active" \in DOMAIN set THEN set["active"]
                    ELSE u.active
      /\ m.version = IF "version" \in DOMAIN set THEN set["version"]
                     ELSE u.version
  BY <1>1, <1>2 DEF Merged, UserChange
<1>5. /\ m.id \in Nat
      /\ m.role \in DOMAIN ROLE_RANK
      /\ m.operator \in BOOLEAN
      /\ m.orole \in DOMAIN OPERATOR_EFFECTIVE_ROLE
      /\ m.tenant \in Tenants \cup {NoRow}
      /\ m.active \in BOOLEAN
      /\ m.version \in Nat
  BY <1>4 DEF User, UserChange
<1>6. m \in User
  BY <1>3, <1>5 DEF User
<1>7. QED
  BY <1>2, <1>4, <1>6

\* So it is with the rows of the other tables.
LEMMA MergedTenant ==
    ASSUME NEW u \in Tenant, NEW set, TenantChange(set)
    PROVE  Merged(u, set) \in Tenant
  BY DEF Merged, Tenant, TenantChange

LEMMA MergedInvite ==
    ASSUME NEW u \in Invite, NEW set, InviteChange(set)
    PROVE  Merged(u, set) \in Invite
<1>1. DOMAIN u = {"tenant", "email", "role", "user", "status", "late"}
  BY DEF Invite
<1>2. PICK m : m = Merged(u, set)
  OBVIOUS
<1>3. m = [tenant |-> m.tenant, email |-> m.email, role |-> m.role,
           user |-> m.user, status |-> m.status, late |-> m.late]
  BY <1>1, <1>2 DEF Merged
<1>4. /\ m.tenant = u.tenant /\ m.email = u.email /\ m.role = u.role
      /\ m.user = IF "user" \in DOMAIN set THEN set["user"] ELSE u.user
      /\ m.status = IF "status" \in DOMAIN set THEN set["status"]
                    ELSE u.status
      /\ m.late = u.late
  BY <1>1, <1>2 DEF Merged, InviteChange
<1>5. /\ m.tenant \in Tenants /\ m.email \in Emails
      /\ m.role \in DOMAIN ROLE_RANK /\ m.user \in Nat
      /\ m.status \in {"pending", "accepted", "expired", "revoked"}
      /\ m.late \in BOOLEAN
  BY <1>4 DEF Invite, InviteChange
<1>6. m \in Invite
  BY <1>3, <1>5 DEF Invite
<1>7. QED
  BY <1>2, <1>6

LEMMA MergedActive ==
    ASSUME NEW set, ActiveChange(set)
    PROVE  /\ \A u \in ApiKey : Merged(u, set) \in ApiKey
           /\ \A u \in Access : Merged(u, set) \in Access
<1>1. ASSUME NEW u \in Access
      PROVE  Merged(u, set) \in Access
  BY DEF Merged, Access, ActiveChange
<1>2. ASSUME NEW u \in ApiKey
      PROVE  Merged(u, set) \in ApiKey
  <2>1. DOMAIN u = {"tenant", "role", "active"}
    BY DEF ApiKey
  <2>2. PICK m : m = Merged(u, set)
    OBVIOUS
  <2>3. m = [tenant |-> m.tenant, role |-> m.role, active |-> m.active]
    BY <2>1, <2>2 DEF Merged
  <2>4. /\ m.tenant = u.tenant /\ m.role = u.role
        /\ m.active = IF "active" \in DOMAIN set THEN set["active"]
                      ELSE u.active
    BY <2>1, <2>2 DEF Merged, ActiveChange
  <2>5. m.tenant \in Tenants /\ m.role \in DOMAIN ROLE_RANK
        /\ m.active \in BOOLEAN
    BY <2>4 DEF ApiKey, ActiveChange
  <2>6. m \in ApiKey
    BY <2>3, <2>5 DEF ApiKey
  <2>7. QED
    BY <2>2, <2>6
<1>3. QED
  BY <1>1, <1>2

LEMMA NumberedUser ==
    ASSUME NEW u \in User, nextId \in Nat
    PROVE  /\ Numbered(u) \in User
           /\ Numbered(u).id = nextId
           /\ Numbered(u).operator = u.operator
           /\ Numbered(u).tenant = u.tenant
           /\ Numbered(u).role = u.role
           /\ Numbered(u).active = u.active
  BY DEF Numbered, User

-----------------------------------------------------------------------------
(***************************************************************************)
(* What the handlers leave in their slots keeps the promise.               *)
(***************************************************************************)
\* The columns of an update are those given that differ.
LEMMA Changed ==
    ASSUME NEW t, NEW k, NEW row, NEW set
    PROVE  LET w == Update(t, k, row, set) IN
           /\ w.table = t /\ w.key = k /\ w.how = "update"
           /\ t = "users" => w.id = row.id
           /\ \A c \in DOMAIN w.set : c \in DOMAIN set /\ w.set[c] = set[c]
           /\ \A c \in DOMAIN set : set[c] # row[c] => c \in DOMAIN w.set
  BY DEF Update

LEMMA Added ==
    ASSUME NEW t, NEW k, NEW row
    PROVE  LET w == Insert(t, k, row) IN
           w.table = t /\ w.key = k /\ w.how = "insert" /\ w.set = row
  BY DEF Insert

LEMMA UpdatesUser ==
    ASSUME IInv, NEW e \in Emails, HasRow(e), NEW set, UserChange(set),
           "operator" \in DOMAIN set <=> "tenant" \in DOMAIN set
    PROVE  LET w == Update("users", e, users[e], set) IN
           WriteOK(w) /\ Still(w)
<1> PICK w : w = Update("users", e, users[e], set)
  OBVIOUS
<1>1. /\ w.table = "users" /\ w.key = e /\ w.how = "update"
      /\ w.id = users[e].id
      /\ \A c \in DOMAIN w.set : c \in DOMAIN set /\ w.set[c] = set[c]
      /\ \A c \in DOMAIN set : set[c] # users[e][c] => c \in DOMAIN w.set
  BY Changed
<1>2. users[e] \in User /\ users[e].id < nextId
  BY DEF IInv, TypeOK, HasRow
<1>3. UserChange(w.set)
  BY <1>1 DEF UserChange
<1>4. WriteOK(w)
  BY <1>1, <1>2, <1>3, ConstantsAssumption
     DEF WriteOK, UpdateOK, Tables, User
<1>5. users[e].operator =>
         ("operator" \in DOMAIN w.set <=> "tenant" \in DOMAIN w.set)
  <2> SUFFICES ASSUME users[e].operator, "operator" \in DOMAIN set
               PROVE  "operator" \in DOMAIN w.set /\ "tenant" \in DOMAIN w.set
    BY <1>1
  <2>1. users[e].tenant = NoRow
    BY DEF IInv, KindMatchesTenant
  <2>2. set["operator"] = FALSE /\ set["tenant"] \in Tenants
    BY DEF UserChange
  <2>3. set["operator"] # users[e]["operator"]
    BY <2>2
  <2>4. set["tenant"] # users[e]["tenant"]
    BY <2>1, <2>2, ConstantsAssumption
  <2>5. QED
    BY <1>1, <2>3, <2>4
<1>6. Still(w)
  BY <1>1, <1>5 DEF Still
<1>7. QED
  BY <1>4, <1>6

LEMMA UpdatesInvite ==
    ASSUME NEW i \in Ids, NEW set, InviteChange(set)
    PROVE  LET w == Update("invites", i, invites[i], set) IN
           /\ WriteOK(w) /\ Still(w) /\ w.table = "invites"
<1> PICK w : w = Update("invites", i, invites[i], set)
  OBVIOUS
<1>1. /\ w.table = "invites" /\ w.key = i /\ w.how = "update"
      /\ \A c \in DOMAIN w.set : c \in DOMAIN set /\ w.set[c] = set[c]
  BY Changed
<1>2. InviteChange(w.set)
  BY <1>1 DEF InviteChange
<1>3. QED
  BY <1>1, <1>2, ConstantsAssumption
     DEF WriteOK, UpdateOK, Tables, Still

LEMMA UpdatesTenant ==
    ASSUME NEW t \in Tenants, NEW set, TenantChange(set)
    PROVE  LET w == Update("tenants", t, tenants[t], set) IN
           /\ WriteOK(w) /\ Still(w) /\ w.how = "update"
<1> PICK w : w = Update("tenants", t, tenants[t], set)
  OBVIOUS
<1>1. /\ w.table = "tenants" /\ w.key = t /\ w.how = "update"
      /\ \A c \in DOMAIN w.set : c \in DOMAIN set /\ w.set[c] = set[c]
  BY Changed
<1>2. TenantChange(w.set)
  BY <1>1 DEF TenantChange
<1>3. QED
  BY <1>1, <1>2, ConstantsAssumption
     DEF WriteOK, UpdateOK, Tables, Still

LEMMA UpdatesActive ==
    ASSUME NEW t \in {"keys", "access"}, NEW k, k # Fresh, NEW row, NEW set,
           ActiveChange(set)
    PROVE  LET w == Update(t, k, row, set) IN
           /\ WriteOK(w) /\ Still(w) /\ w.table # "tenants"
<1> PICK w : w = Update(t, k, row, set)
  OBVIOUS
<1>1. /\ w.table = t /\ w.key = k /\ w.how = "update"
      /\ \A c \in DOMAIN w.set : c \in DOMAIN set /\ w.set[c] = set[c]
  BY Changed
<1>2. ActiveChange(w.set)
  BY <1>1 DEF ActiveChange
<1>3. QED
  BY <1>1, <1>2 DEF WriteOK, UpdateOK, Tables, Still

LEMMA Inserts ==
    ASSUME NEW t \in Tables, NEW k, NEW row, InsertOK(Insert(t, k, row))
    PROVE  WriteOK(Insert(t, k, row)) /\ Still(Insert(t, k, row))
  BY Added DEF WriteOK, Still

\* Only create_tenant inserts a tenant.
LEMMA Others ==
    ASSUME NEW ws, \A w \in ws : /\ WriteOK(w) /\ Still(w)
                                 /\ w.table = "tenants" => w.how # "insert"
    PROVE  WritesOK(ws)
  BY DEF WritesOK, Whole

-----------------------------------------------------------------------------
(***************************************************************************)
(* Steps that change only slots.                                           *)
(***************************************************************************)
Shape(x) ==
    /\ x.phase \in {"idle", "flush", "invite", "failed"}
    /\ x.phase # "idle" =>
          DOMAIN x = {"phase", "op", "by", "on", "writes", "overtaken"}

LEMMA WritesKept ==
    ASSUME NEW ws, WritesOK(ws), UNCHANGED <<db, nextId>>
    PROVE  WritesOK(ws)'
<1>1. ASSUME NEW w \in ws
      PROVE  WriteOK(w)' /\ Still(w)'
  BY DEF WritesOK, WriteOK, InsertOK, UpdateOK, Still, HasRow, users
<1>2. QED
  BY <1>1 DEF WritesOK, Whole

LEMMA SlotKept ==
    ASSUME NEW x, SlotOK(x), UNCHANGED <<db, nextId>>
    PROVE  SlotOK(x)'
  BY WritesKept DEF SlotOK

LEMMA SlotsOnly ==
    ASSUME IInv, UNCHANGED <<db, nextId>>, served' \in 0..MaxRequests,
           DOMAIN slot' = Slots,
           \A q \in Slots :
              \/ slot'[q] = slot[q]
              \/ \E x : slot'[q] = x /\ SlotOK(x) /\ Shape(x)
    PROVE  IInv'
<1>1. ASSUME NEW q \in Slots
      PROVE  SlotOK(slot[q])' /\ Shape(slot[q])'
  <2>1. PICK x : slot'[q] = x /\ SlotOK(x) /\ Shape(x)
    BY DEF IInv, TypeOK, Busy, Shape
  <2>2. SlotOK(x)'
    BY <2>1, SlotKept
  <2>3. QED
    BY <2>1, <2>2
<1>2. TypeOK'
  BY <1>1 DEF IInv, TypeOK, Shape, Busy, users, tenants, invites, keys,
              access, trail
<1>3. KindMatchesTenant'
  BY DEF IInv, KindMatchesTenant, HasRow, users
<1>4. /\ DOMAIN db' = Tables
      /\ \A e \in Emails : HasRow(e)' => users'[e].id < nextId'
  BY DEF IInv, HasRow, users
<1>5. QED
  BY <1>1, <1>2, <1>3, <1>4 DEF IInv

LEMMA Starts ==
    ASSUME IInv, NEW r \in Slots, NEW op, NEW by, NEW on, NEW ws,
           Begin(r, op, by, on, ws), WritesOK(ws),
           op = "tenant.invite" => on \in Tenants \X Emails
    PROVE  IInv'
<1>1. PICK x : x = [phase |-> "flush", op |-> op, by |-> Kind(by), on |-> on,
                    writes |-> ws, overtaken |-> FALSE]
  OBVIOUS
<1>2. SlotOK(x)
  BY <1>1 DEF SlotOK
<1>3. Shape(x)
  BY <1>1 DEF Shape
<1>4. /\ slot' = [slot EXCEPT ![r] = x]
      /\ served' = served + 1 /\ served < MaxRequests
      /\ UNCHANGED <<db, nextId>>
  BY <1>1 DEF Begin
<1>5. served' \in 0..MaxRequests /\ DOMAIN slot = Slots
  BY <1>4, ConstantsAssumption DEF IInv, TypeOK
<1>6. QED
  BY <1>2, <1>3, <1>4, <1>5, SlotsOnly

LEMMA Frees ==
    ASSUME IInv,
           \/ Crash
           \/ \E r \in Slots : CommitRaises(r) \/ Answer500(r)
    PROVE  IInv'
<1>1. SlotOK(Idle) /\ Shape(Idle)
  BY DEF SlotOK, Shape, Idle
<1>2. served \in 0..MaxRequests /\ DOMAIN slot = Slots
  BY DEF IInv, TypeOK
<1>3. CASE Crash
  BY <1>1, <1>2, <1>3, SlotsOnly DEF Crash
<1>4. ASSUME NEW r \in Slots, Answer500(r)
      PROVE  IInv'
  BY <1>1, <1>2, <1>4, SlotsOnly DEF Answer500
<1>5. ASSUME NEW r \in Slots, CommitRaises(r)
      PROVE  IInv'
  <2>1. PICK y : y = slot[r]
    OBVIOUS
  <2>2. PICK x : x = [y EXCEPT !.phase = "failed"]
    OBVIOUS
  <2>3. /\ y.phase = "flush" /\ SlotOK(y)
        /\ DOMAIN y = {"phase", "op", "by", "on", "writes", "overtaken"}
    BY <1>5, <2>1 DEF CommitRaises, IInv, TypeOK, Busy
  <2>4. /\ x.phase = "failed" /\ x.overtaken = y.overtaken
        /\ DOMAIN x = DOMAIN y
    BY <2>2, <2>3
  <2>5. SlotOK(x) /\ Shape(x)
    BY <2>3, <2>4 DEF SlotOK, Shape
  <2>6. slot' = [slot EXCEPT ![r] = x] /\ UNCHANGED <<db, nextId, served>>
    <3>1. slot' = [slot EXCEPT ![r] = [slot[r] EXCEPT !.phase = "failed"]]
      BY <1>5 DEF CommitRaises
    <3>2. QED
      BY <1>5, <2>1, <2>2, <3>1 DEF CommitRaises
  <2>7. QED
    BY <1>2, <2>5, <2>6, SlotsOnly
<1>6. QED
  BY <1>3, <1>4, <1>5

\* create_invite revokes invitations and adds one.
LEMMA InviteWritesOK ==
    ASSUME NEW t \in Tenants, NEW e \in Emails, NEW role \in DOMAIN ROLE_RANK,
           NEW id \in Nat
    PROVE  WritesOK(InviteWrites(t, e, role, id))
<1>1. ASSUME NEW i \in Ids
      PROVE  LET w == Update("invites", i, invites[i], [status |-> "revoked"])
             IN  WriteOK(w) /\ Still(w) /\ w.table = "invites"
  <2>1. PICK set : set = [status |-> "revoked"]
    OBVIOUS
  <2>2. InviteChange(set)
    BY <2>1 DEF InviteChange
  <2>3. QED
    BY <2>1, <2>2, UpdatesInvite
<1>2. PICK row : row = [tenant |-> t, email |-> e, role |-> role,
                        user |-> id, status |-> "pending", late |-> FALSE]
  OBVIOUS
<1>3. row \in Invite
  BY <1>2 DEF Invite
<1>4. LET w == Insert("invites", Fresh, row)
      IN  WriteOK(w) /\ Still(w) /\ w.table = "invites"
  BY <1>3, Inserts, Added DEF InsertOK, Tables
<1>5. \A w \in InviteWrites(t, e, role, id) :
         WriteOK(w) /\ Still(w) /\ w.table = "invites"
  BY <1>1, <1>2, <1>4 DEF InviteWrites
<1>6. QED
  BY <1>5, Others

LEMMA InvitesAdmin ==
    ASSUME IInv, NEW r \in Slots, InviteAdmin(r)
    PROVE  IInv'
<1>1. PICK y : y = slot[r]
  OBVIOUS
<1>2. /\ y.phase = "invite" /\ SlotOK(y)
      /\ DOMAIN y = {"phase", "op", "by", "on", "writes", "overtaken"}
  BY <1>1 DEF InviteAdmin, IInv, TypeOK, Busy
<1>3. PICK ws : ws = InviteWrites(y.on[1], y.on[2], "admin", y.on[3])
  OBVIOUS
<1>4. WritesOK(ws)
  BY <1>2, <1>3, InviteWritesOK DEF SlotOK, ROLE_RANK
<1>5. PICK x : x = [y EXCEPT !.phase = "flush", !.op = "invite.create",
                             !.overtaken = FALSE, !.writes = ws]
  OBVIOUS
<1>6. /\ x.phase = "flush" /\ x.op = "invite.create" /\ x.overtaken = FALSE
      /\ x.writes = ws
      /\ DOMAIN x = DOMAIN y
  BY <1>2, <1>5
<1>7. SlotOK(x) /\ Shape(x)
  BY <1>2, <1>4, <1>6 DEF SlotOK, Shape
<1>8. slot' = [slot EXCEPT ![r] = x] /\ UNCHANGED <<db, nextId, served>>
  BY <1>1, <1>3, <1>5 DEF InviteAdmin
<1>9. served \in 0..MaxRequests /\ DOMAIN slot = Slots
  BY DEF IInv, TypeOK
<1>10. QED
  BY <1>7, <1>8, <1>9, SlotsOnly

-----------------------------------------------------------------------------
(***************************************************************************)
(* The handlers.                                                           *)
(***************************************************************************)
LEMMA PlatformOperatorOK ==
    ASSUME NEW orole \in DOMAIN OPERATOR_EFFECTIVE_ROLE
    PROVE  LET u == [PlatformOperator EXCEPT !.orole = orole]
           IN  u \in User /\ Matching(u)
  BY DEF PlatformOperator, User, Matching, ROLE_RANK

LEMMA TenantUserOK ==
    ASSUME NEW role \in DOMAIN ROLE_RANK, NEW t \in Tenants,
           NEW active \in BOOLEAN
    PROVE  /\ TenantUser(role, t, active) \in User
           /\ Matching(TenantUser(role, t, active))
  BY ConstantsAssumption
     DEF TenantUser, User, Matching, OPERATOR_EFFECTIVE_ROLE

LEMMA InsertsUser ==
    ASSUME NEW e \in Emails, NEW u \in User, Matching(u)
    PROVE  WritesOK({Insert("users", e, u)})
<1>1. LET w == Insert("users", e, u)
      IN  WriteOK(w) /\ Still(w) /\ w.table = "users"
  BY Inserts, Added DEF InsertOK, Tables
<1>2. QED
  BY <1>1, Others

LEMMA ChangesUser ==
    ASSUME IInv, NEW e \in Emails, HasRow(e), NEW set, UserChange(set),
           "operator" \in DOMAIN set <=> "tenant" \in DOMAIN set
    PROVE  WritesOK({Update("users", e, users[e], set)})
  BY UpdatesUser, Others, Changed

LEMMA BootstrapOperator ==
    ASSUME IInv, NEW r \in Slots, NEW e \in Emails, bootstrap_operator(r, e)
    PROVE  IInv'
<1>1. PlatformOperator \in User /\ Matching(PlatformOperator)
  BY DEF PlatformOperator, User, Matching, ROLE_RANK, OPERATOR_EFFECTIVE_ROLE
<1>2. WritesOK({Insert("users", e, PlatformOperator)})
  BY <1>1, InsertsUser
<1>3. QED
  BY <1>2, Starts DEF bootstrap_operator

LEMMA CreateUser ==
    ASSUME IInv, NEW r \in Slots, NEW p, NEW t \in Tenants, NEW e \in Emails,
           NEW role \in Roles, create_user(r, p, t, e, role)
    PROVE  IInv'
<1>1. WritesOK({Insert("users", e, TenantUser(role, t, TRUE))})
  BY TenantUserOK, InsertsUser, ConstantsAssumption
<1>2. QED
  BY <1>1, Starts DEF create_user

LEMMA UpdateUser ==
    ASSUME IInv, NEW r \in Slots, NEW p, NEW t \in Tenants, NEW e \in Emails,
           NEW body \in UserUpdates, update_user(r, p, t, e, body)
    PROVE  IInv'
<1>1. HasRow(e) /\ users[e] \in User
  BY DEF IInv, TypeOK, HasRow, update_user, Owned
<1>2. /\ body.role \in DOMAIN ROLE_RANK \cup {Keep}
      /\ body.active \in BOOLEAN \cup {Keep}
  BY ConstantsAssumption
<1>3. PICK set : set = UpdatedUser(users[e], body)
  OBVIOUS
<1>4. UserChange(set) /\ DOMAIN set = {"role", "active", "version"}
  BY <1>1, <1>2, <1>3 DEF UpdatedUser, UserChange, User
<1>5. WritesOK({Update("users", e, users[e], set)})
  BY <1>1, <1>4, ChangesUser
<1>6. QED
  BY <1>3, <1>5, Starts DEF update_user

LEMMA ChangePassword ==
    ASSUME IInv, NEW r \in Slots, NEW e \in Emails,
           \/ change_password(r, e)
           \/ \E t \in Tenants : \E p : admin_reset_password(r, p, t, e)
    PROVE  IInv'
<1>1. HasRow(e) /\ users[e] \in User
  <2>1. HasRow(e)
    BY ConstantsAssumption DEF change_password, admin_reset_password, Owned,
       Authenticated
  <2>2. QED
    BY <2>1 DEF IInv, TypeOK, HasRow
<1>2. PICK set : set = [version |-> users[e].version + 1]
  OBVIOUS
<1>3. UserChange(set) /\ DOMAIN set = {"version"}
  BY <1>1, <1>2 DEF UserChange, User
<1>4. WritesOK({Update("users", e, users[e], set)})
  BY <1>1, <1>3, ChangesUser
<1>5. \/ Begin(r, "auth.change_password", e, <<>>,
               {Update("users", e, users[e], set)})
      \/ \E p : Begin(r, "user.reset_password", p, <<>>,
                      {Update("users", e, users[e], set)})
  BY <1>2 DEF change_password, admin_reset_password
<1>6. PICK op, p : /\ Begin(r, op, p, <<>>, {Update("users", e, users[e], set)})
                   /\ op # "tenant.invite"
  BY <1>5
<1>7. QED
  BY <1>4, <1>6, Starts

LEMMA DeleteUser ==
    ASSUME IInv, NEW r \in Slots, NEW p, NEW t \in Tenants, NEW e \in Emails,
           delete_user(r, p, t, e)
    PROVE  IInv'
<1>1. LET w == Delete("users", e, users[e])
      IN  WriteOK(w) /\ Still(w) /\ w.table = "users"
  BY ConstantsAssumption DEF Delete, WriteOK, Still, Tables
<1>2. WritesOK({Delete("users", e, users[e])})
  BY <1>1, Others
<1>3. QED
  BY <1>2, Starts DEF delete_user

LEMMA CreateOrResendInvite ==
    ASSUME IInv, NEW r \in Slots, NEW p, NEW t \in Tenants, NEW e \in Emails,
           NEW role \in Roles, create_or_resend_invite(r, p, t, e, role)
    PROVE  IInv'
<1>1. PICK id : id = IF HasRow(e) THEN users[e].id ELSE 0
  OBVIOUS
<1>2. id \in Nat
  BY <1>1 DEF IInv, TypeOK, HasRow, User
<1>3. WritesOK(InviteWrites(t, e, role, id))
  BY <1>2, InviteWritesOK, ConstantsAssumption
<1>4. Begin(r, "invite.create", p, <<>>, InviteWrites(t, e, role, id))
  BY <1>1 DEF create_or_resend_invite
<1>5. QED
  BY <1>3, <1>4, Starts

LEMMA SettlesInvite ==
    ASSUME IInv, NEW r \in Slots, NEW i \in Ids,
           MarkExpired(r, i) \/ \E p \in Callers : revoke_invite(r, p, i)
    PROVE  IInv'
<1>1. ASSUME NEW status \in {"revoked", "expired"}
      PROVE  WritesOK({Update("invites", i, invites[i], [status |-> status])})
  <2>1. PICK set : set = [status |-> status]
    OBVIOUS
  <2>2. InviteChange(set)
    BY <2>1 DEF InviteChange
  <2>3. QED
    BY <2>1, <2>2, UpdatesInvite, Others
<1>2. WritesOK({})
  BY Others
<1>3. CASE MarkExpired(r, i)
  BY <1>1, <1>3, Starts DEF MarkExpired
<1>4. ASSUME NEW p \in Callers, revoke_invite(r, p, i)
      PROVE  IInv'
  <2>1. CASE Pending(i)
    BY <1>1, <1>4, <2>1, Starts DEF revoke_invite
  <2>2. CASE ~Pending(i)
    BY <1>2, <1>4, <2>2, Starts DEF revoke_invite
  <2>3. QED
    BY <2>1, <2>2
<1>5. QED
  BY <1>3, <1>4

LEMMA InvitedAccount ==
    ASSUME NEW i, NEW e \in Invited(i), Pending(i), i \in Ids, IInv
    PROVE  e \in Emails /\ HasRow(e)
  BY DEF Invited, ById, IInv, TypeOK, Pending, Invite

LEMMA Accept ==
    ASSUME IInv, NEW r \in Slots, NEW i \in Ids, accept(r, i)
    PROVE  IInv'
<1>1. Pending(i) /\ invites[i] \in Invite
  BY DEF accept, Acceptable, Pending, IInv, TypeOK
<1>2. PICK e \in Invited(i) :
         Begin(r, "invite.accept", NoRow, <<i>>,
           {Update("users", e, users[e], AcceptedUser(i, users[e])),
            Update("invites", i, invites[i],
                   [status |-> "accepted", user |-> users[e].id])})
  BY DEF accept
<1>3. e \in Emails /\ HasRow(e)
  BY <1>1, <1>2, InvitedAccount
<1>4. users[e] \in User
  BY <1>3 DEF IInv, TypeOK, HasRow
<1>5. PICK set : set = AcceptedUser(i, users[e])
  OBVIOUS
<1>6. /\ UserChange(set)
      /\ "operator" \in DOMAIN set /\ "tenant" \in DOMAIN set
  BY <1>1, <1>4, <1>5 DEF AcceptedUser, UserChange, User, Invite
<1>7. LET w == Update("users", e, users[e], set)
      IN  WriteOK(w) /\ Still(w) /\ w.table = "users"
  BY <1>3, <1>6, UpdatesUser, Changed
<1>8. PICK new : new = [status |-> "accepted", user |-> users[e].id]
  OBVIOUS
<1>9. InviteChange(new)
  BY <1>4, <1>8 DEF InviteChange, User
<1>10. LET w == Update("invites", i, invites[i], new)
       IN  WriteOK(w) /\ Still(w) /\ w.table = "invites"
  BY <1>9, UpdatesInvite
<1>11. WritesOK({Update("users", e, users[e], set),
                 Update("invites", i, invites[i], new)})
  BY <1>7, <1>10, Others
<1>12. QED
  BY <1>2, <1>5, <1>8, <1>11, Starts

LEMMA AcceptNew ==
    ASSUME IInv, NEW r \in Slots, NEW i \in Ids, accept_new(r, i)
    PROVE  IInv'
<1>1. PICK x : x = [phase |-> "failed", op |-> "invite.accept",
                    by |-> "outside", on |-> <<i>>, writes |-> {},
                    overtaken |-> FALSE]
  OBVIOUS
<1>2. SlotOK(x) /\ Shape(x)
  BY <1>1 DEF SlotOK, Shape
<1>3. /\ slot' = [slot EXCEPT ![r] = x]
      /\ served' = served + 1 /\ served < MaxRequests
      /\ UNCHANGED <<db, nextId>>
  BY <1>1 DEF accept_new
<1>4. served' \in 0..MaxRequests /\ DOMAIN slot = Slots
  BY <1>3, ConstantsAssumption DEF IInv, TypeOK
<1>5. QED
  BY <1>2, <1>3, <1>4, SlotsOnly

LEMMA CreateTenant ==
    ASSUME IInv, NEW r \in Slots, NEW p, NEW t \in Tenants, NEW e \in Emails,
           NEW withPassword \in BOOLEAN,
           create_tenant(r, p, t, e, withPassword)
    PROVE  IInv'
<1>1. PICK row : row = [status |-> "active"]
  OBVIOUS
<1>2. PICK u : u = TenantUser("admin", t, withPassword)
  OBVIOUS
<1>3. row \in Tenant /\ u \in User /\ Matching(u)
  BY <1>1, <1>2, TenantUserOK DEF Tenant, ROLE_RANK
<1>4. LET w == Insert("tenants", t, row) IN WriteOK(w) /\ Still(w)
  BY <1>3, Added, Inserts DEF InsertOK, Tables
<1>5. LET w == Insert("trail", t, CreateEntry) IN WriteOK(w) /\ Still(w)
  BY Added, Inserts DEF InsertOK, Tables
<1>6. LET w == Insert("users", e, u) IN WriteOK(w) /\ Still(w)
  BY <1>3, Added, Inserts DEF InsertOK, Tables
<1>7. \A w \in TenantRows(t, e, withPassword) : WriteOK(w) /\ Still(w)
  BY <1>1, <1>2, <1>4, <1>5, <1>6 DEF TenantRows
<1>8. Whole(TenantRows(t, e, withPassword))
  BY DEF Whole
<1>9. WritesOK(TenantRows(t, e, withPassword))
  BY <1>7, <1>8 DEF WritesOK
<1>10. <<t, e>> \in Tenants \X Emails
  OBVIOUS
<1>11. PICK op : Begin(r, op, p, <<t, e>>, TenantRows(t, e, withPassword))
  BY DEF create_tenant
<1>12. QED
  BY <1>9, <1>10, <1>11, Starts

LEMMA SetTenantStatus ==
    ASSUME IInv, NEW r \in Slots, NEW p, NEW t \in Tenants,
           NEW status \in {"active", "suspended"},
           set_tenant_status(r, p, t, status)
    PROVE  IInv'
<1>1. PICK set : set = [status |-> status]
  OBVIOUS
<1>2. TenantChange(set)
  BY <1>1 DEF TenantChange
<1>3. WritesOK({Update("tenants", t, tenants[t], set)})
  BY <1>2, UpdatesTenant, Others
<1>4. QED
  BY <1>1, <1>3, Starts DEF set_tenant_status

LEMMA CreateApiKey ==
    ASSUME IInv, NEW r \in Slots, NEW p, NEW t \in Tenants, NEW role \in Roles,
           create_api_key(r, p, t, role)
    PROVE  IInv'
<1>1. PICK row : row = [tenant |-> t, role |-> role, active |-> TRUE]
  OBVIOUS
<1>2. row \in ApiKey
  BY <1>1, ConstantsAssumption DEF ApiKey
<1>3. LET w == Insert("keys", Fresh, row)
      IN  WriteOK(w) /\ Still(w) /\ w.table = "keys"
  BY <1>2, Inserts, Added DEF InsertOK, Tables
<1>4. WritesOK({Insert("keys", Fresh, row)})
  BY <1>3, Others
<1>5. QED
  BY <1>1, <1>4, Starts DEF create_api_key

LEMMA RevokesActive ==
    ASSUME NEW t \in {"keys", "access"}, NEW k, k # Fresh, NEW row,
           NEW active \in BOOLEAN
    PROVE  WritesOK({Update(t, k, row, [active |-> active])})
<1>1. PICK set : set = [active |-> active]
  OBVIOUS
<1>2. ActiveChange(set)
  BY <1>1 DEF ActiveChange
<1>3. QED
  BY <1>1, <1>2, UpdatesActive, Others

LEMMA RevokeApiKey ==
    ASSUME IInv, NEW r \in Slots, NEW p, NEW k \in Ids, revoke_api_key(r, p, k)
    PROVE  IInv'
<1>1. WritesOK({Update("keys", k, keys[k], [active |-> FALSE])})
  BY ConstantsAssumption, RevokesActive
<1>2. QED
  BY <1>1, Starts DEF revoke_api_key

LEMMA TenantAccess ==
    ASSUME IInv, NEW r \in Slots, NEW p, NEW e \in Emails, NEW t \in Tenants,
           \/ grant_tenant_access(r, p, e, t)
           \/ revoke_tenant_access(r, p, e, t)
    PROVE  IInv'
<1>1. ASSUME NEW active \in BOOLEAN
      PROVE  WritesOK({Update("access", <<e, t>>, access[<<e, t>>],
                              [active |-> active])})
  <2>1. <<e, t>> # Fresh
    BY ConstantsAssumption
  <2>2. QED
    BY <2>1, RevokesActive
<1>2. PICK row : row = [active |-> TRUE]
  OBVIOUS
<1>3. row \in Access
  BY <1>2 DEF Access
<1>4. LET w == Insert("access", <<e, t>>, row)
      IN  WriteOK(w) /\ Still(w) /\ w.table = "access"
  BY <1>3, Inserts, Added DEF InsertOK, Tables
<1>5. WritesOK({Insert("access", <<e, t>>, row)})
  BY <1>4, Others
<1>6. CASE revoke_tenant_access(r, p, e, t)
  <2>1. WritesOK({Update("access", <<e, t>>, access[<<e, t>>],
                         [active |-> FALSE])})
    BY <1>1
  <2>2. QED
    BY <1>6, <2>1, Starts DEF revoke_tenant_access
<1>7. CASE grant_tenant_access(r, p, e, t)
  <2>1. CASE access[<<e, t>>] # NoRow
    <3>1. WritesOK({Update("access", <<e, t>>, access[<<e, t>>],
                           [active |-> TRUE])})
      BY <1>1
    <3>2. QED
      BY <1>7, <2>1, <3>1, Starts DEF grant_tenant_access
  <2>2. CASE access[<<e, t>>] = NoRow
    BY <1>2, <1>5, <1>7, <2>2, Starts DEF grant_tenant_access
  <2>3. QED
    BY <2>1, <2>2
<1>8. QED
  BY <1>6, <1>7

LEMMA CreateOperator ==
    ASSUME IInv, NEW r \in Slots, NEW p, NEW e \in Emails,
           NEW orole \in OperatorRoles, create_operator(r, p, e, orole)
    PROVE  IInv'
<1>1. WritesOK({Insert("users", e, [PlatformOperator EXCEPT !.orole = orole])})
  BY PlatformOperatorOK, InsertsUser, ConstantsAssumption
<1>2. QED
  BY <1>1, Starts DEF create_operator

LEMMA UpdateOperator ==
    ASSUME IInv, NEW r \in Slots, NEW p, NEW e \in Emails,
           NEW orole \in OperatorRoles \cup {Keep},
           NEW active \in BOOLEAN \cup {Keep},
           update_operator(r, p, e, orole, active)
    PROVE  IInv'
<1>1. HasRow(e) /\ users[e] \in User
  BY DEF IInv, TypeOK, HasRow, update_operator
<1>2. PICK set : set =
         [orole   |-> IF orole = Keep THEN users[e].orole ELSE orole,
          active  |-> IF active = Keep THEN users[e].active ELSE active,
          version |-> IF active = FALSE THEN users[e].version + 1
                      ELSE users[e].version]
  OBVIOUS
<1>3. UserChange(set) /\ DOMAIN set = {"orole", "active", "version"}
  BY <1>1, <1>2, ConstantsAssumption DEF UserChange, User
<1>4. WritesOK({Update("users", e, users[e], set)})
  BY <1>1, <1>3, ChangesUser
<1>5. QED
  BY <1>2, <1>4, Starts DEF update_operator

-----------------------------------------------------------------------------
(***************************************************************************)
(* The steps that change rows: a flush, an invitation that falls due, and  *)
(* the operator the process creates when it starts.                        *)
(***************************************************************************)
\* An operator with an id that was given before is an operator before.
NoNewOperator ==
    \A e \in Emails :
        HasRow(e)' /\ users'[e].operator /\ users'[e].id < nextId =>
            /\ HasRow(e) /\ users[e].operator
            /\ users[e].id = users'[e].id

LEMMA WritesLater ==
    ASSUME NEW ws, WritesOK(ws), NoNewOperator, nextId \in Nat,
           nextId' \in Nat, nextId <= nextId'
    PROVE  WritesOK(ws)'
<1>1. ASSUME NEW w \in ws
      PROVE  WriteOK(w)' /\ Still(w)'
  <2>1. WriteOK(w) /\ Still(w)
    BY DEF WritesOK
  <2>2. UpdateOK(w) => UpdateOK(w)'
    BY DEF UpdateOK
  <2>3. WriteOK(w)'
    BY <2>1, <2>2 DEF WriteOK, InsertOK
  <2>4. ASSUME w.how = "update", w.table = "users",
               NEW e \in Emails, e = w.key, HasRow(e)', users'[e].id = w.id,
               users'[e].operator
        PROVE  "operator" \in DOMAIN w.set <=> "tenant" \in DOMAIN w.set
    <3>1. w.id < nextId
      BY <2>1, <2>4 DEF WriteOK, UpdateOK
    <3>2. HasRow(e) /\ users[e].operator /\ users[e].id = w.id
      BY <2>4, <3>1 DEF NoNewOperator
    <3>3. QED
      BY <2>1, <2>4, <3>2 DEF Still
  <2>5. Still(w)'
    BY <2>4 DEF Still
  <2>6. QED
    BY <2>3, <2>5
<1>2. QED
  BY <1>1 DEF WritesOK, Whole

LEMMA SlotLater ==
    ASSUME NEW x, SlotOK(x), NoNewOperator, nextId \in Nat,
           nextId' \in Nat, nextId <= nextId'
    PROVE  SlotOK(x)'
  BY WritesLater DEF SlotOK

LEMMA Expires ==
    ASSUME IInv, NEW i \in Ids, Expire(i)
    PROVE  IInv'
<1>1. PICK y : y = invites[i]
  OBVIOUS
<1>2. y \in Invite
  BY <1>1 DEF Expire, Pending, IInv, TypeOK
<1>3. PICK x : x = [y EXCEPT !.late = TRUE]
  OBVIOUS
<1>4. x \in Invite
  BY <1>2, <1>3 DEF Invite
<1>5. db' = [db EXCEPT !["invites"] = [db["invites"] EXCEPT ![i] = x]]
  BY <1>1, <1>3 DEF Expire, invites
<1>6. /\ DOMAIN db = Tables
      /\ UNCHANGED <<nextId, slot, served>>
  BY DEF Expire, IInv
<1>7. /\ DOMAIN db' = Tables
      /\ users' = users /\ tenants' = tenants /\ keys' = keys
      /\ access' = access /\ trail' = trail
      /\ invites' = [invites EXCEPT ![i] = x]
  BY <1>5, <1>6 DEF Tables, users, tenants, keys, access, trail, invites
<1>8. TypeOK'
  BY <1>4, <1>6, <1>7 DEF IInv, TypeOK, Busy
<1>9. NoNewOperator /\ nextId \in Nat /\ nextId' \in Nat /\ nextId <= nextId'
  BY <1>6, <1>7 DEF IInv, TypeOK, NoNewOperator, HasRow
<1>10. ASSUME NEW q \in Slots
       PROVE  SlotOK(slot[q])'
  <2>1. PICK z : z = slot[q]
    OBVIOUS
  <2>2. SlotOK(z)'
    BY <1>9, <2>1, SlotLater DEF IInv
  <2>3. QED
    BY <1>6, <2>1, <2>2
<1>11. QED
  BY <1>6, <1>7, <1>8, <1>10 DEF IInv, KindMatchesTenant, HasRow

LEMMA EnsuresOperator ==
    ASSUME IInv, NEW e \in Emails, ensure_operator(e)
    PROVE  IInv'
<1>1. PICK x : x = [PlatformOperator EXCEPT !.id = nextId]
  OBVIOUS
<1>2. nextId \in Nat
  BY DEF IInv, TypeOK
<1>3. x \in User /\ x.id = nextId /\ Matching(x)
  BY <1>1, <1>2 DEF PlatformOperator, User, Matching, ROLE_RANK,
     OPERATOR_EFFECTIVE_ROLE
<1>4. db' = [db EXCEPT !["users"] = [db["users"] EXCEPT ![e] = x]]
  BY <1>1 DEF ensure_operator
<1>5. /\ DOMAIN db = Tables
      /\ nextId' = nextId + 1
      /\ UNCHANGED <<slot, served>>
  BY DEF ensure_operator, IInv
<1>6. /\ DOMAIN db' = Tables
      /\ invites' = invites /\ tenants' = tenants /\ keys' = keys
      /\ access' = access /\ trail' = trail
      /\ users' = [users EXCEPT ![e] = x]
  BY <1>4, <1>5 DEF Tables, users, tenants, keys, access, trail, invites
<1>7. TypeOK'
  BY <1>2, <1>3, <1>5, <1>6 DEF IInv, TypeOK, Busy
<1>8. \A q \in Slots : SlotOK(slot[q])'
  BY <1>5 DEF ensure_operator, Busy, SlotOK
<1>9. /\ \A f \in Emails : HasRow(f)' => users'[f].id < nextId'
      /\ KindMatchesTenant'
  BY <1>2, <1>3, <1>5, <1>6
     DEF ensure_operator, NoUsers, IInv, TypeOK, KindMatchesTenant, HasRow,
         Matching
<1>10. QED
  BY <1>5, <1>6, <1>7, <1>8, <1>9 DEF IInv

LEMMA Flushed ==
    ASSUME IInv, NEW r \in Slots, Commit(r), NEW ws, ws = slot[r].writes
    PROVE  /\ WritesOK(ws)
           /\ \A w \in ws : WriteOK(w) /\ Still(w) /\ ~Raises(w)
           /\ DOMAIN db' = Tables
           /\ \A t \in Tables :
                db'[t] = [k \in DOMAIN db[t] |-> RowAfter(ws, t, k)]
<1>1. WritesOK(ws) /\ \A w \in ws : ~Raises(w)
  BY DEF Commit, IInv, SlotOK
<1>2. db' = [t \in DOMAIN db |-> [k \in DOMAIN db[t] |-> RowAfter(ws, t, k)]]
  BY DEF Commit
<1>3. QED
  BY <1>1, <1>2 DEF IInv, WritesOK

LEMMA FlushedRow ==
    ASSUME IInv, NEW r \in Slots, Commit(r), NEW ws, ws = slot[r].writes,
           NEW t \in Tables, NEW k \in DOMAIN db[t]
    PROVE  db'[t][k] = RowAfter(ws, t, k)
<1>1. db' = [b \in DOMAIN db |-> [j \in DOMAIN db[b] |-> RowAfter(ws, b, j)]]
  BY DEF Commit
<1>2. t \in DOMAIN db
  BY DEF IInv, TypeOK
<1>3. QED
  BY <1>1, <1>2

\* An account after the flush.
LEMMA AccountAfter ==
    ASSUME IInv, NEW r \in Slots, Commit(r), NEW ws, ws = slot[r].writes,
           NEW e \in Emails
    PROVE  \/ users'[e] = users[e]
           \/ users'[e] = NoRow
           \/ \E w \in ws :
                 /\ w.table = "users" /\ w.how = "insert" /\ w.key = e
                 /\ w.set \in User /\ Matching(w.set)
                 /\ users[e] = NoRow
                 /\ users'[e] = Numbered(w.set)
           \/ \E w \in ws :
                 /\ w.table = "users" /\ w.how = "update" /\ w.key = e
                 /\ users[e] \in User /\ users[e].id = w.id
                 /\ UserChange(w.set) /\ Still(w)
                 /\ users'[e] = Merged(users[e], w.set)
<1>1. /\ \A w \in ws : WriteOK(w) /\ Still(w) /\ ~Raises(w)
      /\ "users" \in Tables
      /\ db["users"] = users /\ DOMAIN users = Emails
      /\ users \in [Emails -> User \cup {NoRow}]
  BY Flushed DEF Tables, users, IInv, TypeOK
<1>2. users'[e] = RowAfter(ws, "users", e)
  <2>1. db'["users"] = [k \in DOMAIN db["users"] |-> RowAfter(ws, "users", k)]
    BY <1>1, Flushed
  <2>2. db'["users"][e] = RowAfter(ws, "users", e)
    BY <1>1, <2>1
  <2>3. QED
    BY <2>2 DEF users
<1>3. \/ users'[e] = users[e]
      \/ users'[e] = NoRow
      \/ \E w \in ws :
            /\ w.table = "users" /\ w.how = "insert"
            /\ w.key # Fresh => w.key = e /\ users[e] = NoRow
            /\ users'[e] = Numbered(w.set)
      \/ \E w \in ws :
            /\ w.table = "users" /\ w.how = "update" /\ w.key = e
            /\ users[e] # NoRow /\ users[e].id = w.id
            /\ users'[e] = Merged(users[e], w.set)
  BY <1>1, <1>2, Rows
<1>4. ASSUME NEW w \in ws, w.table = "users", w.how = "insert"
      PROVE  w.key # Fresh /\ w.set \in User /\ Matching(w.set)
  BY <1>1, <1>4, ConstantsAssumption DEF WriteOK, InsertOK
<1>5. ASSUME NEW w \in ws, w.table = "users", w.how = "update"
      PROVE  UserChange(w.set) /\ Still(w)
  BY <1>1, <1>5 DEF WriteOK, UpdateOK
<1>6. QED
  BY <1>1, <1>3, <1>4, <1>5

\* Accounts after the flush: well-typed, of a kind that matches the tenant,
\* with an id given; none has become an operator.
LEMMA AccountsAfter ==
    ASSUME IInv, NEW r \in Slots, Commit(r), NEW e \in Emails
    PROVE  /\ users'[e] \in User \cup {NoRow}
           /\ HasRow(e)' => /\ users'[e].id < nextId'
                            /\ users'[e].operator <=> users'[e].tenant = NoRow
           /\ HasRow(e)' /\ users'[e].operator /\ users'[e].id < nextId =>
                 /\ HasRow(e) /\ users[e].operator
                 /\ users[e].id = users'[e].id
<1> PICK ws : ws = slot[r].writes
  OBVIOUS
<1>1. /\ nextId \in Nat /\ nextId' \in Nat /\ nextId <= nextId'
      /\ \A w \in ws : w.how = "insert" /\ w.table = "users" =>
            nextId' = nextId + 1
  BY DEF IInv, TypeOK, Commit
<1>2. /\ users[e] \in User \cup {NoRow}
      /\ HasRow(e) => users[e].id < nextId /\ Matching(users[e])
  BY DEF IInv, TypeOK, KindMatchesTenant, Matching
<1>3. NoRow \notin User
  BY ConstantsAssumption
<1>4. CASE users'[e] = users[e]
  BY <1>1, <1>2, <1>3, <1>4 DEF HasRow, Matching, User
<1>5. CASE users'[e] = NoRow
  BY <1>5 DEF HasRow
<1>6. ASSUME NEW w \in ws, w.table = "users", w.how = "insert", w.key = e,
             w.set \in User, Matching(w.set), users'[e] = Numbered(w.set)
      PROVE  /\ users'[e] \in User
             /\ users'[e].id = nextId /\ nextId' = nextId + 1
             /\ Matching(users'[e])
  BY <1>1, <1>6, NumberedUser DEF Matching
<1>7. ASSUME NEW w \in ws, w.table = "users", w.how = "update", w.key = e,
             users[e] \in User, users[e].id = w.id, UserChange(w.set),
             Still(w), users'[e] = Merged(users[e], w.set)
      PROVE  /\ users'[e] \in User
             /\ HasRow(e)
             /\ users'[e].id = users[e].id
             /\ Matching(users'[e])
             /\ users'[e].operator => users[e].operator
  <2>1. HasRow(e) /\ Matching(users[e])
    BY <1>2, <1>3, <1>7 DEF HasRow
  <2>2. PICK v : v = users'[e]
    OBVIOUS
  <2>3. /\ v \in User /\ v.id = users[e].id
        /\ v.operator = IF "operator" \in DOMAIN w.set THEN FALSE
                        ELSE users[e].operator
        /\ v.tenant = IF "tenant" \in DOMAIN w.set THEN w.set["tenant"]
                      ELSE users[e].tenant
    <3>1. PICK u, set : u = users[e] /\ set = w.set
      OBVIOUS
    <3>2. u \in User /\ UserChange(set) /\ v = Merged(u, set)
      BY <1>7, <2>2, <3>1
    <3>3. QED
      BY <3>1, <3>2, MergedUser
  <2>4. "tenant" \in DOMAIN w.set => w.set["tenant"] # NoRow
    BY <1>7, ConstantsAssumption DEF UserChange
  <2>5. CASE users[e].operator
    <3>1. "operator" \in DOMAIN w.set <=> "tenant" \in DOMAIN w.set
      BY <1>7, <2>1, <2>5 DEF Still
    <3>2. QED
      BY <2>1, <2>2, <2>3, <2>4, <2>5, <3>1 DEF Matching
  <2>6. CASE ~users[e].operator
    BY <2>1, <2>2, <2>3, <2>4, <2>6 DEF Matching, User
  <2>7. QED
    BY <2>5, <2>6
<1>8. QED
  <2>1. CASE \E w \in ws :
               /\ w.table = "users" /\ w.how = "insert" /\ w.key = e
               /\ w.set \in User /\ Matching(w.set)
               /\ users'[e] = Numbered(w.set)
    BY <1>1, <1>6, <2>1 DEF Matching
  <2>2. CASE \E w \in ws :
               /\ w.table = "users" /\ w.how = "update" /\ w.key = e
               /\ users[e] \in User /\ users[e].id = w.id
               /\ UserChange(w.set) /\ Still(w)
               /\ users'[e] = Merged(users[e], w.set)
    <3>1. /\ users'[e] \in User /\ HasRow(e) /\ users'[e].id = users[e].id
          /\ Matching(users'[e])
          /\ users'[e].operator => users[e].operator
      BY <1>7, <2>2
    <3>2. users[e].id < nextId /\ users[e].id \in Nat
      BY <1>2, <3>1 DEF HasRow, User
    <3>3. QED
      BY <1>1, <3>1, <3>2 DEF Matching
  <2>3. QED
    BY <1>4, <1>5, <2>1, <2>2, AccountAfter

\* The rows of the other tables.
RowTypes ==
    [tenants |-> Tenant \cup {NoRow},
     invites |-> Invite \cup {NoRow, Gone},
     keys    |-> ApiKey \cup {NoRow},
     access  |-> Access \cup {NoRow},
     trail   |-> {CreateEntry, NoRow}]

LEMMA OthersAfter ==
    ASSUME IInv, NEW r \in Slots, Commit(r),
           NEW t \in Tables \ {"users"}, NEW k \in DOMAIN db[t]
    PROVE  db'[t][k] \in RowTypes[t]
<1> PICK ws : ws = slot[r].writes
  OBVIOUS
<1>1. \A w \in ws : WriteOK(w) /\ ~Raises(w)
  BY Flushed
<1>2. db'[t][k] = RowAfter(ws, t, k)
  <2>1. db'[t] = [j \in DOMAIN db[t] |-> RowAfter(ws, t, j)]
    BY Flushed
  <2>2. QED
    BY <2>1
<1>3. db[t][k] \in RowTypes[t]
  BY DEF RowTypes, IInv, TypeOK, Tables, tenants, invites, keys, access, trail
<1>4. CASE db'[t][k] = db[t][k]
  BY <1>3, <1>4
<1>5. CASE t = "invites" /\ db'[t][k] = Gone
  BY <1>5 DEF RowTypes
<1>6. CASE t = "access" /\ db'[t][k] = NoRow
  BY <1>6 DEF RowTypes
<1>7. ASSUME NEW w \in ws, w.table = t, w.how = "insert", db'[t][k] = w.set
      PROVE  db'[t][k] \in RowTypes[t]
  <2>1. InsertOK(w)
    BY <1>1, <1>7 DEF WriteOK
  <2>2. w.set \in RowTypes[t]
    BY <1>7, <2>1 DEF InsertOK, RowTypes, Tables
  <2>3. QED
    BY <1>7, <2>2
<1>8. ASSUME NEW w \in ws, w.table = t, w.how = "update",
             db[t][k] \notin {NoRow, Gone}, db'[t][k] = Merged(db[t][k], w.set)
      PROVE  db'[t][k] \in RowTypes[t]
  <2>1. UpdateOK(w)
    BY <1>1, <1>8 DEF WriteOK
  <2>2. PICK row, set : row = db[t][k] /\ set = w.set
    OBVIOUS
  <2>3. CASE t = "tenants"
    <3>1. row \in Tenant /\ TenantChange(set)
      BY <1>3, <1>8, <2>1, <2>2, <2>3 DEF RowTypes, UpdateOK
    <3>2. Merged(row, set) \in Tenant
      BY <3>1, MergedTenant
    <3>3. QED
      BY <1>8, <2>2, <2>3, <3>2 DEF RowTypes
  <2>4. CASE t = "invites"
    <3>1. row \in Invite /\ InviteChange(set)
      BY <1>3, <1>8, <2>1, <2>2, <2>4 DEF RowTypes, UpdateOK
    <3>2. Merged(row, set) \in Invite
      BY <3>1, MergedInvite
    <3>3. QED
      BY <1>8, <2>2, <2>4, <3>2 DEF RowTypes
  <2>5. CASE t = "keys"
    <3>1. row \in ApiKey /\ ActiveChange(set)
      BY <1>3, <1>8, <2>1, <2>2, <2>5 DEF RowTypes, UpdateOK
    <3>2. Merged(row, set) \in ApiKey
      BY <3>1, MergedActive
    <3>3. QED
      BY <1>8, <2>2, <2>5, <3>2 DEF RowTypes
  <2>6. CASE t = "access"
    <3>1. row \in Access /\ ActiveChange(set)
      BY <1>3, <1>8, <2>1, <2>2, <2>6 DEF RowTypes, UpdateOK
    <3>2. Merged(row, set) \in Access
      BY <3>1, MergedActive
    <3>3. QED
      BY <1>8, <2>2, <2>6, <3>2 DEF RowTypes
  <2>7. t # "trail"
    BY <1>8, <2>1 DEF UpdateOK
  <2>8. QED
    BY <2>3, <2>4, <2>5, <2>6, <2>7 DEF Tables
<1>9. \/ db'[t][k] = db[t][k]
      \/ t = "invites" /\ db'[t][k] = Gone
      \/ t = "access" /\ db'[t][k] = NoRow
      \/ \E w \in ws :
            w.table = t /\ w.how = "insert" /\ db'[t][k] = w.set
      \/ \E w \in ws :
            /\ w.table = t /\ w.how = "update"
            /\ db[t][k] \notin {NoRow, Gone}
            /\ db'[t][k] = Merged(db[t][k], w.set)
  BY <1>1, <1>2, Rows
<1>10. QED
  BY <1>4, <1>5, <1>6, <1>7, <1>8, <1>9

LEMMA CommitSlot ==
    ASSUME IInv, NEW r \in Slots, Commit(r), NEW q \in Slots
    PROVE  SlotOK(slot[q])' /\ Shape(slot[q])'
<1>1. /\ NoNewOperator
      /\ nextId \in Nat /\ nextId' \in Nat /\ nextId <= nextId'
  <2>1. NoNewOperator
    BY AccountsAfter DEF NoNewOperator
  <2>2. nextId \in Nat
    BY DEF IInv, TypeOK
  <2>3. nextId' \in {nextId, nextId + 1}
    BY DEF Commit
  <2>4. QED
    BY <2>1, <2>2, <2>3
<1>2. SlotOK(Idle)' /\ Shape(Idle)
  BY DEF SlotOK, Shape, Idle
<1>3. PICK y : y = slot[q]
  OBVIOUS
<1>4. SlotOK(y) /\ Shape(y)
  BY <1>3 DEF IInv, TypeOK, Shape, Busy
<1>5. SlotOK(y)'
  BY <1>1, <1>4, SlotLater
<1>6. CASE slot'[q] = Idle
  BY <1>2, <1>6
<1>7. CASE /\ q = r /\ y.phase = "flush" /\ y.op = "tenant.invite"
           /\ slot'[q] = [y EXCEPT !.phase = "invite",
                                   !.on = Append(@, nextId)]
  <2>1. PICK t \in Tenants, e \in Emails : y.on = <<t, e>>
    BY <1>4, <1>7 DEF SlotOK
  <2>2. PICK n : n = nextId
    OBVIOUS
  <2>3. PICK x : x = [y EXCEPT !.phase = "invite", !.on = Append(@, nextId)]
    OBVIOUS
  <2>4. PICK on : on = Append(y.on, nextId)
    OBVIOUS
  <2>5. on[1] = t /\ on[2] = e /\ on[3] = n
    <3>1. PICK S : t \in S /\ e \in S /\ n \in S
      <4>1. t \in {t, e, n} /\ e \in {t, e, n} /\ n \in {t, e, n}
        OBVIOUS
      <4>2. QED
        BY <4>1
    <3>2. <<t, e>> \in Seq(S) /\ Len(<<t, e>>) = 2
      BY <3>1
    <3>3. on = Append(<<t, e>>, n)
      BY <2>1, <2>2, <2>4
    <3>4. QED
      BY <3>1, <3>2, <3>3
  <2>6. DOMAIN y = {"phase", "op", "by", "on", "writes", "overtaken"}
    BY <1>4, <1>7 DEF Shape
  <2>7. /\ x.phase = "invite" /\ x.on = on
        /\ x.overtaken = y.overtaken /\ DOMAIN x = DOMAIN y
    BY <2>3, <2>4, <2>6
  <2>8. SlotOK(x)' /\ Shape(x)
    BY <1>1, <1>4, <1>7, <2>2, <2>6, <2>7, <2>5 DEF SlotOK, Shape
  <2>9. QED
    BY <1>7, <2>3, <2>8
<1>8. CASE /\ y.phase # "idle"
           /\ slot'[q] = [y EXCEPT !.overtaken = @ \/ db' # db]
  <2>1. PICK x : x = [y EXCEPT !.overtaken = y.overtaken \/ db' # db]
    OBVIOUS
  <2>2. DOMAIN y = {"phase", "op", "by", "on", "writes", "overtaken"}
    BY <1>4, <1>8 DEF Shape
  <2>3. /\ x.phase = y.phase /\ x.on = y.on /\ x.op = y.op
        /\ x.writes = y.writes /\ DOMAIN x = DOMAIN y
    BY <2>1, <2>2
  <2>4. x.overtaken \in BOOLEAN
    BY <2>1, <2>2
  <2>5. SlotOK(x)' /\ Shape(x)
    BY <1>4, <1>5, <2>2, <2>3, <2>4 DEF SlotOK, Shape
  <2>6. QED
    BY <1>8, <2>1, <2>5
<1>9. \/ slot'[q] = Idle
      \/ /\ q = r /\ y.phase = "flush" /\ y.op = "tenant.invite"
         /\ slot'[q] = [y EXCEPT !.phase = "invite",
                                 !.on = Append(@, nextId)]
      \/ /\ y.phase # "idle"
         /\ slot'[q] = [y EXCEPT !.overtaken = @ \/ db' # db]
  BY <1>3 DEF Commit, Busy
<1>10. QED
  BY <1>6, <1>7, <1>8, <1>9

LEMMA Commits ==
    ASSUME IInv, NEW r \in Slots, Commit(r)
    PROVE  IInv'
<1>1. /\ DOMAIN db' = Tables
      /\ \A t \in Tables :
            /\ DOMAIN db'[t] = DOMAIN db[t]
            /\ db'[t] = [k \in DOMAIN db[t] |-> db'[t][k]]
  <2>1. PICK ws : ws = slot[r].writes
    OBVIOUS
  <2>2. QED
    BY <2>1, Flushed
<1>2. users' \in [Emails -> User \cup {NoRow}]
  <2>1. /\ DOMAIN db'["users"] = Emails
        /\ db'["users"] = [k \in Emails |-> db'["users"][k]]
    BY <1>1 DEF Tables, IInv, TypeOK, users
  <2>2. QED
    BY <2>1, AccountsAfter DEF users
<1>3. /\ tenants' \in [Tenants -> Tenant \cup {NoRow}]
      /\ invites' \in [Ids -> Invite \cup {NoRow, Gone}]
      /\ keys' \in [Ids -> ApiKey \cup {NoRow}]
      /\ access' \in [Emails \X Tenants -> Access \cup {NoRow}]
      /\ trail' \in [Tenants -> {CreateEntry, NoRow}]
  <2>1. \A t \in Tables \ {"users"} : db'[t] \in [DOMAIN db[t] -> RowTypes[t]]
    BY <1>1, OthersAfter
  <2>2. /\ DOMAIN db["tenants"] = Tenants /\ DOMAIN db["invites"] = Ids
        /\ DOMAIN db["keys"] = Ids /\ DOMAIN db["access"] = Emails \X Tenants
        /\ DOMAIN db["trail"] = Tenants
    BY DEF IInv, TypeOK, tenants, invites, keys, access, trail
  <2>3. QED
    BY <2>1, <2>2 DEF Tables, RowTypes, tenants, invites, keys, access, trail
<1>4. nextId' \in Nat /\ served' \in 0..MaxRequests
  BY DEF Commit, IInv, TypeOK
<1>5. DOMAIN slot' = Slots
  BY DEF Commit
<1>6. TypeOK'
  BY <1>2, <1>3, <1>4, CommitSlot DEF TypeOK, Shape, Busy
<1>7. /\ \A e \in Emails : HasRow(e)' => users'[e].id < nextId'
      /\ KindMatchesTenant'
  BY AccountsAfter DEF KindMatchesTenant, HasRow
<1>8. QED
  BY <1>1, <1>5, <1>6, <1>7, CommitSlot DEF IInv

-----------------------------------------------------------------------------
LEMMA Initially == Init => IInv
<1> SUFFICES ASSUME Init
             PROVE  IInv
  OBVIOUS
<1>1. /\ users = [e \in Emails |-> NoRow]
      /\ tenants = [t \in Tenants |-> NoRow]
      /\ invites = [i \in Ids |-> NoRow]
      /\ keys = [k \in Ids |-> NoRow]
      /\ access = [g \in Emails \X Tenants |-> NoRow]
      /\ trail = [t \in Tenants |-> NoRow]
      /\ DOMAIN db = Tables
  BY DEF Init, Start, EmptyTables, users, tenants, invites, keys, access,
     trail, Tables
<1>2. nextId = 1 /\ slot = [r \in Slots |-> Idle] /\ served = 0
  BY DEF Init, Start
<1>3. TypeOK
  BY <1>1, <1>2, ConstantsAssumption DEF TypeOK, Busy, Idle
<1>4. \A r \in Slots : SlotOK(slot[r])
  BY <1>2 DEF SlotOK, Idle
<1>5. QED
  BY <1>1, <1>2, <1>3, <1>4 DEF IInv, KindMatchesTenant, HasRow

LEMMA Requested ==
    ASSUME IInv, NEW r \in Slots, Request(r)
    PROVE  IInv'
<1>1. ASSUME NEW e \in Emails, bootstrap_operator(r, e) \/ change_password(r, e)
      PROVE  IInv'
  BY <1>1, BootstrapOperator, ChangePassword
<1>2. ASSUME InviteRequest(r)
      PROVE  IInv'
  BY <1>2, SettlesInvite, Accept, AcceptNew DEF InviteRequest
<1>3. ASSUME NEW p \in Callers, OperatorRequest(r, p)
      PROVE  IInv'
  BY <1>3, RevokeApiKey, CreateOperator, UpdateOperator DEF OperatorRequest
<1>4. ASSUME NEW p \in Callers, NEW t \in Tenants, TenantRequest(r, p, t)
      PROVE  IInv'
  BY <1>4, CreateTenant, CreateOrResendInvite, SetTenantStatus, CreateApiKey,
     TenantAccess DEF TenantRequest
<1>5. ASSUME NEW p \in Callers, NEW t \in Tenants, NEW e \in Emails,
             UserRequest(r, p, t, e)
      PROVE  IInv'
  BY <1>5, CreateUser, UpdateUser, ChangePassword, DeleteUser DEF UserRequest
<1>6. QED
  BY <1>1, <1>2, <1>3, <1>4, <1>5 DEF Request

LEMMA Unchanged ==
    ASSUME IInv, UNCHANGED vars
    PROVE  IInv'
<1>1. UNCHANGED <<db, nextId, served, slot>>
  BY DEF vars
<1>2. QED
  BY <1>1, SlotsOnly DEF IInv, TypeOK

LEMMA Stepwise == IInv /\ [Next]_vars => IInv'
<1> SUFFICES ASSUME IInv, [Next]_vars
             PROVE  IInv'
  OBVIOUS
<1>1. ASSUME NEW r \in Slots, Request(r)
      PROVE  IInv'
  BY <1>1, Requested
<1>2. ASSUME NEW r \in Slots, Commit(r)
      PROVE  IInv'
  BY <1>2, Commits
<1>3. ASSUME NEW r \in Slots, CommitRaises(r) \/ Answer500(r)
      PROVE  IInv'
  BY <1>3, Frees
<1>4. ASSUME NEW r \in Slots, InviteAdmin(r)
      PROVE  IInv'
  BY <1>4, InvitesAdmin
<1>5. CASE \E e \in Emails : ensure_operator(e)
  BY <1>5, EnsuresOperator
<1>6. CASE \E i \in Ids : Expire(i)
  BY <1>6, Expires
<1>7. CASE Crash
  BY <1>7, Frees
<1>8. CASE UNCHANGED vars
  BY <1>8, Unchanged
<1>9. QED
  BY <1>1, <1>2, <1>3, <1>4, <1>5, <1>6, <1>7, <1>8 DEF Next

\* What any request is about to write is what its handler decided, still true
\* of the accounts it read unless another commit overtook it, and the accounts
\* in the database hold together.
THEOREM Sound == Spec => []IInv
<1>1. QED
  BY Initially, Stepwise, PTL DEF Spec

\* Every row keeps its type and every slot its shape, whatever requests are
\* in flight, fail or are lost: the ORM objects of app/models.py.
THEOREM TypeCorrect == Spec => []TypeOK
<1>1. IInv => TypeOK
  BY DEF IInv
<1>2. QED
  BY <1>1, Sound, PTL

\* is_operator and tenant_id of an account agree, for any number of requests
\* that each flush the columns they found different (accept, app/invites.py).
THEOREM KindMatches == Spec => []KindMatchesTenant
<1>1. IInv => KindMatchesTenant
  BY DEF IInv
<1>2. QED
  BY <1>1, Sound, PTL

-----------------------------------------------------------------------------
(***************************************************************************)
(* A tenant is created whole.                                              *)
(***************************************************************************)
LEMMA Inserted ==
    ASSUME IInv, NEW r \in Slots, Commit(r), NEW ws, ws = slot[r].writes,
           NEW t \in Tenants, NEW e \in Emails, NEW p \in BOOLEAN,
           ws = TenantRows(t, e, p)
    PROVE  /\ trail'[t] = CreateEntry
           /\ ~HasRow(e) /\ Owned(e, t)'
<1>1. PICK u : u = TenantUser("admin", t, p)
  OBVIOUS
<1>2. u \in User /\ u.tenant = t
  BY <1>1, TenantUserOK DEF TenantUser, ROLE_RANK
<1>3. PICK v, w, x : /\ v = Insert("tenants", t, [status |-> "active"])
                     /\ w = Insert("trail", t, CreateEntry)
                     /\ x = Insert("users", e, u)
  OBVIOUS
<1>4. /\ v.table = "tenants" /\ v.how = "insert"
      /\ w.table = "trail" /\ w.how = "insert" /\ w.key = t
      /\ w.set = CreateEntry
      /\ x.table = "users" /\ x.how = "insert" /\ x.key = e /\ x.set = u
  BY <1>3, Added
<1>5. ws = {v, w, x}
  BY <1>1, <1>3 DEF TenantRows
<1>6. t # Fresh /\ e # Fresh
  BY ConstantsAssumption
<1>7. Writes(ws, "trail", t) = {w} /\ Writes(ws, "users", e) = {x}
  BY <1>4, <1>5, <1>6 DEF Writes
<1>8. /\ RowAfter(ws, "trail", t) = Written("trail", t, w)
      /\ RowAfter(ws, "users", e) = Written("users", e, x)
  <2>1. ASSUME NEW z, NEW b, NEW k, Writes(ws, b, k) = {z}
        PROVE  RowAfter(ws, b, k) = Written(b, k, z)
    <3>1. (CHOOSE y \in {z} : TRUE) = z
      OBVIOUS
    <3>2. QED
      BY <2>1, <3>1 DEF RowAfter
  <2>2. QED
    BY <1>7, <2>1
<1>9. trail'[t] = CreateEntry
  <2>1. "trail" \in Tables /\ DOMAIN db["trail"] = Tenants
    BY DEF Tables, IInv, TypeOK, trail
  <2>2. db'["trail"][t] = RowAfter(ws, "trail", t)
    BY <2>1, FlushedRow
  <2>3. db'["trail"][t] = Written("trail", t, w)
    BY <1>8, <2>2
  <2>4. Written("trail", t, w) = CreateEntry
    BY <1>4 DEF Written
  <2>5. QED
    BY <2>3, <2>4 DEF trail
<1>10. users'[e] = Numbered(u)
  <2>1. "users" \in Tables /\ DOMAIN db["users"] = Emails
    BY DEF Tables, IInv, TypeOK, users
  <2>2. db'["users"][e] = RowAfter(ws, "users", e)
    BY <2>1, FlushedRow
  <2>3. db'["users"][e] = Written("users", e, x)
    BY <1>8, <2>2
  <2>4. Written("users", e, x) = Numbered(u)
    BY <1>4 DEF Written, Numbered
  <2>5. QED
    BY <2>3, <2>4 DEF users
<1>11. Owned(e, t)'
  <2>1. nextId \in Nat
    BY DEF IInv, TypeOK
  <2>2. Numbered(u) \in User /\ Numbered(u).tenant = t
    BY <1>2, <2>1, NumberedUser
  <2>3. QED
    BY <1>10, <2>2, ConstantsAssumption DEF Owned, HasRow
<1>12. ~HasRow(e)
  <2>1. ~Raises(x)
    BY <1>5, Flushed
  <2>2. QED
    BY <1>4, <1>6, <2>1 DEF Raises, HasRow, users
<1>13. QED
  BY <1>9, <1>11, <1>12

TenantStep ==
    \A t \in Tenants : tenants[t] = NoRow /\ tenants'[t] # NoRow =>
        /\ trail'[t] = CreateEntry
        /\ \E e \in Emails : ~HasRow(e) /\ Owned(e, t)'

LEMMA OnlyFlushesAddTenants ==
    ASSUME IInv, [Next]_vars, ~\E r \in Slots : Commit(r)
    PROVE  /\ tenants' = tenants
           /\ \/ users' = users
              \/ NoUsers
<1>1. ASSUME UNCHANGED db
      PROVE  tenants' = tenants /\ users' = users
  BY <1>1 DEF tenants, users
<1>2. ASSUME NEW r \in Slots, Request(r)
      PROVE  UNCHANGED db
  <2>1. ASSUME NEW e \in Emails,
               bootstrap_operator(r, e) \/ change_password(r, e)
        PROVE  UNCHANGED db
    BY <2>1 DEF bootstrap_operator, change_password, Begin
  <2>2. ASSUME InviteRequest(r)
        PROVE  UNCHANGED db
    BY <2>2 DEF InviteRequest, MarkExpired, accept, accept_new,
       revoke_invite, Begin
  <2>3. ASSUME NEW p \in Callers, OperatorRequest(r, p)
        PROVE  UNCHANGED db
    BY <2>3 DEF OperatorRequest, revoke_api_key, create_operator,
       update_operator, Begin
  <2>4. ASSUME NEW p \in Callers, NEW t \in Tenants, TenantRequest(r, p, t)
        PROVE  UNCHANGED db
    BY <2>4 DEF TenantRequest, create_tenant, create_or_resend_invite,
       set_tenant_status, create_api_key, grant_tenant_access,
       revoke_tenant_access, Begin
  <2>5. ASSUME NEW p \in Callers, NEW t \in Tenants, NEW e \in Emails,
               UserRequest(r, p, t, e)
        PROVE  UNCHANGED db
    BY <2>5 DEF UserRequest, create_user, update_user, admin_reset_password,
       delete_user, Begin
  <2>6. QED
    BY <1>2, <2>1, <2>2, <2>3, <2>4, <2>5 DEF Request
<1>3. ASSUME NEW r \in Slots, CommitRaises(r) \/ Answer500(r) \/ InviteAdmin(r)
      PROVE  UNCHANGED db
  BY <1>3 DEF CommitRaises, Answer500, InviteAdmin
<1>4. ASSUME NEW e \in Emails, ensure_operator(e)
      PROVE  tenants' = tenants /\ NoUsers
  BY <1>4 DEF ensure_operator, tenants, IInv, Tables
<1>5. ASSUME NEW i \in Ids, Expire(i)
      PROVE  tenants' = tenants /\ users' = users
  BY <1>5 DEF Expire, tenants, users, IInv, Tables
<1>6. CASE Crash
  BY <1>1, <1>6 DEF Crash
<1>7. CASE UNCHANGED vars
  BY <1>1, <1>7 DEF vars
<1>8. QED
  BY <1>1, <1>2, <1>3, <1>4, <1>5, <1>6, <1>7 DEF Next

LEMMA TenantSteps ==
    ASSUME IInv, [Next]_vars
    PROVE  TenantStep
<1> SUFFICES ASSUME NEW t \in Tenants, tenants[t] = NoRow,
                    tenants'[t] # NoRow
             PROVE  /\ trail'[t] = CreateEntry
                    /\ \E e \in Emails : ~HasRow(e) /\ Owned(e, t)'
  BY DEF TenantStep
<1>1. PICK r \in Slots : Commit(r)
  BY OnlyFlushesAddTenants
<1>2. PICK ws : ws = slot[r].writes
  OBVIOUS
<1>3. /\ "tenants" \in Tables /\ t \in DOMAIN db["tenants"]
      /\ db["tenants"][t] = NoRow
  BY DEF Tables, IInv, TypeOK, tenants
<1>4. \A w \in ws : WriteOK(w) /\ ~Raises(w)
  BY <1>1, <1>2, Flushed
<1>5. RowAfter(ws, "tenants", t) # NoRow
  <2>1. db'["tenants"] =
           [k \in DOMAIN db["tenants"] |-> RowAfter(ws, "tenants", k)]
    BY <1>1, <1>2, <1>3, Flushed
  <2>2. QED
    BY <1>3, <2>1 DEF tenants
<1>6. PICK w \in ws : /\ w.table = "tenants" /\ w.how = "insert"
                      /\ w.key # Fresh => w.key = t
  BY <1>3, <1>4, <1>5, Rows
<1>7. PICK t2 \in Tenants, e \in Emails, p \in BOOLEAN :
         ws = TenantRows(t2, e, p)
  BY <1>1, <1>2, <1>6, Flushed DEF WritesOK, Whole
<1>8. w.key = t2
  BY <1>6, <1>7 DEF TenantRows, Insert
<1>9. t2 = t
  BY <1>6, <1>8, ConstantsAssumption
<1>10. QED
  BY <1>1, <1>2, <1>7, <1>9, Inserted

\* A tenant never appears without its audit entry and its first admin: the
\* three rows are one transaction of create_tenant (tenants_routes.py).
THEOREM TenantWhole == Spec => TenantCreatedWhole
<1>1. IInv /\ [Next]_vars => [TenantStep]_vars
  BY TenantSteps
<1>2. QED
  BY <1>1, Sound, PTL DEF Spec, TenantCreatedWhole, TenantStep

-----------------------------------------------------------------------------
(***************************************************************************)
(* The last active admin.  While no other request commits, the accounts a  *)
(* handler counted are still those of the table: each pending write of an  *)
(* account is harmless, and there is at most one.                          *)
(***************************************************************************)
\* What a write that is harmless does to an admin's row.
KeepsAdmin(w) ==
    /\ w.how = "update"
    /\ "role" \in DOMAIN w.set => w.set["role"] = "admin"
    /\ "active" \in DOMAIN w.set => w.set["active"] = TRUE
    /\ "tenant" \notin DOMAIN w.set

Harmless(w) ==
    w.table = "users" /\ w.how # "insert" =>
        \A t \in Tenants : w.key \in ActiveAdmins(t) =>
            KeepsAdmin(w) \/ \E f \in ActiveAdmins(t) : f # w.key

\* The exceptions AdminLostOnlyInARace names.
Excused(op, by) ==
    \/ op = "invite.accept"
    \/ op = "user.update" /\ by = "outside"

OneAccount(ws) ==
    \A v, w \in ws : v.table = "users" /\ w.table = "users" => v = w

Judged(ws, op, by) ==
    ~Excused(op, by) => OneAccount(ws) /\ \A w \in ws : Harmless(w)

Foreseen(x) ==
    x.phase = "flush" /\ ~x.overtaken => Judged(x.writes, x.op, x.by)

FInv == \A r \in Slots : Foreseen(slot[r])

LEMMA JudgedKept ==
    ASSUME NEW ws, NEW op, NEW by, Judged(ws, op, by), users' = users
    PROVE  Judged(ws, op, by)'
<1>1. \A t \in Tenants : ActiveAdmins(t)' = ActiveAdmins(t)
  BY DEF ActiveAdmins, Owned, HasRow
<1>2. \A w \in ws : Harmless(w) => Harmless(w)'
  BY <1>1 DEF Harmless
<1>3. QED
  BY <1>2 DEF Judged

LEMMA ForeseenKept ==
    ASSUME NEW x, Foreseen(x), users' = users
    PROVE  Foreseen(x)'
  BY JudgedKept DEF Foreseen

\* Steps that change slots, and no account.
LEMMA ForeseenSlots ==
    ASSUME FInv, users' = users,
           \A q \in Slots :
              slot'[q] = slot[q] \/ \E x : slot'[q] = x /\ Foreseen(x)
    PROVE  FInv'
<1>1. ASSUME NEW q \in Slots
      PROVE  Foreseen(slot[q])'
  <2>1. PICK x : slot'[q] = x /\ Foreseen(x)
    BY DEF FInv
  <2>2. Foreseen(x)'
    BY <2>1, ForeseenKept
  <2>3. QED
    BY <2>1, <2>2
<1>2. QED
  BY <1>1 DEF FInv

LEMMA Begun ==
    ASSUME IInv, FInv, NEW r \in Slots, NEW op, NEW by, NEW on, NEW ws,
           Begin(r, op, by, on, ws), Judged(ws, op, Kind(by))
    PROVE  FInv'
<1>1. PICK x : x = [phase |-> "flush", op |-> op, by |-> Kind(by), on |-> on,
                    writes |-> ws, overtaken |-> FALSE]
  OBVIOUS
<1>2. x.writes = ws /\ x.op = op /\ x.by = Kind(by)
  BY <1>1
<1>3. Foreseen(x)
  BY <1>2 DEF Foreseen
<1>4. slot' = [slot EXCEPT ![r] = x] /\ users' = users /\ DOMAIN slot = Slots
  BY <1>1 DEF Begin, users, IInv
<1>5. QED
  BY <1>3, <1>4, ForeseenSlots

\* A handler that touches no account, or inserts one.
LEMMA JudgedOthers ==
    ASSUME NEW ws, NEW op, NEW by,
           \A w \in ws : w.table # "users"
    PROVE  Judged(ws, op, by)
  BY DEF Judged, OneAccount, Harmless

LEMMA JudgedInsert ==
    ASSUME NEW op, NEW by, NEW e, NEW u
    PROVE  Judged({Insert("users", e, u)}, op, by)
  BY Added DEF Judged, OneAccount, Harmless

LEMMA JudgedOne ==
    ASSUME NEW op, NEW by, NEW w, Harmless(w)
    PROVE  Judged({w}, op, by)
  BY DEF Judged, OneAccount

\* An update that names neither role nor state nor tenant.
LEMMA JudgedPlain ==
    ASSUME NEW op, NEW by, NEW e, NEW u, NEW set,
           DOMAIN set \cap {"role", "active", "tenant"} = {}
    PROVE  Judged({Update("users", e, u, set)}, op, by)
<1>1. PICK w : w = Update("users", e, u, set)
  OBVIOUS
<1>2. w.how = "update" /\ \A c \in DOMAIN w.set : c \in DOMAIN set
  BY <1>1, Changed
<1>3. Harmless(w)
  BY <1>2 DEF Harmless, KeepsAdmin
<1>4. QED
  BY <1>1, <1>3, JudgedOne

LEMMA InviteWritesJudged ==
    ASSUME NEW t, NEW e, NEW role, NEW id, NEW op, NEW by
    PROVE  Judged(InviteWrites(t, e, role, id), op, by)
<1>1. \A w \in InviteWrites(t, e, role, id) : w.table = "invites"
  BY Changed, Added DEF InviteWrites
<1>2. QED
  BY <1>1, JudgedOthers

\* A member who is an admin keeps his own role, so he is still there when the
\* account he changes is no admin any more.
LEMMA UpdateUserJudged ==
    ASSUME IInv, FInv, NEW r \in Slots, NEW p \in Callers, NEW t \in Tenants,
           NEW e \in Emails, NEW body \in UserUpdates,
           update_user(r, p, t, e, body)
    PROVE  FInv'
<1>1. PICK set : set = UpdatedUser(users[e], body)
  OBVIOUS
<1>2. PICK w : w = Update("users", e, users[e], set)
  OBVIOUS
<1>3. Begin(r, "user.update", p, <<>>, {w})
  BY <1>1, <1>2 DEF update_user
<1>4. CASE Kind(p) = "outside"
  <2>1. Judged({w}, "user.update", Kind(p))
    BY <1>4 DEF Judged, Excused
  <2>2. QED
    BY <1>3, <2>1, Begun
<1>5. CASE Kind(p) # "outside"
  <2>1. p \in Emails /\ ~IsOperator(p)
    BY <1>5 DEF Kind
  <2>2. p # Platform
    BY <2>1, ConstantsAssumption
  <2>3. /\ HasRow(p) /\ users[p].active
        /\ users[p].tenant = t
        /\ EffectiveRole(p) = users[p].role
        /\ ROLE_RANK[EffectiveRole(p)] >= ROLE_RANK["admin"]
    BY <2>1, <2>2 DEF update_user, Admin, Authenticated, ActsIn, EffectiveRole
  <2>4. users[p] \in User
    BY <2>1, <2>3 DEF IInv, TypeOK, HasRow
  <2>5. users[p].role = "admin"
    BY <2>3, <2>4 DEF ROLE_RANK, User
  <2>6. p \in ActiveAdmins(t)
    BY <2>1, <2>3, <2>5 DEF ActiveAdmins, Owned
  <2>7. /\ users[e].tenant = t
        /\ p = e => body.role \in {Keep, "admin"} /\ body.active # FALSE
    BY DEF update_user, Owned
  <2>8. w.key = e /\ w.how = "update"
        /\ \A c \in DOMAIN w.set : c \in DOMAIN set /\ w.set[c] = set[c]
    BY <1>2, Changed
  <2>9. /\ DOMAIN set = {"role", "active", "version"}
        /\ set["role"] = IF body.role = Keep THEN users[e].role ELSE body.role
        /\ set["active"] = IF body.active = Keep THEN users[e].active
                           ELSE body.active
    BY <1>1 DEF UpdatedUser
  <2>10. body.active \in BOOLEAN \cup {Keep}
    BY ConstantsAssumption
  <2>11. p = e => KeepsAdmin(w)
    <3> SUFFICES ASSUME p = e
                 PROVE  KeepsAdmin(w)
      OBVIOUS
    <3>1. set["role"] = "admin"
      BY <2>5, <2>7, <2>9
    <3>2. set["active"] = TRUE
      BY <2>3, <2>4, <2>7, <2>9, <2>10 DEF User
    <3>3. QED
      BY <2>8, <2>9, <3>1, <3>2 DEF KeepsAdmin
  <2>12. Harmless(w)
    <3> SUFFICES ASSUME NEW t2 \in Tenants, e \in ActiveAdmins(t2), p # e
                 PROVE  \E f \in ActiveAdmins(t2) : f # e
      BY <2>8, <2>11 DEF Harmless
    <3>1. t2 = t
      BY <2>7 DEF ActiveAdmins, Owned
    <3>2. QED
      BY <2>6, <3>1
  <2>13. QED
    BY <1>3, <2>12, JudgedOne, Begun
<1>6. QED
  BY <1>4, <1>5

LEMMA DeleteUserJudged ==
    ASSUME IInv, FInv, NEW r \in Slots, NEW p, NEW t \in Tenants,
           NEW e \in Emails, delete_user(r, p, t, e)
    PROVE  FInv'
<1>1. PICK w : w = Delete("users", e, users[e])
  OBVIOUS
<1>2. Begin(r, "user.delete", p, <<>>, {w})
  BY <1>1 DEF delete_user
<1>3. w.key = e
  BY <1>1 DEF Delete
<1>4. users[e].tenant = t /\ NotLastAdmin(t, e)
  BY DEF delete_user, Owned
<1>5. ASSUME NEW t2 \in Tenants, e \in ActiveAdmins(t2),
             ~\E f \in ActiveAdmins(t2) : f # e
      PROVE  FALSE
  <2>1. t2 = t /\ users[e].role = "admin"
    BY <1>4, <1>5 DEF ActiveAdmins, Owned
  <2>2. ActiveAdmins(t) = {e}
    BY <1>5, <2>1
  <2>3. Cardinality(ActiveAdmins(t)) = 1
    BY <2>2, FS_Singleton
  <2>4. QED
    BY <1>4, <2>1, <2>3 DEF NotLastAdmin
<1>6. Harmless(w)
  BY <1>3, <1>5 DEF Harmless
<1>7. QED
  BY <1>2, <1>6, JudgedOne, Begun

\* An operator belongs to no tenant and is the admin of none.
LEMMA UpdateOperatorJudged ==
    ASSUME IInv, FInv, NEW r \in Slots, NEW p, NEW e \in Emails,
           NEW orole, NEW active, update_operator(r, p, e, orole, active)
    PROVE  FInv'
<1>1. PICK set : set =
         [orole   |-> IF orole = Keep THEN users[e].orole ELSE orole,
          active  |-> IF active = Keep THEN users[e].active ELSE active,
          version |-> IF active = FALSE THEN users[e].version + 1
                      ELSE users[e].version]
  OBVIOUS
<1>2. PICK w : w = Update("users", e, users[e], set)
  OBVIOUS
<1>3. Begin(r, "operator.update", p, <<>>, {w})
  BY <1>1, <1>2 DEF update_operator
<1>4. users[e].tenant = NoRow
  BY DEF update_operator, IInv, KindMatchesTenant
<1>5. \A t \in Tenants : e \notin ActiveAdmins(t)
  BY <1>4, ConstantsAssumption DEF ActiveAdmins, Owned
<1>6. Harmless(w)
  BY <1>2, <1>5, Changed DEF Harmless
<1>7. QED
  BY <1>3, <1>6, JudgedOne, Begun

LEMMA RequestForeseen ==
    ASSUME IInv, FInv, NEW r \in Slots, Request(r)
    PROVE  FInv'
<1>1. ASSUME NEW e \in Emails, bootstrap_operator(r, e)
      PROVE  FInv'
  BY <1>1, JudgedInsert, Begun DEF bootstrap_operator
<1>2. ASSUME NEW e \in Emails, change_password(r, e)
      PROVE  FInv'
  <2>1. DOMAIN [version |-> users[e].version + 1] = {"version"}
    OBVIOUS
  <2>2. QED
    BY <1>2, <2>1, JudgedPlain, Begun DEF change_password
<1>3. ASSUME NEW i \in Ids, accept(r, i)
      PROVE  FInv'
  <2>1. PICK ws : Begin(r, "invite.accept", NoRow, <<i>>, ws)
    BY <1>3 DEF accept
  <2>2. Judged(ws, "invite.accept", Kind(NoRow))
    BY DEF Judged, Excused
  <2>3. QED
    BY <2>1, <2>2, Begun
<1>4. ASSUME NEW i \in Ids, accept_new(r, i)
      PROVE  FInv'
  <2>1. PICK x : x = [phase |-> "failed", op |-> "invite.accept",
                      by |-> "outside", on |-> <<i>>, writes |-> {},
                      overtaken |-> FALSE]
    OBVIOUS
  <2>2. Foreseen(x)
    BY <2>1 DEF Foreseen
  <2>3. slot' = [slot EXCEPT ![r] = x] /\ users' = users /\ DOMAIN slot = Slots
    BY <1>4, <2>1 DEF accept_new, users, IInv
  <2>4. QED
    BY <2>2, <2>3, ForeseenSlots
<1>5. ASSUME NEW i \in Ids, MarkExpired(r, i)
      PROVE  FInv'
  <2>1. PICK w : w = Update("invites", i, invites[i], [status |-> "expired"])
    OBVIOUS
  <2>2. Begin(r, "invite.expire", NoRow, <<>>, {w}) /\ w.table # "users"
    BY <1>5, <2>1, Changed DEF MarkExpired
  <2>3. QED
    BY <2>2, JudgedOthers, Begun
<1>6. ASSUME NEW i \in Ids, NEW p \in Callers, revoke_invite(r, p, i)
      PROVE  FInv'
  <2>1. PICK w : w = Update("invites", i, invites[i], [status |-> "revoked"])
    OBVIOUS
  <2>2. w.table # "users"
    BY <2>1, Changed
  <2>3. PICK ws \in {{}, {w}} : Begin(r, "invite.revoke", p, <<>>, ws)
    BY <1>6, <2>1 DEF revoke_invite
  <2>4. QED
    BY <2>2, <2>3, JudgedOthers, Begun
<1>7. ASSUME NEW p \in Callers, NEW k \in Ids, revoke_api_key(r, p, k)
      PROVE  FInv'
  <2>1. PICK w : w = Update("keys", k, keys[k], [active |-> FALSE])
    OBVIOUS
  <2>2. Begin(r, "apikey.revoke", p, <<>>, {w}) /\ w.table # "users"
    BY <1>7, <2>1, Changed DEF revoke_api_key
  <2>3. QED
    BY <2>2, JudgedOthers, Begun
<1>8. ASSUME NEW p \in Callers, NEW e \in Emails, NEW orole,
             create_operator(r, p, e, orole)
      PROVE  FInv'
  BY <1>8, JudgedInsert, Begun DEF create_operator
<1>9. ASSUME NEW p \in Callers, NEW t \in Tenants, NEW e \in Emails,
             NEW passed, create_tenant(r, p, t, e, passed)
      PROVE  FInv'
  <2>1. \A w \in TenantRows(t, e, passed) : w.how = "insert"
    BY Added DEF TenantRows
  <2>2. OneAccount(TenantRows(t, e, passed))
    BY Added DEF TenantRows, OneAccount
  <2>3. \A op, by : Judged(TenantRows(t, e, passed), op, by)
    BY <2>1, <2>2 DEF Judged, Harmless
  <2>4. PICK op : Begin(r, op, p, <<t, e>>, TenantRows(t, e, passed))
    BY <1>9 DEF create_tenant
  <2>5. QED
    BY <2>3, <2>4, Begun
<1>10. ASSUME NEW p \in Callers, NEW t \in Tenants, NEW e \in Emails,
              NEW role, create_or_resend_invite(r, p, t, e, role)
       PROVE  FInv'
  BY <1>10, InviteWritesJudged, Begun DEF create_or_resend_invite
<1>11. ASSUME NEW p \in Callers, NEW t \in Tenants, NEW status,
              set_tenant_status(r, p, t, status)
       PROVE  FInv'
  <2>1. PICK w : w = Update("tenants", t, tenants[t], [status |-> status])
    OBVIOUS
  <2>2. Begin(r, "tenant.set_status", p, <<>>, {w}) /\ w.table # "users"
    BY <1>11, <2>1, Changed DEF set_tenant_status
  <2>3. QED
    BY <2>2, JudgedOthers, Begun
<1>12. ASSUME NEW p \in Callers, NEW t \in Tenants, NEW role,
              create_api_key(r, p, t, role)
       PROVE  FInv'
  <2>1. PICK w : w = Insert("keys", Fresh,
                            [tenant |-> t, role |-> role, active |-> TRUE])
    OBVIOUS
  <2>2. Begin(r, "apikey.create", p, <<>>, {w}) /\ w.table # "users"
    BY <1>12, <2>1, Added DEF create_api_key
  <2>3. QED
    BY <2>2, JudgedOthers, Begun
<1>13. ASSUME NEW p \in Callers, NEW t \in Tenants, NEW e \in Emails,
              \/ grant_tenant_access(r, p, e, t)
              \/ revoke_tenant_access(r, p, e, t)
       PROVE  FInv'
  <2>1. PICK v, w, x :
           /\ v = Update("access", <<e, t>>, access[<<e, t>>],
                         [active |-> TRUE])
           /\ w = Update("access", <<e, t>>, access[<<e, t>>],
                         [active |-> FALSE])
           /\ x = Insert("access", <<e, t>>, [active |-> TRUE])
    OBVIOUS
  <2>2. \A z \in {v, w, x} : z.table # "users"
    BY <2>1, Changed, Added
  <2>3. PICK op, z : z \in {v, w, x} /\ Begin(r, op, p, <<>>, {z})
    BY <1>13, <2>1 DEF grant_tenant_access, revoke_tenant_access
  <2>4. QED
    BY <2>2, <2>3, JudgedOthers, Begun
<1>14. ASSUME NEW p \in Callers, NEW t \in Tenants, NEW e \in Emails,
              \/ \E role \in Roles : create_user(r, p, t, e, role)
              \/ admin_reset_password(r, p, t, e)
       PROVE  FInv'
  <2>1. ASSUME NEW role, create_user(r, p, t, e, role)
        PROVE  FInv'
    BY <2>1, JudgedInsert, Begun DEF create_user
  <2>2. ASSUME admin_reset_password(r, p, t, e)
        PROVE  FInv'
    <3>1. DOMAIN [version |-> users[e].version + 1] = {"version"}
      OBVIOUS
    <3>2. QED
      BY <2>2, <3>1, JudgedPlain, Begun DEF admin_reset_password
  <2>3. QED
    BY <1>14, <2>1, <2>2
<1>15. ASSUME InviteRequest(r)
       PROVE  FInv'
  BY <1>3, <1>4, <1>5, <1>6, <1>15 DEF InviteRequest
<1>16. ASSUME NEW p \in Callers, OperatorRequest(r, p)
       PROVE  FInv'
  BY <1>7, <1>8, <1>16, UpdateOperatorJudged DEF OperatorRequest
<1>17. ASSUME NEW p \in Callers, NEW t \in Tenants, TenantRequest(r, p, t)
       PROVE  FInv'
  BY <1>9, <1>10, <1>11, <1>12, <1>13, <1>17 DEF TenantRequest
<1>18. ASSUME NEW p \in Callers, NEW t \in Tenants, NEW e \in Emails,
              UserRequest(r, p, t, e)
       PROVE  FInv'
  BY <1>14, <1>18, UpdateUserJudged, DeleteUserJudged DEF UserRequest
<1>19. QED
  BY <1>1, <1>2, <1>15, <1>16, <1>17, <1>18 DEF Request

LEMMA CommitForeseen ==
    ASSUME IInv, FInv, NEW r \in Slots, Commit(r)
    PROVE  FInv'
<1>1. ASSUME NEW q \in Slots
      PROVE  Foreseen(slot[q])'
  <2>1. PICK y : y = slot[q]
    OBVIOUS
  <2>2. PICK x : x = slot'[q]
    OBVIOUS
  <2>3. CASE x.phase # "flush"
    BY <2>2, <2>3 DEF Foreseen
  <2>4. CASE x.phase = "flush"
    <3>1. /\ y.phase # "idle"
          /\ slot'[q] = [y EXCEPT !.overtaken = @ \/ db' # db]
      <4>1. \/ slot'[q] = Idle
            \/ /\ q = r /\ y.phase = "flush"
               /\ slot'[q] = [y EXCEPT !.phase = "invite",
                                       !.on = Append(@, nextId)]
            \/ /\ y.phase # "idle"
               /\ slot'[q] = [y EXCEPT !.overtaken = @ \/ db' # db]
        BY <2>1 DEF Commit, Busy
      <4>2. slot'[q] # Idle
        BY <2>2, <2>4 DEF Idle
      <4>3. CASE /\ y.phase = "flush"
                 /\ slot'[q] = [y EXCEPT !.phase = "invite",
                                         !.on = Append(@, nextId)]
        <5>1. DOMAIN y = {"phase", "op", "by", "on", "writes", "overtaken"}
          BY <2>1, <4>3 DEF IInv, TypeOK, Busy
        <5>2. PICK on : on = Append(y.on, nextId)
          OBVIOUS
        <5>3. x = [y EXCEPT !.phase = "invite", !.on = on]
          BY <2>2, <4>3, <5>2
        <5>4. x.phase = "invite"
          BY <5>1, <5>3
        <5>5. QED
          BY <2>4, <5>4
      <4>4. QED
        BY <4>1, <4>2, <4>3
    <3>2. DOMAIN y = {"phase", "op", "by", "on", "writes", "overtaken"}
      BY <2>1, <3>1 DEF IInv, TypeOK, Busy
    <3>3. y.overtaken \in BOOLEAN /\ Foreseen(y)
      BY <2>1, <3>1 DEF IInv, SlotOK, FInv
    <3>4. CASE db' # db
      <4>1. x = [y EXCEPT !.overtaken = TRUE]
        BY <2>2, <3>1, <3>2, <3>3, <3>4
      <4>2. x.overtaken = TRUE
        BY <3>2, <4>1
      <4>3. QED
        BY <2>2, <4>2 DEF Foreseen
    <3>5. CASE db' = db
      <4>1. x = [y EXCEPT !.overtaken = y.overtaken]
        BY <2>2, <3>1, <3>2, <3>3, <3>5
      <4>2. /\ x.phase = y.phase /\ x.op = y.op /\ x.by = y.by
            /\ x.writes = y.writes /\ x.overtaken = y.overtaken
        BY <3>2, <4>1
      <4>3. Foreseen(x)
        BY <3>3, <4>2 DEF Foreseen
      <4>4. users' = users
        BY <3>5 DEF users
      <4>5. Foreseen(x)'
        BY <4>3, <4>4, ForeseenKept
      <4>6. QED
        BY <2>2, <4>5
    <3>6. QED
      BY <3>4, <3>5
  <2>5. QED
    BY <2>3, <2>4
<1>2. QED
  BY <1>1 DEF FInv

LEMMA ForeseenStep == IInv /\ FInv /\ [Next]_vars => FInv'
<1> SUFFICES ASSUME IInv, FInv, [Next]_vars
             PROVE  FInv'
  OBVIOUS
<1>1. Foreseen(Idle) /\ DOMAIN slot = Slots
  BY DEF Foreseen, Idle, IInv
<1>2. ASSUME NEW r \in Slots, CommitRaises(r)
      PROVE  FInv'
  <2>1. PICK y : y = slot[r]
    OBVIOUS
  <2>2. PICK x : x = [y EXCEPT !.phase = "failed"]
    OBVIOUS
  <2>3. DOMAIN y = {"phase", "op", "by", "on", "writes", "overtaken"}
    BY <1>2, <2>1 DEF CommitRaises, IInv, TypeOK, Busy
  <2>4. x.phase = "failed"
    BY <2>2, <2>3
  <2>5. slot' = [slot EXCEPT ![r] = x] /\ users' = users
    <3>1. slot' = [slot EXCEPT ![r] = [slot[r] EXCEPT !.phase = "failed"]]
      BY <1>2 DEF CommitRaises
    <3>2. QED
      BY <1>2, <2>1, <2>2, <3>1 DEF CommitRaises, users
  <2>6. Foreseen(x)
    BY <2>4 DEF Foreseen
  <2>7. QED
    BY <1>1, <2>5, <2>6, ForeseenSlots
<1>3. ASSUME NEW r \in Slots, Answer500(r)
      PROVE  FInv'
  BY <1>1, <1>3, ForeseenSlots DEF Answer500, users
<1>4. ASSUME NEW r \in Slots, InviteAdmin(r)
      PROVE  FInv'
  <2>1. PICK y : y = slot[r]
    OBVIOUS
  <2>2. PICK ws : ws = InviteWrites(y.on[1], y.on[2], "admin", y.on[3])
    OBVIOUS
  <2>3. PICK x : x = [y EXCEPT !.phase = "flush", !.op = "invite.create",
                               !.overtaken = FALSE, !.writes = ws]
    OBVIOUS
  <2>4. DOMAIN y = {"phase", "op", "by", "on", "writes", "overtaken"}
    BY <1>4, <2>1 DEF InviteAdmin, IInv, TypeOK, Busy
  <2>5. x.writes = ws
    BY <2>3, <2>4
  <2>6. Judged(ws, x.op, x.by)
    BY <2>2, InviteWritesJudged
  <2>7. Foreseen(x)
    BY <2>5, <2>6 DEF Foreseen
  <2>8. slot' = [slot EXCEPT ![r] = x] /\ users' = users
    BY <1>4, <2>1, <2>2, <2>3 DEF InviteAdmin, users
  <2>9. QED
    BY <1>1, <2>7, <2>8, ForeseenSlots
<1>5. ASSUME NEW e \in Emails, ensure_operator(e)
      PROVE  FInv'
  BY <1>5 DEF ensure_operator, Busy, FInv, Foreseen
<1>6. ASSUME NEW i \in Ids, Expire(i)
      PROVE  FInv'
  BY <1>6, ForeseenSlots DEF Expire, users, IInv, Tables
<1>7. CASE Crash
  BY <1>1, <1>7, ForeseenSlots DEF Crash, users
<1>8. CASE UNCHANGED vars
  BY <1>8, ForeseenSlots DEF vars, users
<1>9. QED
  BY <1>2, <1>3, <1>4, <1>5, <1>6, <1>7, <1>8, RequestForeseen,
     CommitForeseen DEF Next

\* No write of the account: it is as it was.
LEMMA Untouched ==
    ASSUME IInv, NEW r \in Slots, Commit(r), NEW ws, ws = slot[r].writes,
           NEW e \in Emails, \A w \in ws : w.table = "users" => w.key # e
    PROVE  users'[e] = users[e]
<1>1. "users" \in Tables /\ DOMAIN db["users"] = Emails
  BY DEF Tables, IInv, TypeOK, users
<1>2. db'["users"] = [k \in DOMAIN db["users"] |-> RowAfter(ws, "users", k)]
  BY <1>1, Flushed
<1>3. ASSUME NEW w \in Writes(ws, "users", e)
      PROVE  FALSE
  <2>1. w \in ws /\ w.table = "users" /\ w.key = Fresh
    BY <1>3 DEF Writes
  <2>2. WriteOK(w)
    BY <2>1, Flushed
  <2>3. QED
    BY <2>1, <2>2, ConstantsAssumption DEF WriteOK, InsertOK
<1>4. RowAfter(ws, "users", e) = db["users"][e]
  BY <1>3 DEF RowAfter
<1>5. QED
  BY <1>1, <1>2, <1>4 DEF users

AdminStep ==
    \A t \in Tenants :
        ActiveAdmins(t) # {} /\ ActiveAdmins(t)' = {} =>
            \E r \in Slots :
                /\ Flushes(r)
                /\ \/ slot[r].overtaken
                   \/ slot[r].op = "invite.accept"
                   \/ /\ slot[r].op = "user.update"
                      /\ slot[r].by = "outside"

LEMMA AdminSteps ==
    ASSUME IInv, FInv, [Next]_vars
    PROVE  AdminStep
<1> SUFFICES ASSUME NEW t \in Tenants, ActiveAdmins(t) # {},
                    ActiveAdmins(t)' = {}
             PROVE  \E r \in Slots :
                       /\ Flushes(r)
                       /\ \/ slot[r].overtaken
                          \/ Excused(slot[r].op, slot[r].by)
  BY DEF AdminStep, Excused
<1>1. users' # users /\ ~NoUsers
  BY DEF ActiveAdmins, Owned, HasRow, NoUsers
<1>2. PICK r \in Slots : Commit(r)
  BY <1>1, OnlyFlushesAddTenants
<1>3. PICK ws : ws = slot[r].writes
  OBVIOUS
<1>4. Flushes(r)
  <2>1. slot[r].phase = "flush" /\ db' # db
    BY <1>1, <1>2 DEF Commit, users
  <2>2. DOMAIN slot[r] = {"phase", "op", "by", "on", "writes", "overtaken"}
    BY <2>1 DEF IInv, TypeOK, Busy
  <2>3. slot'[r] = Idle \/ slot'[r].phase = "invite"
    <3>1. PICK y : y = slot[r]
      OBVIOUS
    <3>2. PICK on : on = Append(y.on, nextId)
      OBVIOUS
    <3>3. slot'[r] = Idle \/ slot'[r] = [y EXCEPT !.phase = "invite", !.on = on]
      BY <1>2, <3>1, <3>2 DEF Commit
    <3>4. QED
      BY <2>2, <3>1, <3>3
  <2>4. QED
    BY <2>1, <2>3 DEF Flushes, Idle
<1>5. SUFFICES ASSUME ~slot[r].overtaken, ~Excused(slot[r].op, slot[r].by)
               PROVE  FALSE
  BY <1>4
<1>6. OneAccount(ws) /\ \A w \in ws : Harmless(w)
  BY <1>2, <1>3, <1>5 DEF Commit, FInv, Foreseen, Judged
<1>7. PICK a \in Emails : a \in ActiveAdmins(t)
  BY DEF ActiveAdmins
<1>8. /\ users[a] \in User /\ HasRow(a) /\ users[a].tenant = t
      /\ users[a].role = "admin" /\ users[a].active
  BY <1>7 DEF ActiveAdmins, Owned, IInv, TypeOK, HasRow
<1>9. \A f \in Emails :
         ~(/\ users'[f] # NoRow /\ users'[f].tenant = t
           /\ users'[f].role = "admin" /\ users'[f].active)
  BY DEF ActiveAdmins, Owned, HasRow
<1>10. users'[a] # users[a]
  BY <1>8, <1>9 DEF HasRow
<1>11. PICK w \in ws : w.table = "users" /\ w.key = a
  BY <1>2, <1>3, <1>10, Untouched
<1>12. WriteOK(w) /\ ~Raises(w)
  BY <1>2, <1>3, Flushed
<1>13. w.how # "insert"
  <2>1. db["users"][a] # NoRow
    BY <1>8 DEF HasRow, users
  <2>2. a # Fresh
    BY ConstantsAssumption
  <2>3. QED
    BY <1>11, <1>12, <2>1, <2>2 DEF Raises
<1>14. CASE \E f \in ActiveAdmins(t) : f # a
  <2>1. PICK f \in ActiveAdmins(t) : f # a
    BY <1>14
  <2>2. f \in Emails /\ \A x \in ws : x.table = "users" => x.key # f
    BY <1>6, <1>11, <2>1 DEF OneAccount, ActiveAdmins
  <2>3. users'[f] = users[f]
    BY <1>2, <1>3, <2>2, Untouched
  <2>4. QED
    BY <1>9, <2>1, <2>2, <2>3 DEF ActiveAdmins, Owned, HasRow
<1>15. CASE KeepsAdmin(w)
  <2>1. users'[a] = Merged(users[a], w.set) /\ UserChange(w.set)
    <3>1. w.how = "update"
      BY <1>15 DEF KeepsAdmin
    <3>2. UserChange(w.set)
      BY <1>11, <1>12, <3>1 DEF WriteOK, UpdateOK
    <3>3. \A x \in ws : x.table = "users" => x = w
      BY <1>6, <1>11 DEF OneAccount
    <3>4. users'[a] = RowAfter(ws, "users", a)
      <4>1. "users" \in Tables /\ DOMAIN db["users"] = Emails
        BY DEF Tables, IInv, TypeOK, users
      <4>2. db'["users"] =
               [k \in DOMAIN db["users"] |-> RowAfter(ws, "users", k)]
        BY <1>2, <1>3, <4>1, Flushed
      <4>3. QED
        BY <4>1, <4>2 DEF users
    <3>5. Writes(ws, "users", a) # {}
      BY <1>10, <3>4 DEF RowAfter, users
    <3>6. (CHOOSE x \in Writes(ws, "users", a) : TRUE) = w
      BY <3>3, <3>5 DEF Writes
    <3>7. users'[a] = Written("users", a, w)
      BY <3>4, <3>5, <3>6 DEF RowAfter
    <3>8. QED
      BY <3>1, <3>2, <3>7 DEF Written, Merged, users
  <2>2. PICK u, set, v : u = users[a] /\ set = w.set /\ v = users'[a]
    OBVIOUS
  <2>3. /\ v \in User
        /\ v.tenant = IF "tenant" \in DOMAIN set THEN set["tenant"]
                      ELSE u.tenant
        /\ v.role = IF "role" \in DOMAIN set THEN set["role"] ELSE u.role
        /\ v.active = IF "active" \in DOMAIN set THEN set["active"]
                      ELSE u.active
    <3>1. u \in User /\ UserChange(set) /\ v = Merged(u, set)
      BY <1>8, <2>1, <2>2
    <3>2. QED
      BY <3>1, MergedUser
  <2>4. v.tenant = t /\ v.role = "admin" /\ v.active = TRUE
    BY <1>8, <1>15, <2>2, <2>3 DEF KeepsAdmin, User
  <2>5. v # NoRow
    BY <2>3, ConstantsAssumption
  <2>6. QED
    BY <1>9, <2>2, <2>4, <2>5
<1>16. QED
  BY <1>6, <1>7, <1>11, <1>13, <1>14, <1>15 DEF Harmless

\* A tenant keeps an active admin unless a caller from outside or an
\* invitation demotes the last, or another request committed between the
\* count of delete_user and its flush (app/routers/auth_routes.py).
THEOREM AdminKept == Spec => AdminLostOnlyInARace
<1>1. Init => FInv
  BY DEF Init, Start, FInv, Foreseen, Idle
<1>2. Spec => []FInv
  BY <1>1, ForeseenStep, Sound, PTL DEF Spec
<1>3. IInv /\ FInv /\ [Next]_vars => [AdminStep]_vars
  BY AdminSteps
<1>4. QED
  BY <1>2, <1>3, Sound, PTL DEF Spec, AdminLostOnlyInARace, AdminStep

-----------------------------------------------------------------------------
(***************************************************************************)
(* Invitations are single use.  While no other request commits, those a    *)
(* pending transaction settles are still pending; and a transaction that   *)
(* adds one has a key left for it, so it writes over none that is settled. *)
(***************************************************************************)
\* The database numbers every invitation inserted, and the transaction after
\* which create_tenant invites its admin writes none.
Decided(ws, op) ==
    \A w \in ws : w.table = "invites" =>
        op # "tenant.invite" /\ (w.how = "insert" => w.key = Fresh)

StillPending(i) == i \in Ids /\ Pending(i)

Unsettled(ws, op, on) ==
    /\ \A w \in ws :
          w.table = "invites" /\ w.how = "update" => StillPending(w.key)
    /\ op = "invite.accept" => StillPending(on[1])

Deciding(x) ==
    x.phase = "flush" =>
        /\ Decided(x.writes, x.op)
        /\ ~x.overtaken => Unsettled(x.writes, x.op, x.on)

\* Keys of invitations that are taken, and requests that may still take one.
Used == {i \in Ids : invites[i] # NoRow}
Open == {r \in Slots : slot[r].phase \in {"flush", "invite"}}

Room ==
    /\ IsFiniteSet(Open)
    /\ Cardinality(Used) + Cardinality(Open) <= served

SInv == Room /\ \A r \in Slots : Deciding(slot[r])

LEMMA Least ==
    ASSUME NEW T, T \subseteq Nat, T # {}
    PROVE  \E m \in T : \A k \in T : m <= k
<1>1. PICK R : R = {ss \in Nat \X Nat : ss[1] < ss[2]}
  OBVIOUS
<1>2. IsWellFoundedOn(R, Nat)
  BY <1>1, NatLessThanWellFounded DEF OpToRel
<1>3. PICK m \in T : \A k \in T : <<k, m>> \notin R
  BY <1>2, WFMin
<1>4. ASSUME NEW k \in T
      PROVE  m <= k
  <2>1. m \in Nat /\ k \in Nat
    OBVIOUS
  <2>2. ~(k < m)
    BY <1>1, <1>3, <2>1
  <2>3. QED
    BY <2>1, <2>2
<1>5. QED
  BY <1>4

LEMMA UsedFinite ==
    /\ IsFiniteSet(Ids) /\ Cardinality(Ids) = MaxRequests
    /\ \A T \in SUBSET Ids : IsFiniteSet(T) /\ Cardinality(T) \in Nat
<1>1. IsFiniteSet(Ids) /\ Cardinality(Ids) = MaxRequests
  BY FS_Interval, ConstantsAssumption DEF Ids
<1>2. QED
  BY <1>1, FS_Subset, FS_CardinalityType

\* While a request is in flight, the database has a key left.
LEMMA FreshIsFree ==
    ASSUME IInv, Room, NEW r \in Slots, slot[r].phase = "flush"
    PROVE  FreshKey("invites") \in Ids /\ invites[FreshKey("invites")] = NoRow
<1>1. Used \in SUBSET Ids /\ r \in Open
  BY DEF Used, Open
<1>2. Cardinality(Open) \in Nat /\ Cardinality(Open) # 0
  BY <1>1, FS_EmptySet, FS_CardinalityType DEF Room
<1>3. Cardinality(Used) \in Nat /\ Cardinality(Used) < MaxRequests
  BY <1>1, <1>2, UsedFinite, ConstantsAssumption DEF Room, IInv, TypeOK
<1>4. Used # Ids
  BY <1>3, UsedFinite, ConstantsAssumption
<1>5. PICK m \in Ids \ Used : \A k \in Ids \ Used : m <= k
  <2>1. Ids \subseteq Nat
    BY ConstantsAssumption DEF Ids
  <2>2. PICK free : free = Ids \ Used
    OBVIOUS
  <2>3. free \subseteq Nat /\ free # {}
    BY <1>1, <1>4, <2>1, <2>2
  <2>4. QED
    BY <2>2, <2>3, Least
<1>6. /\ m \in Ids /\ db["invites"][m] = NoRow
      /\ \A j \in 1..(m - 1) : db["invites"][j] # NoRow
  <2>1. m \in Ids /\ db["invites"][m] = NoRow
    BY <1>5 DEF Used, invites
  <2>2. ASSUME NEW j \in 1..(m - 1)
        PROVE  db["invites"][j] # NoRow
    <3>1. m \in Nat /\ j \in Ids /\ ~(m <= j)
      BY <2>1, ConstantsAssumption DEF Ids
    <3>2. j \in Used
      BY <1>5, <3>1
    <3>3. QED
      BY <3>2 DEF Used, invites
  <2>3. QED
    BY <2>1, <2>2
<1>7. QED
  BY <1>6 DEF FreshKey, invites

\* What a flush does to an invitation.
LEMMA InviteAfter ==
    ASSUME IInv, Room, NEW r \in Slots, Commit(r),
           Decided(slot[r].writes, slot[r].op), NEW i \in Ids
    PROVE  \/ invites'[i] = invites[i]
           \/ invites[i] # NoRow /\ invites'[i] = Gone
           \/ /\ invites[i] = NoRow /\ i = FreshKey("invites")
              /\ slot[r].op # "tenant.invite"
           \/ \E w \in slot[r].writes :
                 /\ w.table = "invites" /\ w.how = "update" /\ w.key = i
                 /\ invites[i] # NoRow
<1> PICK ws : ws = slot[r].writes
  OBVIOUS
<1>1. /\ "invites" \in Tables /\ DOMAIN db["invites"] = Ids
      /\ invites[i] = db["invites"][i]
  BY DEF Tables, IInv, TypeOK, invites
<1>2. invites'[i] = RowAfter(ws, "invites", i)
  BY <1>1, FlushedRow DEF invites
<1>3. CASE Writes(ws, "invites", i) = {}
  <2>1. \/ RowAfter(ws, "invites", i) = db["invites"][i]
        \/ /\ db["invites"][i] \notin {NoRow, Gone}
           /\ RowAfter(ws, "invites", i) = Gone
    BY <1>3 DEF RowAfter
  <2>2. QED
    BY <1>1, <1>2, <2>1
<1>4. CASE Writes(ws, "invites", i) # {}
  <2>1. PICK w \in ws :
           /\ w.table = "invites"
           /\ w.how = "update" => DOMAIN w.set # {}
           /\ i = IF w.key = Fresh THEN FreshKey("invites") ELSE w.key
    BY <1>4 DEF Writes
  <2>2. WriteOK(w) /\ ~Raises(w)
    BY Flushed
  <2>3. CASE w.how = "insert"
    <3>1. i = FreshKey("invites") /\ slot[r].op # "tenant.invite"
      BY <2>1, <2>3 DEF Decided
    <3>2. invites[i] = NoRow
      BY <3>1, FreshIsFree DEF Commit
    <3>3. QED
      BY <3>1, <3>2
  <2>4. CASE w.how = "update"
    <3>1. w.key = i
      BY <2>1, <2>2, <2>4 DEF WriteOK
    <3>2. db["invites"][i] # NoRow
      BY <2>1, <2>2, <2>4, <3>1 DEF Raises
    <3>3. QED
      BY <1>1, <2>1, <2>4, <3>1, <3>2
  <2>5. QED
    BY <2>1, <2>2, <2>3, <2>4 DEF WriteOK
<1>5. QED
  BY <1>3, <1>4

-----------------------------------------------------------------------------
\* Steps that change slots, and settle no invitation.
LEMMA DecidingSlots ==
    ASSUME SInv, \A i \in Ids : Pending(i) => Pending(i)',
           \A q \in Slots :
              slot'[q] = slot[q] \/ \E x : slot'[q] = x /\ Deciding(x)
    PROVE  \A q \in Slots : Deciding(slot[q])'
<1>1. \A i : StillPending(i) => StillPending(i)'
  BY DEF StillPending
<1>2. ASSUME NEW q \in Slots
      PROVE  Deciding(slot[q])'
  <2>1. PICK x : slot'[q] = x /\ Deciding(x)
    BY DEF SInv
  <2>2. Deciding(x)'
    BY <1>1, <2>1 DEF Deciding, Decided, Unsettled
  <2>3. QED
    BY <2>1, <2>2
<1>3. QED
  BY <1>2

\* Steps that open no request, and steps that open one.
LEMMA RoomKept ==
    ASSUME IInv, Room, Used' \subseteq Used, served' = served,
           Open' \subseteq Open
    PROVE  Room'
<1>1. PICK m, n, j, k : /\ m = Cardinality(Used) /\ n = Cardinality(Open)
                        /\ j = Cardinality(Used') /\ k = Cardinality(Open')
  OBVIOUS
<1>2. IsFiniteSet(Open') /\ k <= n /\ k \in Nat /\ n \in Nat
  BY <1>1, FS_Subset, FS_CardinalityType DEF Room
<1>3. IsFiniteSet(Used) /\ m \in Nat
  BY <1>1, UsedFinite DEF Used
<1>4. j <= m /\ j \in Nat
  <2>1. Used' \in SUBSET Used
    OBVIOUS
  <2>2. IsFiniteSet(Used') /\ j <= m
    BY <1>1, <1>3, <2>1, FS_Subset
  <2>3. QED
    BY <1>1, <2>2, FS_CardinalityType
<1>5. m + n <= served /\ served \in Nat
  BY <1>1, ConstantsAssumption DEF Room, IInv, TypeOK
<1>6. j + k <= served
  BY <1>2, <1>3, <1>4, <1>5
<1>7. Cardinality(Used') + Cardinality(Open') <= served'
  BY <1>1, <1>6
<1>8. QED
  BY <1>2, <1>7 DEF Room

LEMMA RoomBegun ==
    ASSUME IInv, Room, Used' = Used, served' = served + 1,
           NEW r \in Slots, Open' \subseteq Open \cup {r}
    PROVE  Room'
<1>1. PICK m, n, k : /\ m = Cardinality(Used) /\ n = Cardinality(Open)
                     /\ k = Cardinality(Open')
  OBVIOUS
<1>2. PICK more : more = Open \cup {r}
  OBVIOUS
<1>3. IsFiniteSet(more) /\ Cardinality(more) <= n + 1 /\ n \in Nat
  <2>1. IsFiniteSet(Open) /\ n \in Nat
    BY <1>1, FS_CardinalityType DEF Room
  <2>2. IsFiniteSet(more) /\ Cardinality(more) \in {n, n + 1}
    BY <1>1, <1>2, <2>1, FS_AddElement
  <2>3. QED
    BY <2>1, <2>2
<1>4. /\ IsFiniteSet(Open') /\ k <= Cardinality(more)
      /\ k \in Nat /\ Cardinality(more) \in Nat
  <2>1. Open' \in SUBSET more
    BY <1>2
  <2>2. IsFiniteSet(Open') /\ Cardinality(Open') <= Cardinality(more)
    BY <1>3, <2>1, FS_Subset
  <2>3. QED
    BY <1>1, <1>3, <2>2, FS_CardinalityType
<1>5. m \in Nat /\ served \in Nat
  BY <1>1, UsedFinite, ConstantsAssumption DEF Used, IInv, TypeOK
<1>6. m + n <= served
  BY <1>1 DEF Room
<1>7. m + k <= served + 1
  BY <1>3, <1>4, <1>5, <1>6
<1>8. Cardinality(Used') + Cardinality(Open') <= served'
  BY <1>1, <1>7
<1>9. QED
  BY <1>4, <1>8 DEF Room

\* A flush takes a key, and closes the request.
LEMMA RoomTaken ==
    ASSUME IInv, Room, served' = served, NEW i \in Ids,
           Used' \subseteq Used \cup {i},
           NEW r \in Open, Open' \subseteq Open \ {r}
    PROVE  Room'
<1>1. PICK m, n, j, k : /\ m = Cardinality(Used) /\ n = Cardinality(Open)
                        /\ j = Cardinality(Used') /\ k = Cardinality(Open')
  OBVIOUS
<1>2. PICK fewer : fewer = Open \ {r}
  OBVIOUS
<1>3. IsFiniteSet(fewer) /\ Cardinality(fewer) = n - 1 /\ n \in Nat
  BY <1>1, <1>2, FS_RemoveElement, FS_CardinalityType DEF Room
<1>4. /\ IsFiniteSet(Open') /\ k <= Cardinality(fewer)
      /\ k \in Nat /\ Cardinality(fewer) \in Nat
  <2>1. Open' \in SUBSET fewer
    BY <1>2
  <2>2. IsFiniteSet(Open') /\ Cardinality(Open') <= Cardinality(fewer)
    BY <1>3, <2>1, FS_Subset
  <2>3. QED
    BY <1>1, <1>3, <2>2, FS_CardinalityType
<1>5. j <= m + 1 /\ j \in Nat /\ m \in Nat
  <2>1. PICK more : more = Used \cup {i}
    OBVIOUS
  <2>2. IsFiniteSet(Used) /\ m \in Nat
    BY <1>1, UsedFinite DEF Used
  <2>3. IsFiniteSet(more) /\ Cardinality(more) <= m + 1
    <3>1. IsFiniteSet(more) /\ Cardinality(more) \in {m, m + 1}
      BY <1>1, <2>1, <2>2, FS_AddElement
    <3>2. QED
      BY <2>2, <3>1
  <2>4. /\ j <= Cardinality(more)
        /\ j \in Nat /\ Cardinality(more) \in Nat
    BY <1>1, <2>1, <2>3, FS_Subset, FS_CardinalityType
  <2>5. QED
    BY <2>2, <2>3, <2>4
<1>6. m + n <= served /\ served \in Nat
  BY <1>1, ConstantsAssumption DEF Room, IInv, TypeOK
<1>7. j + k <= served
  BY <1>3, <1>4, <1>5, <1>6
<1>8. Cardinality(Used') + Cardinality(Open') <= served'
  BY <1>1, <1>7
<1>9. QED
  BY <1>4, <1>8 DEF Room

\* A handler that settles no invitation.
LEMMA BegunDeciding ==
    ASSUME IInv, SInv, NEW r \in Slots, NEW op, NEW by, NEW on, NEW ws,
           Begin(r, op, by, on, ws), Decided(ws, op), Unsettled(ws, op, on)
    PROVE  SInv'
<1>1. PICK x : x = [phase |-> "flush", op |-> op, by |-> Kind(by), on |-> on,
                    writes |-> ws, overtaken |-> FALSE]
  OBVIOUS
<1>2. x.writes = ws /\ x.op = op /\ x.on = on
  BY <1>1
<1>3. Deciding(x)
  BY <1>2 DEF Deciding
<1>4. /\ slot' = [slot EXCEPT ![r] = x] /\ invites' = invites
      /\ served' = served + 1 /\ DOMAIN slot = Slots
  BY <1>1 DEF Begin, invites, IInv
<1>5. Used' = Used /\ Open' \subseteq Open \cup {r}
  BY <1>4 DEF Used, Open
<1>6. Room'
  BY <1>4, <1>5, RoomBegun DEF SInv
<1>7. \A q \in Slots : Deciding(slot[q])'
  BY <1>3, <1>4, DecidingSlots DEF Pending
<1>8. QED
  BY <1>6, <1>7 DEF SInv

LEMMA BegunElsewhere ==
    ASSUME IInv, SInv, NEW r \in Slots, NEW op, NEW by, NEW on, NEW ws,
           Begin(r, op, by, on, ws), op # "invite.accept",
           \A w \in ws : w.table # "invites"
    PROVE  SInv'
  BY BegunDeciding DEF Decided, Unsettled

\* Those that settle one find it pending.
LEMMA Settles ==
    ASSUME NEW i, StillPending(i), NEW set,
           NEW op \in {"invite.revoke", "invite.expire"}, NEW on
    PROVE  LET ws == {Update("invites", i, invites[i], set)} IN
           Decided(ws, op) /\ Unsettled(ws, op, on)
  BY Changed DEF Decided, Unsettled

LEMMA SettlesAndInvites ==
    ASSUME NEW t, NEW e, NEW role, NEW id, NEW on
    PROVE  LET ws == InviteWrites(t, e, role, id) IN
           Decided(ws, "invite.create") /\ Unsettled(ws, "invite.create", on)
<1>1. ASSUME NEW w \in InviteWrites(t, e, role, id)
      PROVE  /\ w.table = "invites"
             /\ \/ w.how = "update" /\ StillPending(w.key)
                \/ w.how = "insert" /\ w.key = Fresh
  <2>1. ASSUME NEW i \in Ids, Pending(i),
               w = Update("invites", i, invites[i], [status |-> "revoked"])
        PROVE  w.table = "invites" /\ w.how = "update" /\ StillPending(w.key)
    BY <2>1, Changed DEF StillPending
  <2>2. ASSUME NEW row, w = Insert("invites", Fresh, row)
        PROVE  w.table = "invites" /\ w.how = "insert" /\ w.key = Fresh
    BY <2>2, Added
  <2>3. QED
    BY <1>1, <2>1, <2>2 DEF InviteWrites
<1>2. QED
  BY <1>1 DEF Decided, Unsettled

\* The handlers of accounts, tenants, API keys and operators.
Elsewhere(r) ==
    \E op, by, on, ws :
        /\ Begin(r, op, by, on, ws)
        /\ op # "invite.accept"
        /\ \A w \in ws : w.table # "invites"

LEMMA UpdateElsewhere ==
    ASSUME NEW r, NEW op, op # "invite.accept", NEW by,
           NEW t, t # "invites", NEW k, NEW row, NEW set,
           Begin(r, op, by, <<>>, {Update(t, k, row, set)})
    PROVE  Elsewhere(r)
<1>1. \A w \in {Update(t, k, row, set)} : w.table # "invites"
  BY Changed
<1>2. QED
  BY <1>1 DEF Elsewhere

LEMMA InsertElsewhere ==
    ASSUME NEW r, NEW op, op # "invite.accept", NEW by,
           NEW t, t # "invites", NEW k, NEW row,
           Begin(r, op, by, <<>>, {Insert(t, k, row)})
    PROVE  Elsewhere(r)
<1>1. \A w \in {Insert(t, k, row)} : w.table # "invites"
  BY Added
<1>2. QED
  BY <1>1 DEF Elsewhere

LEMMA AccountElsewhere ==
    ASSUME NEW r, NEW p, NEW t, NEW e,
           \/ bootstrap_operator(r, e) \/ change_password(r, e)
           \/ UserRequest(r, p, t, e)
    PROVE  Elsewhere(r)
<1>1. CASE bootstrap_operator(r, e)
  BY <1>1, InsertElsewhere DEF bootstrap_operator
<1>2. CASE change_password(r, e)
  BY <1>2, UpdateElsewhere DEF change_password
<1>3. ASSUME NEW role, create_user(r, p, t, e, role)
      PROVE  Elsewhere(r)
  BY <1>3, InsertElsewhere DEF create_user
<1>4. ASSUME NEW body, update_user(r, p, t, e, body)
      PROVE  Elsewhere(r)
  BY <1>4, UpdateElsewhere DEF update_user
<1>5. CASE admin_reset_password(r, p, t, e)
  BY <1>5, UpdateElsewhere DEF admin_reset_password
<1>6. CASE delete_user(r, p, t, e)
  <2>1. \A w \in {Delete("users", e, users[e])} : w.table # "invites"
    BY DEF Delete
  <2>2. QED
    BY <1>6, <2>1 DEF delete_user, Elsewhere
<1>7. QED
  BY <1>1, <1>2, <1>3, <1>4, <1>5, <1>6 DEF UserRequest

LEMMA OperatorElsewhere ==
    ASSUME NEW r, NEW p, OperatorRequest(r, p)
    PROVE  Elsewhere(r)
<1>1. ASSUME NEW k, revoke_api_key(r, p, k)
      PROVE  Elsewhere(r)
  BY <1>1, UpdateElsewhere DEF revoke_api_key
<1>2. ASSUME NEW e, NEW orole, create_operator(r, p, e, orole)
      PROVE  Elsewhere(r)
  BY <1>2, InsertElsewhere DEF create_operator
<1>3. ASSUME NEW e, NEW orole, NEW active,
             update_operator(r, p, e, orole, active)
      PROVE  Elsewhere(r)
  BY <1>3, UpdateElsewhere DEF update_operator
<1>4. QED
  BY <1>1, <1>2, <1>3 DEF OperatorRequest

LEMMA TenantElsewhere ==
    ASSUME NEW r, NEW p, NEW t, TenantRequest(r, p, t)
    PROVE  \/ Elsewhere(r)
           \/ \E e \in Emails, role \in Roles :
                 create_or_resend_invite(r, p, t, e, role)
<1>1. ASSUME NEW e, NEW passed, create_tenant(r, p, t, e, passed)
      PROVE  Elsewhere(r)
  <2>1. \A w \in TenantRows(t, e, passed) : w.table # "invites"
    BY Added DEF TenantRows
  <2>2. PICK op \in {"tenant.create", "tenant.invite"} :
           Begin(r, op, p, <<t, e>>, TenantRows(t, e, passed))
    BY <1>1 DEF create_tenant
  <2>3. QED
    BY <2>1, <2>2 DEF Elsewhere
<1>2. ASSUME NEW status, set_tenant_status(r, p, t, status)
      PROVE  Elsewhere(r)
  BY <1>2, UpdateElsewhere DEF set_tenant_status
<1>3. ASSUME NEW role, create_api_key(r, p, t, role)
      PROVE  Elsewhere(r)
  BY <1>3, InsertElsewhere DEF create_api_key
<1>4. ASSUME NEW e, grant_tenant_access(r, p, e, t)
      PROVE  Elsewhere(r)
  <2>1. PICK w :
           /\ \/ w = Update("access", <<e, t>>, access[<<e, t>>],
                            [active |-> TRUE])
              \/ w = Insert("access", <<e, t>>, [active |-> TRUE])
           /\ Begin(r, "operator.grant_access", p, <<>>, {w})
    BY <1>4 DEF grant_tenant_access
  <2>2. w.table # "invites"
    BY <2>1, Changed, Added
  <2>3. QED
    BY <2>1, <2>2 DEF Elsewhere
<1>5. ASSUME NEW e, revoke_tenant_access(r, p, e, t)
      PROVE  Elsewhere(r)
  BY <1>5, UpdateElsewhere DEF revoke_tenant_access
<1>6. QED
  BY <1>1, <1>2, <1>3, <1>4, <1>5 DEF TenantRequest

LEMMA RequestDecided ==
    ASSUME IInv, SInv, NEW r \in Slots, Request(r)
    PROVE  SInv'
<1>1. CASE Elsewhere(r)
  BY <1>1, BegunElsewhere DEF Elsewhere
<1>2. ASSUME NEW i \in Ids, accept(r, i)
      PROVE  SInv'
  <2>1. Pending(i)
    BY <1>2 DEF accept, Acceptable
  <2>2. StillPending(i)
    BY <2>1 DEF StillPending
  <2>3. PICK v, w :
           /\ v.table = "users"
           /\ w.table = "invites" /\ w.how = "update" /\ w.key = i
           /\ Begin(r, "invite.accept", NoRow, <<i>>, {v, w})
    <3>1. PICK e :
             Begin(r, "invite.accept", NoRow, <<i>>,
               {Update("users", e, users[e], AcceptedUser(i, users[e])),
                Update("invites", i, invites[i],
                       [status |-> "accepted", user |-> users[e].id])})
      BY <1>2 DEF accept
    <3>2. PICK v, w :
             /\ v = Update("users", e, users[e], AcceptedUser(i, users[e]))
             /\ w = Update("invites", i, invites[i],
                           [status |-> "accepted", user |-> users[e].id])
      OBVIOUS
    <3>3. /\ v.table = "users"
          /\ w.table = "invites" /\ w.how = "update" /\ w.key = i
      BY <3>2, Changed
    <3>4. QED
      BY <3>1, <3>2, <3>3
  <2>4. PICK on : on = <<i>>
    OBVIOUS
  <2>5. /\ Decided({v, w}, "invite.accept")
        /\ Unsettled({v, w}, "invite.accept", on)
    BY <2>2, <2>3, <2>4 DEF Decided, Unsettled
  <2>6. QED
    BY <2>3, <2>4, <2>5, BegunDeciding
<1>3. ASSUME NEW i \in Ids, accept_new(r, i)
      PROVE  SInv'
  <2>1. PICK x : x = [phase |-> "failed", op |-> "invite.accept",
                      by |-> "outside", on |-> <<i>>, writes |-> {},
                      overtaken |-> FALSE]
    OBVIOUS
  <2>2. Deciding(x)
    BY <2>1 DEF Deciding
  <2>3. /\ slot' = [slot EXCEPT ![r] = x] /\ invites' = invites
        /\ served' = served + 1 /\ DOMAIN slot = Slots
    BY <1>3, <2>1 DEF accept_new, invites, IInv
  <2>4. Used' = Used /\ Open' \subseteq Open \cup {r}
    BY <2>3 DEF Used, Open
  <2>5. Room'
    BY <2>3, <2>4, RoomBegun DEF SInv
  <2>6. \A q \in Slots : Deciding(slot[q])'
    BY <2>2, <2>3, DecidingSlots DEF Pending
  <2>7. QED
    BY <2>5, <2>6 DEF SInv
<1>4. ASSUME NEW i \in Ids, MarkExpired(r, i)
      PROVE  SInv'
  <2>1. StillPending(i)
    BY <1>4 DEF MarkExpired, StillPending
  <2>2. QED
    BY <1>4, <2>1, Settles, BegunDeciding DEF MarkExpired
<1>5. ASSUME NEW i \in Ids, NEW p \in Callers, revoke_invite(r, p, i)
      PROVE  SInv'
  <2>1. CASE Pending(i)
    <3>1. StillPending(i)
      BY <2>1 DEF StillPending
    <3>2. QED
      BY <1>5, <2>1, <3>1, Settles, BegunDeciding DEF revoke_invite
  <2>2. CASE ~Pending(i)
    <3>1. Begin(r, "invite.revoke", p, <<>>, {})
      BY <1>5, <2>2 DEF revoke_invite
    <3>2. QED
      BY <3>1, BegunElsewhere
  <2>3. QED
    BY <2>1, <2>2
<1>6. ASSUME NEW p, NEW t, NEW e, NEW role,
             create_or_resend_invite(r, p, t, e, role)
      PROVE  SInv'
  BY <1>6, SettlesAndInvites, BegunDeciding DEF create_or_resend_invite
<1>7. CASE InviteRequest(r)
  BY <1>2, <1>3, <1>4, <1>5, <1>7 DEF InviteRequest
<1>8. ASSUME NEW p, NEW t, TenantRequest(r, p, t)
      PROVE  SInv'
  BY <1>1, <1>6, <1>8, TenantElsewhere
<1>9. QED
  BY <1>1, <1>7, <1>8, AccountElsewhere, OperatorElsewhere DEF Request

LEMMA CommitDecided ==
    ASSUME IInv, SInv, NEW r \in Slots, Commit(r)
    PROVE  SInv'
<1>1. /\ slot[r].phase = "flush" /\ served' = served
      /\ Decided(slot[r].writes, slot[r].op)
  BY DEF Commit, SInv, Deciding
<1>2. slot[r].op # "tenant.invite" => slot'[r] = Idle
  BY DEF Commit
<1>3. ASSUME NEW q \in Slots, slot'[q].phase = "flush"
      PROVE  /\ q # r
             /\ slot'[q].writes = slot[q].writes /\ slot'[q].op = slot[q].op
             /\ slot'[q].on = slot[q].on /\ slot[q].phase = "flush"
             /\ ~slot'[q].overtaken => ~slot[q].overtaken /\ db' = db
  <2>1. PICK x, y : x = slot'[q] /\ y = slot[q]
    OBVIOUS
  <2>2. CASE q = r
    <3>1. PICK on : on = Append(y.on, nextId)
      OBVIOUS
    <3>2. x = Idle \/ x = [y EXCEPT !.phase = "invite", !.on = on]
      BY <2>1, <2>2, <3>1 DEF Commit
    <3>3. DOMAIN y = {"phase", "op", "by", "on", "writes", "overtaken"}
      BY <1>1, <2>1, <2>2 DEF IInv, TypeOK, Busy
    <3>4. CASE x = Idle
      BY <1>3, <2>1, <3>4 DEF Idle
    <3>5. CASE x = [y EXCEPT !.phase = "invite", !.on = on]
      <4>1. x.phase = "invite"
        BY <3>3, <3>5
      <4>2. QED
        BY <1>3, <2>1, <4>1
    <3>6. QED
      BY <3>2, <3>4, <3>5
  <2>3. CASE q # r
    <3>1. x = Idle \/ /\ y.phase # "idle"
                      /\ x = [y EXCEPT !.overtaken = @ \/ db' # db]
      BY <2>1, <2>3 DEF Commit, Busy
    <3>2. x # Idle
      BY <1>3, <2>1 DEF Idle
    <3>3. /\ DOMAIN y = {"phase", "op", "by", "on", "writes", "overtaken"}
          /\ y.overtaken \in BOOLEAN
      BY <2>1, <3>1, <3>2 DEF IInv, TypeOK, Busy, SlotOK
    <3>4. PICK late \in BOOLEAN :
             /\ late = (y.overtaken \/ db' # db)
             /\ x = [y EXCEPT !.overtaken = late]
      BY <3>1, <3>2, <3>3
    <3>5. /\ x.writes = y.writes /\ x.op = y.op /\ x.on = y.on
          /\ x.phase = y.phase /\ x.overtaken = late
      BY <3>3, <3>4
    <3>6. QED
      BY <1>3, <2>1, <2>3, <3>4, <3>5
  <2>4. QED
    BY <2>2, <2>3
<1>4. ASSUME NEW q \in Slots
      PROVE  Deciding(slot[q])'
  <2>1. CASE slot'[q].phase # "flush"
    BY <2>1 DEF Deciding
  <2>2. CASE slot'[q].phase = "flush"
    <3>1. Decided(slot'[q].writes, slot'[q].op)
      BY <1>3, <2>2 DEF SInv, Deciding
    <3>2. ASSUME ~slot'[q].overtaken
          PROVE  Unsettled(slot[q].writes, slot[q].op, slot[q].on)'
      <4>1. PICK ws, op, on :
               /\ ws = slot'[q].writes /\ op = slot'[q].op /\ on = slot'[q].on
        OBVIOUS
      <4>2. Unsettled(ws, op, on)
        BY <1>3, <2>2, <3>2, <4>1 DEF SInv, Deciding
      <4>3. \A i : StillPending(i) => StillPending(i)'
        BY <1>3, <2>2, <3>2 DEF StillPending, Pending, invites
      <4>4. Unsettled(ws, op, on)'
        BY <4>2, <4>3 DEF Unsettled
      <4>5. QED
        BY <4>1, <4>4
    <3>3. QED
      BY <3>1, <3>2 DEF Deciding, Decided
  <2>3. QED
    BY <2>1, <2>2
<1>5. ASSUME NEW q \in Open'
      PROVE  q \in Open /\ (q = r => slot[r].op = "tenant.invite")
  <2>1. PICK x, y : x = slot'[q] /\ y = slot[q]
    OBVIOUS
  <2>2. CASE q = r
    BY <1>1, <1>2, <1>5, <2>2 DEF Open, Idle
  <2>3. CASE q # r
    <3>1. q \in Slots /\ x.phase \in {"flush", "invite"}
      BY <1>5, <2>1 DEF Open
    <3>2. /\ y.phase # "idle"
          /\ x = [y EXCEPT !.overtaken = @ \/ db' # db]
      BY <2>1, <2>3, <3>1 DEF Commit, Busy, Idle
    <3>3. DOMAIN y = {"phase", "op", "by", "on", "writes", "overtaken"}
      BY <2>1, <3>1, <3>2 DEF IInv, TypeOK, Busy
    <3>4. x.phase = y.phase
      BY <3>2, <3>3
    <3>5. QED
      BY <2>1, <2>3, <3>1, <3>4 DEF Open
  <2>4. QED
    BY <2>2, <2>3
<1>6. ASSUME NEW i \in Used'
      PROVE  \/ i \in Used
             \/ i = FreshKey("invites") /\ slot[r].op # "tenant.invite"
  <2>1. i \in Ids /\ invites'[i] # NoRow
    BY <1>6 DEF Used
  <2>2. QED
    BY <1>1, <2>1, InviteAfter DEF Used, SInv
<1>7. Room'
  <2>1. CASE slot[r].op = "tenant.invite"
    <3>1. Used' \subseteq Used /\ Open' \subseteq Open
      BY <1>5, <1>6, <2>1
    <3>2. QED
      BY <1>1, <3>1, RoomKept DEF SInv
  <2>2. CASE slot[r].op # "tenant.invite"
    <3>1. r \in Open /\ FreshKey("invites") \in Ids
      BY <1>1, FreshIsFree DEF Open, SInv
    <3>2. /\ Used' \subseteq Used \cup {FreshKey("invites")}
          /\ Open' \subseteq Open \ {r}
      BY <1>5, <1>6, <2>2
    <3>3. QED
      BY <1>1, <3>1, <3>2, RoomTaken DEF SInv
  <2>3. QED
    BY <2>1, <2>2
<1>8. QED
  BY <1>4, <1>7 DEF SInv

LEMMA DecidingStep == IInv /\ SInv /\ [Next]_vars => SInv'
<1> SUFFICES ASSUME IInv, SInv, [Next]_vars
             PROVE  SInv'
  OBVIOUS
<1>1. Deciding(Idle) /\ DOMAIN slot = Slots
  BY DEF Deciding, Idle, IInv
<1>2. ASSUME invites' = invites, served' = served,
             \A q \in Slots :
                \/ slot'[q] = slot[q]
                \/ /\ slot'[q].phase \in {"flush", "invite"} => q \in Open
                   /\ Deciding(slot'[q])
      PROVE  SInv'
  <2>1. Used' \subseteq Used /\ Open' \subseteq Open
    BY <1>2 DEF Used, Open
  <2>2. Room'
    BY <1>2, <2>1, RoomKept DEF SInv
  <2>3. \A q \in Slots :
           slot'[q] = slot[q] \/ \E x : slot'[q] = x /\ Deciding(x)
    BY <1>2
  <2>4. \A q \in Slots : Deciding(slot[q])'
    BY <1>2, <2>3, DecidingSlots DEF Pending
  <2>5. QED
    BY <2>2, <2>4 DEF SInv
<1>3. ASSUME NEW r \in Slots, CommitRaises(r)
      PROVE  SInv'
  <2>1. PICK x : x = slot'[r]
    OBVIOUS
  <2>2. DOMAIN slot[r] = {"phase", "op", "by", "on", "writes", "overtaken"}
    BY <1>3 DEF CommitRaises, IInv, TypeOK, Busy
  <2>3. x.phase = "failed"
    BY <1>1, <1>3, <2>1, <2>2 DEF CommitRaises
  <2>4. Deciding(x) /\ x.phase \notin {"flush", "invite"}
    BY <2>3 DEF Deciding
  <2>5. \A q \in Slots : slot'[q] = slot[q] \/ slot'[q] = x
    BY <1>1, <1>3, <2>1 DEF CommitRaises
  <2>6. QED
    BY <1>2, <1>3, <2>4, <2>5 DEF CommitRaises, invites
<1>4. Idle.phase = "idle"
  BY DEF Idle
<1>5. ASSUME NEW r \in Slots, Answer500(r)
      PROVE  SInv'
  BY <1>1, <1>2, <1>4, <1>5 DEF Answer500, invites
<1>6. ASSUME NEW r \in Slots, InviteAdmin(r)
      PROVE  SInv'
  <2>1. PICK y : y = slot[r]
    OBVIOUS
  <2>2. PICK ws : ws = InviteWrites(y.on[1], y.on[2], "admin", y.on[3])
    OBVIOUS
  <2>3. PICK x : x = [y EXCEPT !.phase = "flush", !.op = "invite.create",
                               !.overtaken = FALSE, !.writes = ws]
    OBVIOUS
  <2>4. DOMAIN y = {"phase", "op", "by", "on", "writes", "overtaken"}
    BY <1>6, <2>1 DEF InviteAdmin, IInv, TypeOK, Busy
  <2>5. x.writes = ws /\ x.op = "invite.create"
    BY <2>3, <2>4
  <2>6. Decided(ws, "invite.create") /\ Unsettled(ws, "invite.create", x.on)
    BY <2>2, SettlesAndInvites
  <2>7. Deciding(x)
    BY <2>5, <2>6 DEF Deciding
  <2>8. slot' = [slot EXCEPT ![r] = x] /\ r \in Open
    <3>1. slot' = [slot EXCEPT ![r] =
             [slot[r] EXCEPT !.phase = "flush", !.op = "invite.create",
                !.overtaken = FALSE,
                !.writes = InviteWrites(slot[r].on[1], slot[r].on[2], "admin",
                                        slot[r].on[3])]]
      BY <1>6 DEF InviteAdmin
    <3>2. r \in Open
      BY <1>6 DEF InviteAdmin, Open
    <3>3. QED
      BY <2>1, <2>2, <2>3, <3>1, <3>2
  <2>9. QED
    BY <1>1, <1>2, <1>6, <2>7, <2>8 DEF InviteAdmin, invites
<1>7. ASSUME NEW e \in Emails, ensure_operator(e)
      PROVE  SInv'
  <2>1. invites' = invites /\ UNCHANGED <<slot, served>>
    BY <1>7 DEF ensure_operator, invites, IInv, Tables
  <2>2. QED
    BY <1>2, <2>1
<1>8. ASSUME NEW i \in Ids, Expire(i)
      PROVE  SInv'
  <2>1. PICK row : row = [invites[i] EXCEPT !.late = TRUE]
    OBVIOUS
  <2>2. invites' = [invites EXCEPT ![i] = row]
    BY <1>8, <2>1 DEF Expire, invites, IInv, Tables
  <2>3. invites[i] \in Invite /\ Pending(i)
    BY <1>8 DEF Expire, Pending, IInv, TypeOK
  <2>4. row \in Invite /\ row.status = "pending"
    BY <2>1, <2>3 DEF Pending, Invite
  <2>5. DOMAIN invites = Ids /\ row \notin {NoRow, Gone}
    BY <2>4, ConstantsAssumption DEF IInv, TypeOK
  <2>6. \A j \in Ids : Pending(j) => Pending(j)'
    BY <2>2, <2>4, <2>5 DEF Pending
  <2>7. \A q \in Slots : Deciding(slot[q])'
    <3>1. slot' = slot
      BY <1>8 DEF Expire
    <3>2. QED
      BY <2>6, <3>1, DecidingSlots
  <2>8. Used' \subseteq Used
    BY <2>2, <2>3, <2>5 DEF Used, Pending
  <2>9. Open' = Open /\ served' = served
    BY <1>8 DEF Expire, Open
  <2>10. Room'
    BY <2>8, <2>9, RoomKept DEF SInv
  <2>11. QED
    BY <2>7, <2>10 DEF SInv
<1>9. CASE Crash
  BY <1>1, <1>2, <1>4, <1>9 DEF Crash, invites
<1>10. CASE UNCHANGED vars
  BY <1>2, <1>10 DEF vars, invites
<1>11. QED
  BY <1>3, <1>5, <1>6, <1>7, <1>8, <1>9, <1>10, RequestDecided,
     CommitDecided DEF Next

SettledStep ==
    \A i \in Ids, r \in Slots :
        /\ Flushes(r) /\ ~slot[r].overtaken
        /\ invites[i] \notin {NoRow, Gone} /\ ~Pending(i)
        => /\ invites'[i] \in {invites[i], Gone}
           /\ ~(slot[r].op = "invite.accept" /\ slot[r].on[1] = i)

\* Only the commit of r ends its flush with a change of the database.
LEMMA FlushesCommits ==
    ASSUME IInv, [Next]_vars, NEW r \in Slots, Flushes(r)
    PROVE  Commit(r)
<1>1. db' # db /\ slot[r].phase = "flush" /\ slot'[r].phase # "flush"
  BY DEF Flushes
<1>2. ASSUME NEW q \in Slots, Request(q)
      PROVE  UNCHANGED db
  <2>1. CASE Elsewhere(q)
    BY <2>1 DEF Elsewhere, Begin
  <2>2. CASE InviteRequest(q)
    BY <2>2 DEF InviteRequest, MarkExpired, accept, accept_new,
       revoke_invite, Begin
  <2>3. ASSUME NEW p, NEW t, TenantRequest(q, p, t)
        PROVE  UNCHANGED db
    BY <2>1, <2>3, TenantElsewhere DEF create_or_resend_invite, Begin
  <2>4. QED
    BY <1>2, <2>1, <2>2, <2>3, AccountElsewhere, OperatorElsewhere DEF Request
<1>3. ~\E q \in Slots : CommitRaises(q) \/ Answer500(q) \/ InviteAdmin(q)
  BY <1>1 DEF CommitRaises, Answer500, InviteAdmin
<1>4. ~Crash /\ ~UNCHANGED vars
  BY <1>1 DEF Crash, vars
<1>5. ~\E e \in Emails : ensure_operator(e)
  BY <1>1 DEF ensure_operator
<1>6. ~\E i \in Ids : Expire(i)
  BY <1>1 DEF Expire
<1>7. PICK q \in Slots : Commit(q)
  BY <1>1, <1>2, <1>3, <1>4, <1>5, <1>6 DEF Next
<1>8. CASE q # r
  <2>1. PICK x, y : x = slot'[r] /\ y = slot[r]
    OBVIOUS
  <2>2. x = [y EXCEPT !.overtaken = @ \/ db' # db]
    BY <1>1, <1>7, <1>8, <2>1 DEF Commit, Busy
  <2>3. DOMAIN y = {"phase", "op", "by", "on", "writes", "overtaken"}
    BY <1>1, <2>1 DEF IInv, TypeOK, Busy
  <2>4. x.phase = y.phase
    BY <2>2, <2>3
  <2>5. QED
    BY <1>1, <2>1, <2>4
<1>9. QED
  BY <1>7, <1>8

LEMMA SettledSteps ==
    ASSUME IInv, SInv, [Next]_vars
    PROVE  SettledStep
<1> SUFFICES ASSUME NEW i \in Ids, NEW r \in Slots,
                    Flushes(r), ~slot[r].overtaken,
                    invites[i] \notin {NoRow, Gone}, ~Pending(i)
             PROVE  /\ invites'[i] \in {invites[i], Gone}
                    /\ ~(slot[r].op = "invite.accept" /\ slot[r].on[1] = i)
  BY DEF SettledStep
<1>1. Commit(r)
  BY FlushesCommits
<1>2. /\ Decided(slot[r].writes, slot[r].op)
      /\ Unsettled(slot[r].writes, slot[r].op, slot[r].on)
  BY <1>1 DEF Commit, SInv, Deciding
<1>3. ~StillPending(i)
  BY DEF StillPending
<1>4. invites'[i] \in {invites[i], Gone}
  BY <1>1, <1>2, <1>3, InviteAfter DEF Unsettled, SInv
<1>5. QED
  BY <1>2, <1>3, <1>4 DEF Unsettled

\* An invitation once accepted, expired or revoked stays so and is not
\* accepted, unless another request settled it between the read and the flush
\* of this one; nor does a new invitation take its place (app/invites.py).
THEOREM InviteStays == Spec => SettledInviteStays
<1>1. Init => SInv
  <2> SUFFICES ASSUME Init
               PROVE  SInv
    OBVIOUS
  <2>1. Used = {} /\ Open = {} /\ served = 0
    BY DEF Init, Start, EmptyTables, Used, Open, Idle, invites
  <2>2. Room
    BY <2>1, FS_EmptySet DEF Room
  <2>3. QED
    BY <2>2 DEF Init, Start, SInv, Deciding, Idle
<1>2. Spec => []SInv
  BY <1>1, DecidingStep, Sound, PTL DEF Spec
<1>3. IInv /\ SInv /\ [Next]_vars => [SettledStep]_vars
  BY SettledSteps
<1>4. QED
  BY <1>2, <1>3, Sound, PTL DEF Spec, SettledInviteStays, SettledStep
=============================================================================
