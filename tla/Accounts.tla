------------------------------ MODULE Accounts ------------------------------
(***************************************************************************)
(* Accounts, invitations, tenants, API keys and operators: the handlers of *)
(* app/routers/auth_routes.py, tenants_routes.py, org_routes.py (the       *)
(* bootstrap) and invites_routes.py, with app/auth.py, app/invites.py,     *)
(* app/bootstrap.py and app/audit.py.                                      *)
(*                                                                         *)
(* The handlers are synchronous functions, so FastAPI runs them on a       *)
(* thread pool: two requests interleave at their database transactions.    *)
(* A handler authenticates, reads rows, decides, and changes ORM objects;  *)
(* its one commit flushes what it changed, column by column, without       *)
(* looking again at what it read.  An action of this module is therefore   *)
(* the reading part of one handler, which leaves its transaction in the    *)
(* request's slot, and Commit flushes it.  A refused request changes       *)
(* nothing and is no step.                                                 *)
(***************************************************************************)
EXTENDS Integers, FiniteSets, Sequences

CONSTANTS
    Emails,       \* e-mail addresses accounts are created and invited under
    Tenants,      \* slugs of tenants
    Roles,        \* roles a payload names, a subset of those of ROLE_RANK
    OperatorRoles,\* operator roles a payload names
    UserUpdates,  \* bodies of PATCH /users/{id}
    Slots,        \* requests the thread pool runs at once
    MaxRequests,  \* bound: requests served, and rows of invites and API keys
    Platform,     \* the caller holding the platform key of the environment
    Keep,         \* "this field is absent from the body"
    NoRow,        \* "no such row"
    Fresh,        \* the key of an inserted row the database numbers itself
    Gone          \* a deleted row whose id is not used again

VARIABLES
    db,        \* the tables: users, tenants, invites, keys, access, and of
               \* audit_logs the entries tenant.create
    nextId,    \* next value of users.id
    slot,      \* [Slots -> request in progress]
    served     \* requests begun, at most MaxRequests

vars == <<db, nextId, slot, served>>

users   == db.users     \* by e-mail, which is UNIQUE
tenants == db.tenants   \* by slug, which is UNIQUE
invites == db.invites   \* by id
keys    == db.keys      \* api_keys, by id
access  == db.access    \* operator_tenant_access, UNIQUE by both columns
trail   == db.trail     \* the audit entry of a tenant's creation

ROLE_RANK == [viewer |-> 1, analyst |-> 2, admin |-> 3]
OPERATOR_EFFECTIVE_ROLE ==
    [platform_admin |-> "admin", support_operator |-> "analyst",
     support_viewer |-> "viewer", none |-> "viewer"]

User == [id: Nat, role: DOMAIN ROLE_RANK, operator: BOOLEAN,
         orole: DOMAIN OPERATOR_EFFECTIVE_ROLE,
         tenant: Tenants \cup {NoRow}, active: BOOLEAN, version: Nat]
Tenant == [status: {"active", "suspended"}]
Invite == [tenant: Tenants, email: Emails, role: DOMAIN ROLE_RANK,
           user: Nat,   \* invites.user_id, 0 for NULL
           status: {"pending", "accepted", "expired", "revoked"},
           late: BOOLEAN]   \* expires_at has passed
ApiKey == [tenant: Tenants, role: DOMAIN ROLE_RANK, active: BOOLEAN]
Access == [active: BOOLEAN]
CreateEntry == [action |-> "tenant.create"]

Ids == 1..MaxRequests

\* What a payload may name, and markers that are no data.
ASSUME ConstantsAssumption ==
    /\ Roles \subseteq DOMAIN ROLE_RANK
    /\ OperatorRoles \subseteq DOMAIN OPERATOR_EFFECTIVE_ROLE
    /\ UserUpdates \subseteq [role: DOMAIN ROLE_RANK \cup {Keep},
                              active: BOOLEAN \cup {Keep}, password: BOOLEAN]
    /\ MaxRequests \in Nat
    /\ IsFiniteSet(Emails)
    /\ Platform \notin Emails /\ Platform \notin Ids
    /\ Fresh \notin Emails /\ Fresh \notin Tenants /\ Fresh \notin Ids
    /\ Fresh \notin Emails \X Tenants
    /\ NoRow \notin Tenants
    /\ \A marker \in {NoRow, Gone} :
          /\ marker \notin User
          /\ marker \notin Tenant
          /\ marker \notin Invite
          /\ marker \notin ApiKey
          /\ marker \notin Access
          /\ marker # CreateEntry

\* One row a flush writes: the row, how, the id the session knows it by, and
\* the columns that changed (of an insert, all of them).
Insert(table, key, row) ==
    [table |-> table, key |-> key, how |-> "insert", id |-> 0, set |-> row]
Update(table, key, row, set) ==
    [table |-> table, key |-> key, how |-> "update",
     id |-> IF table = "users" THEN row.id ELSE 0,
     set |-> [c \in {c \in DOMAIN set : set[c] # row[c]} |-> set[c]]]
Delete(table, key, row) ==
    [table |-> table, key |-> key, how |-> "delete", id |-> row.id,
     set |-> <<>>]
Idle == [phase |-> "idle"]
Busy(r) == slot[r].phase # "idle"

TypeOK ==
    /\ users \in [Emails -> User \cup {NoRow}]
    /\ tenants \in [Tenants -> Tenant \cup {NoRow}]
    /\ invites \in [Ids -> Invite \cup {NoRow, Gone}]
    /\ keys \in [Ids -> ApiKey \cup {NoRow}]
    /\ access \in [Emails \X Tenants -> Access \cup {NoRow}]
    /\ trail \in [Tenants -> {CreateEntry, NoRow}]
    /\ nextId \in Nat
    /\ \A r \in Slots :
         /\ slot[r].phase \in {"idle", "flush", "invite", "failed"}
         /\ Busy(r) => DOMAIN slot[r] =
                {"phase", "op", "by", "on", "writes", "overtaken"}
    /\ served \in 0..MaxRequests

-----------------------------------------------------------------------------
(***************************************************************************)
(* Authentication and authorisation (app/auth.py).  A caller is a user     *)
(* with a session, an API key of a tenant, or the platform key.            *)
(***************************************************************************)
Callers == Emails \cup Ids \cup {Platform}

HasRow(e) == users[e] # NoRow
ById(id)  == {e \in Emails : HasRow(e) /\ users[e].id = id}

\* _from_platform_key, _from_tenant_api_key, _from_cookie: the row the caller
\* presents is there and active.
Authenticated(p) ==
    CASE p = Platform -> TRUE
      [] p \in Emails -> HasRow(p) /\ users[p].active
      [] OTHER        -> keys[p] # NoRow /\ keys[p].active

\* Principal.operator_role, "none" for a caller that is not an operator.
OperatorRole(p) ==
    CASE p = Platform -> "platform_admin"
      [] p \in Emails -> IF users[p].operator THEN users[p].orole ELSE "none"
      [] OTHER        -> "none"
IsOperator(p)      == OperatorRole(p) # "none"
IsPlatformAdmin(p) == OperatorRole(p) = "platform_admin"

EffectiveRole(p) ==
    IF IsOperator(p) THEN OPERATOR_EFFECTIVE_ROLE[OperatorRole(p)]
    ELSE IF p \in Emails THEN users[p].role
    ELSE keys[p].role

operator_can_access_tenant(p, t) ==
    IF IsPlatformAdmin(p) THEN TRUE
    ELSE access[<<p, t>>] # NoRow /\ access[<<p, t>>].active

\* A member of a tenant, or a caller from outside: an operator, an API key, or
\* nobody (the public endpoints).
Kind(p) == IF p \in Emails /\ ~IsOperator(p) THEN "member" ELSE "outside"

\* current_tenant_id: an operator names the tenant, anyone else has one.
ActsIn(p, t) ==
    IF IsOperator(p) THEN operator_can_access_tenant(p, t)
    ELSE IF p \in Emails THEN users[p].tenant = t
    ELSE keys[p].tenant = t

Admin(p, t) ==
    /\ Authenticated(p)
    /\ ROLE_RANK[EffectiveRole(p)] >= ROLE_RANK["admin"]
    /\ tenants[t] # NoRow
    /\ ActsIn(p, t)

PlatformAdmin(p) == Authenticated(p) /\ IsPlatformAdmin(p)

SupportOf(p, t) ==
    /\ Authenticated(p) /\ IsOperator(p)
    /\ tenants[t] # NoRow
    /\ operator_can_access_tenant(p, t)

-----------------------------------------------------------------------------
(***************************************************************************)
(* A request: Begin leaves the handler's transaction in the slot, Commit   *)
(* flushes it.  The audit entry most handlers then write, in a transaction *)
(* of its own that swallows its errors, is read by nothing and not kept;   *)
(* create_tenant puts it in the transaction of its rows, and that is kept. *)
(***************************************************************************)
Begin(r, op, by, on, writes) ==
    /\ ~Busy(r)
    /\ served < MaxRequests
    /\ served' = served + 1
    /\ slot' = [slot EXCEPT ![r] =
         [phase |-> "flush", op |-> op, by |-> Kind(by), on |-> on,
          writes |-> writes, overtaken |-> FALSE]]
    /\ UNCHANGED <<db, nextId>>

\* The row a write was decided on is gone, or an inserted row breaks a
\* unique index or a foreign key: the flush raises and the commit with it.
Raises(w) ==
    LET here == db[w.table][w.key] IN
    CASE w.how = "update" ->
           /\ DOMAIN w.set # {}
           /\ IF here \in {NoRow, Gone} THEN TRUE
              ELSE w.table = "users" /\ here.id # w.id
      [] w.how = "insert" ->
           \/ w.key # Fresh /\ here # NoRow
           \/ w.table = "invites" /\ w.set.user # 0 /\ ById(w.set.user) = {}
           \/ w.table = "access" /\ users[w.key[1]] = NoRow
      [] OTHER -> FALSE

FreshKey(table) ==
    CHOOSE k \in Ids : /\ db[table][k] = NoRow
                       /\ \A j \in 1..(k - 1) : db[table][j] # NoRow

Writes(ws, t, k) ==
    {w \in ws : /\ w.table = t
                /\ w.how = "update" => DOMAIN w.set # {}
                /\ k = IF w.key = Fresh THEN FreshKey(t) ELSE w.key}

\* Ids of the accounts ws deletes; deleting a row that is gone is no error.
Deleted(ws) ==
    {w.id : w \in {w \in ws : /\ w.how = "delete" /\ HasRow(w.key)
                              /\ users[w.key].id = w.id}}

Written(t, k, w) ==
    CASE w.how = "insert" -> IF t = "users" THEN [w.set EXCEPT !.id = nextId]
                             ELSE w.set
      [] w.how = "delete" -> IF db[t][k] # NoRow /\ w.id = db[t][k].id
                             THEN NoRow ELSE db[t][k]
      [] OTHER -> [c \in DOMAIN db[t][k] |->
                     IF c \in DOMAIN w.set THEN w.set[c] ELSE db[t][k][c]]

\* Row k of table t after the writes ws.  Deleting an account deletes, by ON
\* DELETE CASCADE, the invitations and the operator grants that point at it.
RowAfter(ws, t, k) ==
    IF Writes(ws, t, k) # {}
    THEN Written(t, k, CHOOSE w \in Writes(ws, t, k) : TRUE)
    ELSE CASE t = "invites" /\ db[t][k] \notin {NoRow, Gone} ->
                IF db[t][k].user \in Deleted(ws) THEN Gone ELSE db[t][k]
           [] t = "access" /\ db[t][k] # NoRow ->
                IF users[k[1]].id \in Deleted(ws) THEN NoRow ELSE db[t][k]
           [] OTHER -> db[t][k]

\* The flush of r's transaction.  A session that has read rows does not see
\* that another one has changed them: "overtaken" remembers it happened.
Commit(r) ==
    LET ws == slot[r].writes
        invites_next == slot[r].op = "tenant.invite"
    IN
    /\ slot[r].phase = "flush"
    /\ ~\E w \in ws : Raises(w)
    /\ db' = [t \in DOMAIN db |-> [k \in DOMAIN db[t] |-> RowAfter(ws, t, k)]]
    /\ nextId' = IF \E w \in ws : w.how = "insert" /\ w.table = "users"
                 THEN nextId + 1 ELSE nextId
    /\ slot' = [q \in Slots |->
         IF q = r
         THEN IF invites_next
              THEN [slot[r] EXCEPT !.phase = "invite", !.on = Append(@, nextId)]
              ELSE Idle
         ELSE IF Busy(q)
              THEN [slot[q] EXCEPT !.overtaken = @ \/ db' # db]
              ELSE Idle]
    /\ UNCHANGED served

\* The flush raises, or the handler did: the answer is a 500 and the session
\* is closed without a commit.
CommitRaises(r) ==
    /\ slot[r].phase = "flush"
    /\ \E w \in slot[r].writes : Raises(w)
    /\ slot' = [slot EXCEPT ![r].phase = "failed"]
    /\ UNCHANGED <<db, nextId, served>>

Answer500(r) ==
    /\ slot[r].phase = "failed"
    /\ slot' = [slot EXCEPT ![r] = Idle]
    /\ UNCHANGED <<db, nextId, served>>

\* The process dies; its open transactions are rolled back.
Crash ==
    /\ \E r \in Slots : Busy(r)
    /\ slot' = [r \in Slots |-> Idle]
    /\ UNCHANGED <<db, nextId, served>>

-----------------------------------------------------------------------------
(***************************************************************************)
(* First operator: POST /setup/operator, public while there are no users,  *)
(* and app/bootstrap.py, which runs before the process serves requests.    *)
(***************************************************************************)
NoUsers == \A e \in Emails : ~HasRow(e)

PlatformOperator ==
    [id |-> 0, role |-> "admin", operator |-> TRUE, orole |-> "platform_admin",
     tenant |-> NoRow, active |-> TRUE, version |-> 1]

bootstrap_operator(r, e) ==
    /\ NoUsers
    /\ Begin(r, "bootstrap_operator_created", NoRow, <<>>,
             {Insert("users", e, PlatformOperator)})

ensure_operator(e) ==
    /\ \A r \in Slots : ~Busy(r)
    /\ NoUsers
    /\ db' = [db EXCEPT !.users[e] = [PlatformOperator EXCEPT !.id = nextId]]
    /\ nextId' = nextId + 1
    /\ UNCHANGED <<slot, served>>

-----------------------------------------------------------------------------
(***************************************************************************)
(* Users of a tenant (app/routers/auth_routes.py).                         *)
(***************************************************************************)
Owned(e, t) == HasRow(e) /\ users[e].tenant = t

TenantUser(role, t, active) ==
    [id |-> 0, role |-> role, operator |-> FALSE, orole |-> "none",
     tenant |-> t, active |-> active, version |-> 1]

create_user(r, p, t, e, role) ==
    /\ Admin(p, t)
    /\ ~HasRow(e)
    /\ Begin(r, "user.create", p, <<>>,
             {Insert("users", e, TenantUser(role, t, TRUE))})

\* Mutant: an absent role is written like the others.
WithoutNoneCheck(u, body) ==
    [role    |-> body.role,
     active  |-> IF body.active = Keep THEN u.active ELSE body.active,
     version |-> IF body.password THEN u.version + 1 ELSE u.version]

\* The body's absent fields keep the value.
UpdatedUser(u, body) ==
    [role    |-> IF body.role = Keep THEN u.role ELSE body.role,
     active  |-> IF body.active = Keep THEN u.active ELSE body.active,
     version |-> IF body.password THEN u.version + 1 ELSE u.version]

\* One's own account is neither demoted nor deactivated.
update_user(r, p, t, e, body) ==
    /\ Admin(p, t)
    /\ Owned(e, t)
    /\ p = e => body.role \in {Keep, "admin"} /\ body.active # FALSE
    /\ Begin(r, "user.update", p, <<>>,
             {Update("users", e, users[e], UpdatedUser(users[e], body))})

admin_reset_password(r, p, t, e) ==
    /\ Admin(p, t)
    /\ Owned(e, t)
    /\ Begin(r, "user.reset_password", p, <<>>,
             {Update("users", e, users[e],
                     [version |-> users[e].version + 1])})

change_password(r, e) ==
    /\ Authenticated(e)
    /\ Begin(r, "auth.change_password", e, <<>>,
             {Update("users", e, users[e],
                     [version |-> users[e].version + 1])})

ActiveAdmins(t) ==
    {e \in Emails : /\ Owned(e, t) /\ users[e].role = "admin"
                    /\ users[e].active}

\* Mutant: the count includes admins that are deactivated.
InactiveAdminsCount(t, e) ==
    users[e].role = "admin" =>
        Cardinality({f \in Emails : Owned(f, t) /\ users[f].role = "admin"}) > 1

NotLastAdmin(t, e) ==
    users[e].role = "admin" => Cardinality(ActiveAdmins(t)) > 1

\* The count is taken here, the row is deleted at the commit.
delete_user(r, p, t, e) ==
    /\ Admin(p, t)
    /\ Owned(e, t)
    /\ p # e
    /\ NotLastAdmin(t, e)
    /\ Begin(r, "user.delete", p, <<>>, {Delete("users", e, users[e])})

-----------------------------------------------------------------------------
(***************************************************************************)
(* Invitations (app/invites.py and their routes).                          *)
(***************************************************************************)
Pending(i) == invites[i] \notin {NoRow, Gone} /\ invites[i].status = "pending"

\* create_invite: revokes the pending invitations of the address in the
\* tenant and adds one.  id is that of the account invited, 0 if none.
InviteWrites(t, e, role, id) ==
    {Update("invites", i, invites[i], [status |-> "revoked"]) :
        i \in {i \in Ids : /\ Pending(i) /\ invites[i].tenant = t
                           /\ invites[i].email = e}}
    \cup {Insert("invites", Fresh,
           [tenant |-> t, email |-> e, role |-> role, user |-> id,
            status |-> "pending", late |-> FALSE])}

create_or_resend_invite(r, p, t, e, role) ==
    /\ SupportOf(p, t)
    /\ HasRow(e) => users[e].tenant \in {NoRow, t}
    /\ Begin(r, "invite.create", p, <<>>,
             InviteWrites(t, e, role, IF HasRow(e) THEN users[e].id ELSE 0))

revoke_invite(r, p, i) ==
    /\ PlatformAdmin(p)
    /\ invites[i] \notin {NoRow, Gone}
    /\ Begin(r, "invite.revoke", p, <<>>,
             IF Pending(i)
             THEN {Update("invites", i, invites[i], [status |-> "revoked"])}
             ELSE {})

\* expires_at passes.
Expire(i) ==
    /\ Pending(i) /\ ~invites[i].late
    /\ db' = [db EXCEPT !.invites[i].late = TRUE]
    /\ UNCHANGED <<nextId, slot, served>>

\* validate_token, and the refusal in accept, mark an overdue invitation; no
\* audit entry follows.
MarkExpired(r, i) ==
    /\ Pending(i) /\ invites[i].late
    /\ Begin(r, "invite.expire", NoRow, <<>>,
             {Update("invites", i, invites[i], [status |-> "expired"])})

\* accept: the account the invitation names by id, else by address.
Invited(i) ==
    IF ById(invites[i].user) # {} THEN ById(invites[i].user)
    ELSE {e \in {invites[i].email} : HasRow(e)}

\* Mutant: only a revoked invitation is refused.
NotRevoked(i) ==
    IF invites[i] \in {NoRow, Gone} THEN FALSE
    ELSE invites[i].status # "revoked" /\ ~invites[i].late

Acceptable(i) == Pending(i) /\ ~invites[i].late

\* Mutant: the account keeps is_operator.
StaysOperator(i, u) ==
    [role |-> invites[i].role, tenant |-> invites[i].tenant,
     active |-> TRUE, version |-> u.version + 1]

\* The tenant is the invitation's, never chosen by the client.
AcceptedUser(i, u) ==
    [role |-> invites[i].role, tenant |-> invites[i].tenant,
     operator |-> FALSE, active |-> TRUE, version |-> u.version + 1]

accept(r, i) ==
    /\ Acceptable(i)
    /\ \E e \in Invited(i) :
         Begin(r, "invite.accept", NoRow, <<i>>,
           {Update("users", e, users[e], AcceptedUser(i, users[e])),
            Update("invites", i, invites[i],
                   [status |-> "accepted", user |-> users[e].id])})

\* Without such an account accept builds one and adds 1 to a pwd_version the
\* new object does not have yet: column defaults come with the INSERT.
accept_new(r, i) ==
    /\ Acceptable(i)
    /\ Invited(i) = {}
    /\ ~Busy(r) /\ served < MaxRequests
    /\ served' = served + 1
    /\ slot' = [slot EXCEPT ![r] =
         [phase |-> "failed", op |-> "invite.accept", by |-> "outside",
          on |-> <<i>>, writes |-> {},
          overtaken |-> FALSE]]
    /\ UNCHANGED <<db, nextId>>

-----------------------------------------------------------------------------
(***************************************************************************)
(* Tenants, API keys and operators (app/routers/tenants_routes.py).        *)
(***************************************************************************)
\* Mutant: audit.record commits by default, before the account is added.
AuditCommits(t, e, withPassword) ==
    {Insert("tenants", t, [status |-> "active"]),
     Insert("trail", t, CreateEntry)}

TenantRows(t, e, withPassword) ==
    {Insert("tenants", t, [status |-> "active"]),
     Insert("trail", t, CreateEntry),
     Insert("users", e, TenantUser("admin", t, withPassword))}

\* The audit entry is added to the transaction of the rows (commit=False).
\* Without a password the account is created inactive and invited next.
create_tenant(r, p, t, e, withPassword) ==
    /\ PlatformAdmin(p)
    /\ tenants[t] = NoRow
    /\ ~HasRow(e)
    /\ Begin(r, IF withPassword THEN "tenant.create" ELSE "tenant.invite", p,
             <<t, e>>, TenantRows(t, e, withPassword))

InviteAdmin(r) ==
    LET t == slot[r].on[1]
        e == slot[r].on[2] IN
    /\ slot[r].phase = "invite"
    /\ slot' = [slot EXCEPT ![r] =
         [@ EXCEPT !.phase = "flush", !.op = "invite.create",
            !.overtaken = FALSE,
            !.writes = InviteWrites(t, e, "admin", slot[r].on[3])]]
    /\ UNCHANGED <<db, nextId, served>>

set_tenant_status(r, p, t, status) ==
    /\ PlatformAdmin(p)
    /\ tenants[t] # NoRow
    /\ Begin(r, "tenant.set_status", p, <<>>,
             {Update("tenants", t, tenants[t], [status |-> status])})

create_api_key(r, p, t, role) ==
    /\ PlatformAdmin(p)
    /\ tenants[t] # NoRow
    /\ Begin(r, "apikey.create", p, <<>>,
             {Insert("keys", Fresh,
                     [tenant |-> t, role |-> role, active |-> TRUE])})

revoke_api_key(r, p, k) ==
    /\ PlatformAdmin(p)
    /\ keys[k] # NoRow
    /\ Begin(r, "apikey.revoke", p, <<>>,
             {Update("keys", k, keys[k], [active |-> FALSE])})

create_operator(r, p, e, orole) ==
    /\ PlatformAdmin(p)
    /\ ~HasRow(e)
    /\ Begin(r, "operator.create", p, <<>>,
             {Insert("users", e, [PlatformOperator EXCEPT !.orole = orole])})

update_operator(r, p, e, orole, active) ==
    LET u == users[e] IN
    /\ PlatformAdmin(p)
    /\ HasRow(e) /\ u.operator
    /\ p = e => orole \in {Keep, "platform_admin"} /\ active # FALSE
    /\ Begin(r, "operator.update", p, <<>>,
         {Update("users", e, u,
            [orole   |-> IF orole = Keep THEN u.orole ELSE orole,
             active  |-> IF active = Keep THEN u.active ELSE active,
             version |-> IF active = FALSE THEN u.version + 1
                         ELSE u.version])})

grant_tenant_access(r, p, e, t) ==
    LET row == access[<<e, t>>] IN
    /\ PlatformAdmin(p)
    /\ HasRow(e) /\ users[e].operator
    /\ tenants[t] # NoRow
    /\ Begin(r, "operator.grant_access", p, <<>>,
         {IF row # NoRow
          THEN Update("access", <<e, t>>, row, [active |-> TRUE])
          ELSE Insert("access", <<e, t>>, [active |-> TRUE])})

revoke_tenant_access(r, p, e, t) ==
    /\ PlatformAdmin(p)
    /\ access[<<e, t>>] # NoRow
    /\ Begin(r, "operator.revoke_access", p, <<>>,
             {Update("access", <<e, t>>, access[<<e, t>>],
                     [active |-> FALSE])})

-----------------------------------------------------------------------------
EmptyTables ==
    [users   |-> [e \in Emails |-> NoRow],
     tenants |-> [t \in Tenants |-> NoRow],
     invites |-> [i \in Ids |-> NoRow],
     keys    |-> [k \in Ids |-> NoRow],
     access  |-> [g \in Emails \X Tenants |-> NoRow],
     trail   |-> [t \in Tenants |-> NoRow]]

Start(tables, id) ==
    /\ db = tables
    /\ nextId = id
    /\ slot = [r \in Slots |-> Idle]
    /\ served = 0

Init == Start(EmptyTables, 1)

UserRequest(r, p, t, e) ==
    \/ \E role \in Roles : create_user(r, p, t, e, role)
    \/ \E body \in UserUpdates : update_user(r, p, t, e, body)
    \/ admin_reset_password(r, p, t, e)
    \/ delete_user(r, p, t, e)

InviteRequest(r) ==
    \E i \in Ids :
        \/ MarkExpired(r, i)
        \/ accept(r, i)
        \/ accept_new(r, i)
        \/ \E p \in Callers : revoke_invite(r, p, i)

TenantRequest(r, p, t) ==
    \/ \E e \in Emails, w \in BOOLEAN : create_tenant(r, p, t, e, w)
    \/ \E e \in Emails, role \in Roles :
          create_or_resend_invite(r, p, t, e, role)
    \/ \E s \in {"active", "suspended"} : set_tenant_status(r, p, t, s)
    \/ \E role \in Roles : create_api_key(r, p, t, role)
    \/ \E e \in Emails : \/ grant_tenant_access(r, p, e, t)
                         \/ revoke_tenant_access(r, p, e, t)

OperatorRequest(r, p) ==
    \/ \E k \in Ids : revoke_api_key(r, p, k)
    \/ \E e \in Emails, orole \in OperatorRoles : create_operator(r, p, e, orole)
    \/ \E e \in Emails, orole \in OperatorRoles \cup {Keep},
          active \in BOOLEAN \cup {Keep} : update_operator(r, p, e, orole, active)

\* The request of a free slot; nobody acts who is not signed in.
Request(r) ==
    /\ ~Busy(r) /\ served < MaxRequests
    /\ \/ \E e \in Emails : bootstrap_operator(r, e) \/ change_password(r, e)
       \/ InviteRequest(r)
       \/ \E p \in {p \in Callers : Authenticated(p)} :
            \/ OperatorRequest(r, p)
            \/ \E t \in Tenants : \/ TenantRequest(r, p, t)
                                  \/ \E e \in Emails : UserRequest(r, p, t, e)

Next ==
    \/ \E r \in Slots :
         \/ Request(r)
         \/ Commit(r) \/ CommitRaises(r) \/ Answer500(r)
         \/ InviteAdmin(r)
    \/ \E e \in Emails : ensure_operator(e)
    \/ \E i \in Ids : Expire(i)
    \/ Crash

Spec == Init /\ [][Next]_vars

-----------------------------------------------------------------------------
(***************************************************************************)
(* Properties                                                              *)
(***************************************************************************)
\* An account belongs to no tenant exactly when it is an operator, although
\* is_operator and tenant_id are separate columns, accept rewrites both and
\* every handler flushes only the columns it found different.
KindMatchesTenant ==
    \A e \in Emails : HasRow(e) =>
        (users[e].operator <=> users[e].tenant = NoRow)

\* The step is the flush of r's transaction.
Flushes(r) == slot[r].phase = "flush" /\ slot'[r].phase # "flush" /\ db' # db

\* A tenant loses its last active admin only (1) to a caller from outside,
\* an operator or an API key, who may demote anyone, (2) to an invitation
\* that lowers the role of the address it names, or (3) because the deciding
\* read of the request was overtaken by another commit: the count delete_user
\* takes and the bar on demoting oneself keep one when requests do not overlap.
AdminLostOnlyInARace ==
    [][\A t \in Tenants :
         ActiveAdmins(t) # {} /\ ActiveAdmins(t)' = {} =>
           \E r \in Slots :
             /\ Flushes(r)
             /\ \/ slot[r].overtaken
                \/ slot[r].op = "invite.accept"
                \/ /\ slot[r].op = "user.update"
                   /\ slot[r].by = "outside"]_vars

\* An invitation is single use: once accepted, expired or revoked it is not
\* accepted, and its status does not change, unless the request had read it
\* as pending before another request settled it.
SettledInviteStays ==
    [][\A i \in Ids, r \in Slots :
         /\ Flushes(r) /\ ~slot[r].overtaken
         /\ invites[i] \notin {NoRow, Gone} /\ ~Pending(i)
         => /\ invites'[i] \in {invites[i], Gone}
            /\ ~(slot[r].op = "invite.accept" /\ slot[r].on[1] = i)]_vars

\* A tenant never appears without its audit entry and without the account of
\* its first admin, whatever crashes or fails: the rows are one transaction.
TenantCreatedWhole ==
    [][\A t \in Tenants : tenants[t] = NoRow /\ tenants'[t] # NoRow =>
         /\ trail'[t] = CreateEntry
         /\ \E e \in Emails : ~HasRow(e) /\ Owned(e, t)']_vars

\* invites.py:95 says that accepting an invitation "activates/creates the
\* user": a pending invitation that has not expired is not answered with an
\* error when no other request interferes.
AcceptanceSucceeds ==
    \A r \in Slots :
        slot[r].phase = "failed" /\ slot[r].op = "invite.accept"
        => slot[r].overtaken
=============================================================================
