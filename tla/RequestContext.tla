--------------------------- MODULE RequestContext ---------------------------
(***************************************************************************)
(* What one worker of one server carries from request to request and in    *)
(* which a request's queries are answered: the ContextVars of the tenant   *)
(* and the user, the session variables that the row policies of the        *)
(* database read, and the encryption keys the server was started with.     *)
(*                                                                         *)
(* Workers share nothing but the database and the settings, so the others  *)
(* appear as what they do to these.  The rows stand for those of any table *)
(* with row policies.                                                      *)
(***************************************************************************)
EXTENDS Naturals, FiniteSets

CONSTANTS
    Companies,
    Bare,        \* no company: the bare domain, None, the empty setting
    Accounts,
    Nobody,      \* no account: anonymous, None
    RoleOf,      \* account -> its role
    Staff,       \* accounts with is_staff, who may use the admin site
    Pks,         \* primary keys of rows
    MaxKeys,     \* bound: keys ever listed in FIELD_ENCRYPTION_KEYS
    MaxEntries   \* bound: different audit entries

Roles == {"super_admin", "company_admin", "payroll_manager", "viewer",
          "employee"}

ASSUME NamesAssumption == Bare \notin Companies /\ Nobody \notin Accounts
ASSUME RolesAssumption == RoleOf \in [Accounts -> Roles] /\ Staff \subseteq Accounts
ASSUME BoundsAssumption == MaxKeys \in Nat \ {0} /\ MaxEntries \in Nat

Tenants == Companies \cup {Bare}
Actors == Accounts \cup {Nobody}
Row == [pk : Pks, company : Companies, key : 1 .. MaxKeys]
Session == [tenant : Tenants, super : BOOLEAN]

\* An audit entry, and what it is about: the account that made the change and
\* the company of the changed row.
Entry == [company : Companies, actor : Actors, by : Actors, of : Companies]

VARIABLES
    active,         \* companies with is_active
    rows,           \* rows; key: the key they are encrypted with
    entries,        \* audit entries
    newest,         \* number of keys in the settings, the newest the highest
    pc,             \* what the worker does next
    host,           \* the request: whose subdomain it was sent to,
    user,           \*   request.user,
    tenant,         \*   request.tenant
    currentTenant, currentUser,  \* the ContextVars
    tenantToken, userToken,      \* what they are reset to
    session,        \* app.current_tenant_id and app.is_super_admin
    keys,           \* newest key the server knows
    target          \* company of the row whose signal is being handled

database == <<active, rows, entries, newest>>
request == <<host, user>>
context == <<currentTenant, currentUser, tenantToken, userToken>>
vars == <<database, pc, request, tenant, context, session, keys, target>>

InView == pc \in {"view", "audit"}

\* A connection on which nothing has been set.
NoSession == [tenant |-> Bare, super |-> FALSE]

Init ==
    /\ active = Companies
    /\ rows = {} /\ entries = {}
    /\ newest = 1 /\ keys = 1
    /\ pc = "idle"
    /\ host = Bare /\ user = Nobody /\ tenant = Bare
    /\ currentTenant = Bare /\ currentUser = Nobody
    /\ tenantToken = Bare /\ userToken = Nobody
    /\ session = NoSession
    /\ target = Bare

-----------------------------------------------------------------------------
(* The middleware, in the order of settings.MIDDLEWARE.                    *)

\* AuthenticationMiddleware loads the user, UserContextMiddleware binds it.
Receive(h, u) ==
    /\ pc = "idle"
    /\ host' = h /\ user' = u
    /\ currentUser' = u /\ userToken' = currentUser
    /\ pc' = "resolve"
    /\ UNCHANGED <<database, tenant, currentTenant, tenantToken, session, keys,
                   target>>

\* _resolve_tenant; the variant finds inactive companies too.
ResolvedVariant == host
Resolved == IF host \in active THEN host ELSE Bare

\* The variant binds a tenant only if there is one.
ResolveVariant ==
    /\ pc = "resolve"
    /\ tenant' = Resolved
    /\ tenantToken' = currentTenant
    /\ currentTenant' = IF Resolved = Bare THEN currentTenant ELSE Resolved
    /\ pc' = "apply"
    /\ UNCHANGED <<database, request, currentUser, userToken, session, keys,
                   target>>
Resolve ==
    /\ pc = "resolve"
    /\ tenant' = Resolved
    /\ tenantToken' = currentTenant
    /\ currentTenant' = Resolved
    /\ pc' = "apply"
    /\ UNCHANGED <<database, request, currentUser, userToken, session, keys,
                   target>>

\* Super-admins on the bare domain; the variant asks only for the role.
IsSuperVariant == user # Nobody /\ RoleOf[user] = "super_admin"
IsSuper == /\ tenant = Bare
           /\ user # Nobody
           /\ RoleOf[user] = "super_admin"

\* _apply_rls_session_vars: one statement on this worker's connection.  The
\* variant passes its parameters in the wrong order.
ApplySessionVariant ==
    /\ pc = "apply"
    /\ session' = [tenant |-> IsSuper, super |-> tenant]
    /\ pc' = "view"
    /\ UNCHANGED <<database, request, tenant, context, keys, target>>
ApplySession ==
    /\ pc = "apply"
    /\ session' = [tenant |-> tenant, super |-> IsSuper]
    /\ pc' = "view"
    /\ UNCHANGED <<database, request, tenant, context, keys, target>>

\* The connection is closed at the end of a request, or kept (CONN_MAX_AGE,
\* and the connection of a test client).
Disconnect == session' \in {session, NoSession}

\* The database fails before the block that resets the tenant: only the user is
\* reset.
MiddlewareFails ==
    /\ pc \in {"resolve", "apply"}
    /\ pc' = "idle"
    /\ tenant' = Bare
    /\ currentUser' = userToken
    /\ Disconnect
    /\ UNCHANGED <<database, request, currentTenant, tenantToken, userToken,
                   keys, target>>

\* The view, or an exception in it (a row it cannot decrypt, an entry the
\* policies refuse), returns through both finally blocks.
Return ==
    /\ InView
    /\ pc' = "idle"
    /\ tenant' = Bare /\ target' = Bare
    /\ currentTenant' = tenantToken /\ currentUser' = userToken
    /\ Disconnect
    /\ UNCHANGED <<database, request, tenantToken, userToken, keys>>

-----------------------------------------------------------------------------
(* What the view's queries see and write.                                  *)

\* A policy lets rows of c through, read or written.
Permits(c) == c = session.tenant \/ session.super
PolicyRows == {r \in rows : Permits(r.company)}

\* TenantManager.get_queryset; the variant filters only if there is a tenant.
ManagerRowsVariant ==
    {r \in rows : currentTenant # Bare => r.company = currentTenant}
ManagerRows ==
    {r \in rows : currentTenant # Bare /\ r.company = currentTenant}

\* MultiFernet tries every key it knows; the variant is a Fernet of the newest.
DecryptsVariant(r) == r.key = keys
Decrypts(r) == r.key <= keys

\* The staff's pages: an account of any role but employee, on a company's host.
StaffPage ==
    /\ user # Nobody
    /\ RoleOf[user] # "employee"
    /\ tenant # Bare

\* A row is saved, every column encrypted with the newest key, or deleted.  The
\* staff's pages load it with objects, the admin site with all_tenants.
ChangeRow(r) ==
    /\ pc = "view"
    /\ r \in PolicyRows
    /\ \/ StaffPage /\ r \in ManagerRows
       \/ user \in Staff
    /\ Decrypts(r)
    /\ \E saved \in {{[r EXCEPT !.key = keys]}, {}} : rows' = (rows \ {r}) \cup saved
    /\ target' = r.company
    /\ pc' = "audit"
    /\ UNCHANGED <<active, entries, newest, request, tenant, context, session,
                   keys>>

\* obj.company = request.tenant; obj.save().
InsertRow(p) ==
    /\ pc = "view"
    /\ StaffPage
    /\ Permits(tenant)
    /\ \A r \in rows : r.pk # p
    /\ rows' = rows \cup {[pk |-> p, company |-> tenant, key |-> keys]}
    /\ target' = tenant
    /\ pc' = "audit"
    /\ UNCHANGED <<active, entries, newest, request, tenant, context, session,
                   keys>>

\* record_audit takes the company and the actor from the ContextVars; the
\* policies apply to the entry as well.
RecordAudit ==
    /\ pc = "audit"
    /\ IF currentTenant = Bare
       THEN entries' = entries
       ELSE /\ Permits(currentTenant)
            /\ entries' = entries \cup
                  {[company |-> currentTenant, actor |-> currentUser,
                    by |-> user, of |-> target]}
            /\ Cardinality(entries') <= MaxEntries
    /\ target' = Bare
    /\ pc' = "view"
    /\ UNCHANGED <<active, rows, newest, request, tenant, context, session, keys>>

-----------------------------------------------------------------------------
(* The rest of the deployment.                                             *)

\* This server's process is restarted, at any moment.
Restart ==
    /\ pc' = "idle"
    /\ tenant' = Bare /\ target' = Bare
    /\ currentTenant' = Bare /\ currentUser' = Nobody
    /\ session' = NoSession
    /\ keys' = newest
    /\ UNCHANGED <<database, request, tenantToken, userToken>>

\* A new key is put first in the settings; servers are restarted one by one.
Rotate ==
    /\ newest < MaxKeys
    /\ newest' = newest + 1
    /\ UNCHANGED <<active, rows, entries, pc, request, tenant, context, session,
                   keys, target>>

\* CompanyAdmin changes is_active.
SetActive(c) ==
    /\ active' = IF c \in active THEN active \ {c} ELSE active \cup {c}
    /\ UNCHANGED <<rows, entries, newest, pc, request, tenant, context, session,
                   keys, target>>

\* Another worker inserts, saves or deletes a row, with a key its server knows.
SavedElsewhere(r) ==
    /\ r.key <= newest
    /\ \A q \in rows : q.pk = r.pk => q.company = r.company
    /\ rows' = {q \in rows : q.pk # r.pk} \cup {r}
    /\ UNCHANGED <<active, entries, newest, pc, request, tenant, context,
                   session, keys, target>>

DeletedElsewhere(r) ==
    /\ rows' = rows \ {r}
    /\ UNCHANGED <<active, entries, newest, pc, request, tenant, context,
                   session, keys, target>>

-----------------------------------------------------------------------------
Next ==
    \/ \E h \in Tenants, u \in Actors : Receive(h, u)
    \/ Resolve \/ ApplySession \/ MiddlewareFails
    \/ \E r \in rows : ChangeRow(r)
    \/ \E p \in Pks : InsertRow(p)
    \/ RecordAudit \/ Return
    \/ Restart \/ Rotate
    \/ \E c \in Companies : SetActive(c)
    \/ \E r \in Row : SavedElsewhere(r)
    \/ \E r \in rows : DeletedElsewhere(r)

Spec == Init /\ [][Next]_vars

-----------------------------------------------------------------------------
(* Properties.                                                             *)

TypeOK ==
    /\ active \subseteq Companies
    /\ rows \subseteq Row
    /\ entries \subseteq Entry
    /\ newest \in 1 .. MaxKeys /\ keys \in 1 .. newest
    /\ pc \in {"idle", "resolve", "apply", "view", "audit"}
    /\ host \in Tenants /\ user \in Actors
    /\ tenant \in Tenants /\ target \in Tenants
    /\ currentTenant \in Tenants /\ tenantToken \in Tenants
    /\ currentUser \in Actors /\ userToken \in Actors
    /\ session \in Session

\* Layer one of the tenant defence on its own: in a view the default manager
\* selects only rows of the company whose host was asked, whatever an earlier
\* request left in the ContextVar.
ManagerIsolates ==
    InView => \A r \in ManagerRows : r.company = host

\* Layer three on its own: in a view, a query that no manager scopes still
\* returns only rows of that company, or is a super-admin's on a host without a
\* company, whatever an earlier request left on the connection.
PoliciesIsolate ==
    InView =>
       \A r \in PolicyRows :
          \/ r.company = host
          \/ /\ tenant = Bare
             /\ user # Nobody /\ RoleOf[user] = "super_admin"

\* An audit entry is filed under the company of the row that was changed and
\* names the account whose request changed it, also after requests that left a
\* ContextVar behind.
EntriesAttributed ==
    \A e \in entries : e.company = e.of /\ e.actor = e.by

\* The request is bound to c, or its queries are.
Serves(c) ==
    \/ tenant = c
    \/ InView /\ (session.tenant = c \/ currentTenant = c)

\* An inactive company gains no request: only one bound before it was
\* deactivated still reads its rows as its own.
InactiveUnserved ==
    [][\A c \in Companies \ active : Serves(c)' => Serves(c)]_vars

\* A server restarted since the newest key was listed reads every row, whatever
\* servers with older keys have written meanwhile.
RestartedReadsAll ==
    keys = newest => \A r \in rows : Decrypts(r)
=============================================================================
