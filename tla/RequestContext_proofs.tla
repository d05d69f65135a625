------------------------ MODULE RequestContext_proofs ------------------------
(***************************************************************************)
(* Theorems about RequestContext.  The properties speak of a view; the     *)
(* invariant behind them follows a request through the middleware: what    *)
(* each ContextVar and session variable must already hold at each stage,   *)
(* with nothing assumed about what an earlier request left in them.        *)
(***************************************************************************)
EXTENDS RequestContext, TLAPS

\* From UserContextMiddleware on, the user bound is the request's.
UserBound == pc # "idle" => currentUser = user

\* From TenantResolutionMiddleware on, the tenant bound is the request's.
TenantBound ==
    pc = "apply" \/ InView => currentTenant = tenant /\ tenant \in {host, Bare}

\* In a view the session variables are the request's.
SessionApplied == InView => session = [tenant |-> tenant, super |-> IsSuper]

\* On a company's host the row being audited is that company's.
TargetOwned ==
    pc = "audit" => target \in Companies /\ (tenant # Bare => target = tenant)

\* No row is encrypted with a key that is not listed yet.
KeysListed == \A r \in rows : r.key <= newest

IInv ==
    /\ TypeOK
    /\ UserBound /\ TenantBound /\ SessionApplied
    /\ TargetOwned
    /\ KeysListed
    /\ EntriesAttributed

-----------------------------------------------------------------------------
LEMMA InitInv == Init => IInv
<1> SUFFICES ASSUME Init PROVE IInv
  OBVIOUS
<1>1. TypeOK
  BY BoundsAssumption
     DEF Init, TypeOK, Tenants, Actors, Session, NoSession
<1>2. UserBound /\ TenantBound /\ SessionApplied /\ TargetOwned
  BY DEF Init, UserBound, TenantBound, SessionApplied, TargetOwned, InView
<1>3. KeysListed /\ EntriesAttributed
  BY DEF Init, KeysListed, EntriesAttributed
<1> QED
  BY <1>1, <1>2, <1>3 DEF IInv

\* The tenant a host resolves to.
LEMMA ResolvedTenant ==
    ASSUME TypeOK
    PROVE  /\ Resolved \in Tenants /\ Resolved \in {host, Bare}
           /\ Resolved \in active \cup {Bare}
  BY DEF TypeOK, Resolved, Tenants

\* What a view can be granted.
LEMMA SuperTyped == IsSuper \in BOOLEAN
  BY DEF IsSuper

\* The middleware and the end of a request keep the invariant.
LEMMA MiddlewareInv ==
    ASSUME IInv,
           \/ \E h \in Tenants, u \in Actors : Receive(h, u)
           \/ Resolve \/ ApplySession \/ MiddlewareFails \/ Return \/ Restart
    PROVE  IInv'
<1> USE DEF IInv
<1>1. KeysListed' /\ EntriesAttributed'
  BY DEF KeysListed, EntriesAttributed, Receive, Resolve, ApplySession,
         MiddlewareFails, Return, Restart, database
<1>2. CASE \E h \in Tenants, u \in Actors : Receive(h, u)
  <2> PICK h \in Tenants, u \in Actors : Receive(h, u)
    BY <1>2
  <2>1. TypeOK'
    BY DEF TypeOK, Receive, database
  <2>2. UserBound' /\ TenantBound' /\ SessionApplied' /\ TargetOwned'
    BY DEF UserBound, TenantBound, SessionApplied, TargetOwned, InView, Receive
  <2> QED
    BY <1>1, <2>1, <2>2
<1>3. CASE Resolve
  <2>1. TypeOK'
    BY <1>3, ResolvedTenant DEF TypeOK, Resolve, database, request
  <2>2. UserBound' /\ TenantBound' /\ SessionApplied' /\ TargetOwned'
    BY <1>3, ResolvedTenant
       DEF UserBound, TenantBound, SessionApplied, TargetOwned, InView, Resolve,
           request
  <2> QED
    BY <1>1, <2>1, <2>2
<1>4. CASE ApplySession
  <2>1. TypeOK'
    BY <1>4, SuperTyped
       DEF TypeOK, ApplySession, database, request, context, Session
  <2>2. UserBound' /\ TenantBound' /\ TargetOwned'
    BY <1>4 DEF UserBound, TenantBound, TargetOwned, InView, ApplySession,
                request, context
  <2>3. SessionApplied'
    BY <1>4 DEF SessionApplied, IsSuper, InView, ApplySession, request
  <2> QED
    BY <1>1, <2>1, <2>2, <2>3
<1>5. CASE MiddlewareFails \/ Return \/ Restart
  <2>1. TypeOK'
    <3>1. NoSession \in Session /\ Bare \in Tenants /\ Nobody \in Actors
      BY DEF NoSession, Session, Tenants, Actors
    <3>2. CASE MiddlewareFails
      BY <3>1, <3>2 DEF TypeOK, MiddlewareFails, Disconnect, database, request
    <3>3. CASE Return
      BY <3>1, <3>3 DEF TypeOK, Return, Disconnect, database, request
    <3>4. CASE Restart
      BY <3>1, <3>4 DEF TypeOK, Restart, database, request
    <3> QED
      BY <1>5, <3>2, <3>3, <3>4
  <2>2. UserBound' /\ TenantBound' /\ SessionApplied' /\ TargetOwned'
    BY <1>5 DEF UserBound, TenantBound, SessionApplied, TargetOwned, InView,
                MiddlewareFails, Return, Restart
  <2> QED
    BY <1>1, <2>1, <2>2
<1> QED
  BY <1>2, <1>3, <1>4, <1>5

\* So do the statements of a view.
LEMMA ViewInv ==
    ASSUME IInv,
           \/ \E r \in rows : ChangeRow(r)
           \/ \E p \in Pks : InsertRow(p)
           \/ RecordAudit
    PROVE  IInv'
<1> USE DEF IInv
<1>1. CASE \E r \in rows : ChangeRow(r)
  <2> PICK r \in rows : ChangeRow(r)
    BY <1>1
  <2>1. /\ pc = "view" /\ pc' = "audit" /\ target' = r.company
        /\ rows' \subseteq (rows \cup {[r EXCEPT !.key = keys]})
        /\ r \in PolicyRows
        /\ UNCHANGED <<active, entries, newest, host, user, tenant,
                       currentTenant, currentUser, tenantToken, userToken,
                       session, keys>>
    BY DEF ChangeRow, request, context
  <2>2. r \in Row /\ [r EXCEPT !.key = keys] \in Row /\ keys <= newest
    BY BoundsAssumption DEF TypeOK, Row
  <2>3. [r EXCEPT !.key = keys].key = keys
    BY <2>2 DEF Row
  <2>4. TypeOK'
    BY <2>1, <2>2 DEF TypeOK, Tenants, Row
  <2>5. r.company = session.tenant \/ session.super
    BY <2>1 DEF PolicyRows, Permits
  <2>6. TargetOwned'
    BY <2>1, <2>2, <2>5
       DEF TargetOwned, SessionApplied, IsSuper, InView, Row
  <2>7. UserBound' /\ TenantBound' /\ SessionApplied'
    BY <2>1 DEF UserBound, TenantBound, SessionApplied, IsSuper, InView
  <2>8. KeysListed' /\ EntriesAttributed'
    BY <2>1, <2>2, <2>3 DEF KeysListed, EntriesAttributed, TypeOK
  <2> QED
    BY <2>4, <2>6, <2>7, <2>8
<1>2. CASE \E p \in Pks : InsertRow(p)
  <2> PICK p \in Pks : InsertRow(p)
    BY <1>2
  <2> DEFINE new == [pk |-> p, company |-> tenant, key |-> keys]
  <2>1. /\ pc = "view" /\ pc' = "audit" /\ target' = tenant /\ tenant # Bare
        /\ rows' = rows \cup {new}
        /\ UNCHANGED <<active, entries, newest, host, user, tenant,
                       currentTenant, currentUser, tenantToken, userToken,
                       session, keys>>
    BY DEF InsertRow, StaffPage, request, context
  <2>2. new \in Row /\ new.key = keys /\ keys <= newest
    BY <2>1, BoundsAssumption DEF TypeOK, Row, Tenants
  <2>3. TypeOK'
    BY <2>1, <2>2 DEF TypeOK
  <2>4. UserBound' /\ TenantBound' /\ SessionApplied' /\ TargetOwned'
    BY <2>1 DEF UserBound, TenantBound, SessionApplied, TargetOwned, IsSuper,
                InView, TypeOK, Tenants
  <2>5. KeysListed' /\ EntriesAttributed'
    BY <2>1, <2>2 DEF KeysListed, EntriesAttributed
  <2> QED
    BY <2>3, <2>4, <2>5
<1>3. CASE RecordAudit
  <2> DEFINE new == [company |-> currentTenant, actor |-> currentUser,
                     by |-> user, of |-> target]
  <2>1. /\ pc = "audit" /\ pc' = "view" /\ target' = Bare
        /\ \/ entries' = entries
           \/ currentTenant # Bare /\ entries' = entries \cup {new}
        /\ UNCHANGED <<active, rows, newest, host, user, tenant, currentTenant,
                       currentUser, tenantToken, userToken, session, keys>>
    BY <1>3 DEF RecordAudit, request, context
  <2>2. currentTenant # Bare => /\ new \in Entry
                                /\ new.company = new.of /\ new.actor = new.by
    BY <2>1 DEF TypeOK, Tenants, Entry, TargetOwned, TenantBound, UserBound,
                InView
  <2>3. TypeOK'
    BY <2>1, <2>2 DEF TypeOK, Tenants
  <2>4. UserBound' /\ TenantBound' /\ SessionApplied' /\ TargetOwned'
    BY <2>1 DEF UserBound, TenantBound, SessionApplied, TargetOwned, IsSuper,
                InView
  <2>5. KeysListed' /\ EntriesAttributed'
    BY <2>1, <2>2 DEF KeysListed, EntriesAttributed
  <2> QED
    BY <2>3, <2>4, <2>5
<1> QED
  BY <1>1, <1>2, <1>3

\* And so does the rest of the deployment.
LEMMA ElsewhereInv ==
    ASSUME IInv,
           \/ Rotate
           \/ \E c \in Companies : SetActive(c)
           \/ \E r \in Row : SavedElsewhere(r)
           \/ \E r \in rows : DeletedElsewhere(r)
           \/ UNCHANGED vars
    PROVE  IInv'
<1> USE DEF IInv
<1>1. /\ UNCHANGED <<entries, pc, host, user, tenant, currentTenant, currentUser,
                     tenantToken, userToken, session, keys, target>>
      /\ newest' \in {newest, newest + 1} /\ newest' <= MaxKeys
      /\ \A q \in rows' : q \in Row /\ q.key <= newest'
      /\ active' \subseteq Companies
  <2>1. CASE Rotate
    BY <2>1, BoundsAssumption
       DEF Rotate, request, context, TypeOK, KeysListed, Row
  <2>2. CASE \E c \in Companies : SetActive(c)
    BY <2>2 DEF SetActive, request, context, TypeOK, KeysListed
  <2>3. CASE \E r \in Row : SavedElsewhere(r)
    BY <2>3 DEF SavedElsewhere, request, context, TypeOK, KeysListed
  <2>4. CASE \E r \in rows : DeletedElsewhere(r)
    BY <2>4 DEF DeletedElsewhere, request, context, TypeOK, KeysListed
  <2>5. CASE UNCHANGED vars
    BY <2>5 DEF vars, database, request, context, TypeOK, KeysListed
  <2> QED
    BY <2>1, <2>2, <2>3, <2>4, <2>5
<1>2. TypeOK'
  BY <1>1, BoundsAssumption DEF TypeOK
<1>3. UserBound' /\ TenantBound' /\ SessionApplied' /\ TargetOwned'
  BY <1>1 DEF UserBound, TenantBound, SessionApplied, TargetOwned, IsSuper, InView
<1>4. KeysListed' /\ EntriesAttributed'
  BY <1>1 DEF KeysListed, EntriesAttributed
<1> QED
  BY <1>2, <1>3, <1>4

LEMMA NextInv == IInv /\ [Next]_vars => IInv'
  BY MiddlewareInv, ViewInv, ElsewhereInv DEF Next

\* What a request finds bound at each stage of the middleware.
THEOREM ContextInvariant == Spec => []IInv
<1>1. Init => IInv
  BY InitInv
<1>2. IInv /\ [Next]_vars => IInv'
  BY NextInv
<1> QED
  BY <1>1, <1>2, PTL DEF Spec

-----------------------------------------------------------------------------
\* Every reachable state is well typed.
THEOREM ContextTyped == Spec => []TypeOK
<1>1. IInv => TypeOK
  BY DEF IInv
<1> QED
  BY <1>1, ContextInvariant, PTL

\* The default manager never selects another company's row.
THEOREM ManagerScopes == Spec => []ManagerIsolates
<1>1. IInv => ManagerIsolates
  BY DEF IInv, TenantBound, ManagerIsolates, ManagerRows
<1> QED
  BY <1>1, ContextInvariant, PTL

\* The row policies alone let through no other company's row.
THEOREM PoliciesScope == Spec => []PoliciesIsolate
<1>1. IInv => PoliciesIsolate
  <2> SUFFICES ASSUME IInv, InView, NEW r \in PolicyRows
               PROVE  \/ r.company = host
                      \/ /\ tenant = Bare
                         /\ user # Nobody /\ RoleOf[user] = "super_admin"
    BY DEF PoliciesIsolate
  <2>1. r \in Row /\ (r.company = session.tenant \/ session.super)
    BY DEF IInv, TypeOK, PolicyRows, Permits
  <2>2. /\ session = [tenant |-> tenant, super |-> IsSuper]
        /\ tenant \in {host, Bare}
    BY DEF IInv, SessionApplied, TenantBound
  <2>3. CASE r.company = session.tenant
    BY <2>1, <2>2, <2>3, NamesAssumption DEF Row
  <2>4. CASE session.super
    BY <2>2, <2>4 DEF IsSuper
  <2> QED
    BY <2>1, <2>3, <2>4
<1> QED
  BY <1>1, ContextInvariant, PTL

\* Every audit entry is filed under the right company and actor.
THEOREM TrailAttributed == Spec => []EntriesAttributed
<1>1. IInv => EntriesAttributed
  BY DEF IInv
<1> QED
  BY <1>1, ContextInvariant, PTL

\* A restarted server decrypts every row.
THEOREM RestartSuffices == Spec => []RestartedReadsAll
<1>1. IInv => RestartedReadsAll
  BY DEF IInv, KeysListed, RestartedReadsAll, Decrypts
<1> QED
  BY <1>1, ContextInvariant, PTL

\* A company that is inactive gains no request.
THEOREM InactiveGainNothing == Spec => InactiveUnserved
<1>1. ASSUME IInv, [Next]_vars, NEW c \in Companies \ active, Serves(c)'
      PROVE  Serves(c)
  <2> USE DEF Serves, InView
  <2>1. c # Bare
    BY NamesAssumption
  <2>2. CASE Resolve
    BY <1>1, <2>1, <2>2, ResolvedTenant DEF Resolve, IInv
  <2>3. CASE ApplySession
    BY <1>1, <2>3 DEF ApplySession, IInv, TenantBound, context
  <2>4. CASE MiddlewareFails \/ Return \/ Restart
    BY <1>1, <2>1, <2>4 DEF MiddlewareFails, Return, Restart
  <2>5. CASE \E h \in Tenants, u \in Actors : Receive(h, u)
    BY <1>1, <2>5 DEF Receive
  <2>6. CASE \/ \E r \in rows : ChangeRow(r)
             \/ \E p \in Pks : InsertRow(p)
             \/ RecordAudit
    BY <1>1, <2>6 DEF ChangeRow, InsertRow, RecordAudit, context
  <2>7. CASE \/ Rotate
             \/ \E d \in Companies : SetActive(d)
             \/ \E r \in Row : SavedElsewhere(r)
             \/ \E r \in rows : DeletedElsewhere(r)
             \/ UNCHANGED vars
    BY <1>1, <2>7 DEF Rotate, SetActive, SavedElsewhere, DeletedElsewhere, vars,
                      context
  <2> QED
    BY <1>1, <2>2, <2>3, <2>4, <2>5, <2>6, <2>7 DEF Next
<1>2. IInv /\ [Next]_vars
        => [\A c \in Companies \ active : Serves(c)' => Serves(c)]_vars
  BY <1>1
<1> QED
  BY <1>2, ContextInvariant, PTL DEF Spec, InactiveUnserved
=============================================================================
