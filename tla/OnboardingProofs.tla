-------------------------- MODULE OnboardingProofs --------------------------
(***************************************************************************)
(* For every number of users, requests and attempts: versions are in       *)
(* order, an ACTIVE tenant has a config, and service once begun goes on.   *)
(***************************************************************************)
EXTENDS Onboarding, TLAPS

USE UserAssumption, TriesAssumption, SentinelAssumption

\* A request at or past its first commit has a row, one before it has none, and
\* only a request with a row starts a job.
RowsExist ==
  /\ \A t \in Posts : job[t] # "none" => tenants[t] # NoRow
  /\ \A p \in Posts : pc[p] \in {"link", "enqueue", "metadata", "answered"}
                      => tenants[p] # NoRow
  /\ \A p \in Posts : pc[p] \in {"sent", "create", "conflict"} => tenants[p] = NoRow
  /\ \A p \in Posts : pc[p] \in {"link", "enqueue"} => job[p] = "none"

TriesLeft == \A t \in Posts : job[t] \in {"none", "queued"} => tries[t] < MaxTries

\* An attempt that has not written its config has a version number to spare.
Numbering == \A t \in Posts : \E n \in 0..tries[t] :
  /\ Numbered(configs[t], n)
  /\ job[t] \in {"agents", "config"} => n < tries[t]

\* What the attempt has committed when it comes to the next statement.
InOrder == \A t \in Posts :
  /\ job[t] \in {"activate", "complete"} => ActiveOf(configs[t]) # {}
  /\ job[t] = "complete" => Serviceable(t)

\* Links and claims name committed tenants of the user's own requests.
Own(u, t) == UserOf[t] = u /\ tenants[t] # NoRow
LinksOwn == \A u \in Users :
  /\ userTenant[u] # None => Own(u, userTenant[u])
  /\ \A claim \in claims[u] : claim # None => Own(u, claim)

IInv ==
  Types /\ RowsExist /\ TriesLeft /\ Numbering /\ InOrder /\ ActiveHasConfig /\ LinksOwn

-----------------------------------------------------------------------------
LEMMA MaxOfRange ==
  ASSUME NEW n \in Nat \ {0}
  PROVE  Max(1..n) = n
BY DEF Max

\* create_active continues the numbering.
LEMMA ActivatedNumbered ==
  ASSUME NEW C \in SUBSET TenantConfig, NEW n \in Nat, Numbered(C, n)
  PROVE  /\ Numbered(Activated(C), n + 1)
         /\ ActiveOf(Activated(C)) # {}
         /\ Activated(C) \in SUBSET TenantConfig
<1> DEFINE old == Archived(C)
           new == [version |-> n + 1, status |-> "ACTIVE"]
<1>1. \A c \in old : \E d \in C : c = [version |-> d.version, status |-> "ARCHIVED"]
  BY DEF Archived, TenantConfig
<1>2. \A d \in C : [version |-> d.version, status |-> "ARCHIVED"] \in old
  <2> SUFFICES ASSUME NEW d \in C
               PROVE  [d EXCEPT !.status = "ARCHIVED"] = [version |-> d.version, status |-> "ARCHIVED"]
    BY DEF Archived
  <2> QED
    BY DEF TenantConfig
<1>3. {c.version : c \in old} = 1..n
  <2>1. {c.version : c \in C} = 1..n
    BY DEF Numbered
  <2>2. \A c \in old : c.version \in {d.version : d \in C}
    BY <1>1
  <2>3. ASSUME NEW d \in C PROVE d.version \in {c.version : c \in old}
    <3> DEFINE a == [version |-> d.version, status |-> "ARCHIVED"]
    <3>1. a \in old /\ a.version = d.version
      BY <1>2
    <3> HIDE DEF old, a
    <3> QED
      BY <3>1
  <2>4. {c.version : c \in old} = {d.version : d \in C}
    <3> HIDE DEF old
    <3> QED
      BY <2>2, <2>3
  <2> QED
    BY <2>1, <2>4
<1>4. \A c \in old : c.version \in 1..n /\ c.status = "ARCHIVED"
  BY <1>1, <1>3
<1>5. \A c, d \in old : c.version = d.version => c = d
  BY <1>1
<1>6. NextVersion(old) = n + 1
  <2>1. CASE n = 0
    BY <2>1, <1>4 DEF NextVersion
  <2>2. CASE n # 0
    <3>1. old # {}
      BY <1>3, <2>2
    <3> QED
      BY <1>3, <2>2, <3>1, MaxOfRange DEF NextVersion
  <2> QED
    BY <2>1, <2>2
<1>7. Activated(C) = old \cup {new}
  BY <1>6 DEF Activated
<1> HIDE DEF old
<1>8. {c.version : c \in old \cup {new}} = 1..(n + 1)
  <2>1. {c.version : c \in old \cup {new}} = {c.version : c \in old} \cup {n + 1}
    <3>1. new.version = n + 1
      OBVIOUS
    <3> HIDE DEF new
    <3> QED
      BY <3>1
  <2>2. (1..n) \cup {n + 1} = 1..(n + 1)
    OBVIOUS
  <2> QED
    BY <1>3, <2>1, <2>2
<1>9. \A c, d \in old \cup {new} : c.version = d.version => c = d
  BY <1>4, <1>5
<1>10. \A c \in old \cup {new} : c.status = "ACTIVE" <=> c.version = n + 1
  BY <1>4
<1>11. new \in ActiveOf(old \cup {new})
  BY DEF ActiveOf
<1>12. old \cup {new} \subseteq TenantConfig
  <2>1. \A d \in C : d.version \in Nat \ {0}
    BY DEF TenantConfig
  <2> QED
    BY <1>1, <2>1 DEF TenantConfig
<1> QED
  BY <1>7, <1>8, <1>9, <1>10, <1>11, <1>12 DEF Numbered

LEMMA InitOK == Init => IInv
<1> SUFFICES ASSUME Init PROVE IInv
  OBVIOUS
<1>1. Types
  BY DEF Init, Types
<1>2. RowsExist /\ TriesLeft /\ InOrder /\ ActiveHasConfig /\ LinksOwn
  BY DEF Init, RowsExist, TriesLeft, InOrder, ActiveHasConfig, Serviceable, LinksOwn
<1>3. Numbering
  <2> SUFFICES ASSUME NEW t \in Posts
               PROVE  Numbered(configs[t], 0) /\ 0 \in 0..tries[t] /\ job[t] = "none"
    BY DEF Numbering
  <2> QED
    BY DEF Init, Numbered
<1> QED
  BY <1>1, <1>2, <1>3 DEF IInv

-----------------------------------------------------------------------------
\* What the steps do to tenants: nothing, a new row, or one field of a row.
LEMMA TenantsChange ==
  ASSUME IInv, [Next]_vars
  PROVE  \/ UNCHANGED tenants
         \/ \E t \in Posts : \/ CreateTenant(t) \/ StartAttempt(t) \/ ActivateTenant(t)
                             \/ Complete(t) \/ MarkFailed(t)
BY DEF Next, RequestStep, JobStep, Login, Begin, SetUserTenant, Enqueue, UpdateMetadata,
       RequestFails, StartFails, RunAgents, FinishJob, CreateActive, PipelineRaises, DiesUnmarked, Cancelled, vars

LEMMA FieldWrites ==
  ASSUME Types, RowsExist, NEW t \in Posts, job[t] # "none"
  PROVE  /\ \A s \in {"PENDING", "RUNNING", "COMPLETE", "FAILED"} :
              SetOnboarding(t, s) =>
                tenants' = [tenants EXCEPT ![t] = [status |-> tenants[t].status, onboarding |-> s]]
         /\ tenants' = [tenants EXCEPT ![t].status = "ACTIVE"] =>
              tenants' = [tenants EXCEPT ![t] = [status |-> "ACTIVE",
                                                 onboarding |-> tenants[t].onboarding]]
         /\ tenants[t] \in Tenant
<1>1. tenants[t] \in Tenant
  BY DEF Types, RowsExist
<1> QED
  BY <1>1 DEF Types, SetOnboarding, Tenant

LEMMA NotARow == NoRow \notin Tenant
BY DEF Tenant

\* A row once written stays.
LEMMA RowsStay ==
  ASSUME IInv, [Next]_vars, NEW t \in Posts, tenants[t] # NoRow
  PROVE  tenants'[t] # NoRow
<1>0. Types /\ RowsExist
  BY DEF IInv
<1>1. \A s \in {"CREATED", "ACTIVE"}, o \in {"PENDING", "RUNNING", "COMPLETE", "FAILED"} :
        [status |-> s, onboarding |-> o] # NoRow
  BY NotARow DEF Tenant
<1>2. ASSUME NEW p \in Posts, NEW s \in {"CREATED", "ACTIVE"},
             NEW o \in {"PENDING", "RUNNING", "COMPLETE", "FAILED"},
             tenants' = [tenants EXCEPT ![p] = [status |-> s, onboarding |-> o]]
      PROVE  tenants'[t] # NoRow
  BY <1>0, <1>1, <1>2 DEF Types
<1>3. ASSUME NEW p \in Posts, CreateTenant(p) PROVE tenants'[t] # NoRow
  BY <1>2, <1>3 DEF CreateTenant
<1>4. ASSUME NEW p \in Posts, StartAttempt(p) \/ Complete(p) \/ MarkFailed(p) \/ ActivateTenant(p)
      PROVE  tenants'[t] # NoRow
  <2>1. job[p] # "none"
    BY <1>4 DEF StartAttempt, Complete, MarkFailed, ActivateTenant
  <2>2. /\ tenants[p].status \in {"CREATED", "ACTIVE"}
        /\ tenants[p].onboarding \in {"PENDING", "RUNNING", "COMPLETE", "FAILED"}
    BY <1>0, <2>1, FieldWrites DEF Tenant
  <2> QED
    BY <1>0, <1>2, <1>4, <2>1, <2>2, FieldWrites DEF StartAttempt, Complete, MarkFailed, ActivateTenant
<1> QED
  BY <1>3, <1>4, TenantsChange

LEMMA RowsStep == IInv /\ [Next]_vars => RowsExist'
<1> SUFFICES ASSUME IInv, [Next]_vars PROVE RowsExist'
  OBVIOUS
<1>0. Types /\ RowsExist
  BY DEF IInv
<1>1. \A t \in Posts : tenants[t] # NoRow => tenants'[t] # NoRow
  BY RowsStay
<1>2. ASSUME NEW p \in Posts, CreateTenant(p) PROVE RowsExist'
  <2>1. tenants'[p] # NoRow /\ \A t \in Posts \ {p} : tenants'[t] = tenants[t]
    <3>1. [status |-> "CREATED", onboarding |-> "PENDING"] \in Tenant
      BY DEF Tenant
    <3> QED
      BY <1>0, <1>2, <3>1, NotARow DEF CreateTenant, Types
  <2>2. \A t \in Posts \ {p} : pc'[t] = pc[t]
    BY <1>0, <1>2 DEF CreateTenant, Types
  <2>3. pc'[p] = "link" /\ UNCHANGED job /\ job[p] = "none"
    BY <1>0, <1>2 DEF CreateTenant, Types, worker, RowsExist
  <2> QED
    BY <1>0, <2>1, <2>2, <2>3 DEF RowsExist
<1>3. ASSUME NEW p \in Posts, Begin(p) \/ RequestFails(p) PROVE RowsExist'
  BY <1>0, <1>3 DEF Begin, RequestFails, RowsExist, Types, worker
<1>4. ASSUME NEW p \in Posts, SetUserTenant(p) \/ Enqueue(p) \/ UpdateMetadata(p)
      PROVE  RowsExist'
  BY <1>0, <1>4 DEF SetUserTenant, Enqueue, UpdateMetadata, RowsExist, Types, worker
<1>5. ASSUME NEW t \in Posts, JobStep(t) \/ DiesUnmarked(t) \/ Cancelled(t) PROVE RowsExist'
  <2>1. UNCHANGED pc /\ job[t] # "none"
    BY <1>5 DEF JobStep, StartAttempt, StartFails, RunAgents, FinishJob, CreateActive, ActivateTenant, Complete,
                PipelineRaises, MarkFailed, DiesUnmarked, Cancelled, Working, request
  <2>2. \A u \in Posts \ {t} : tenants'[u] = tenants[u] /\ job'[u] = job[u]
    BY <1>0, <1>5 DEF JobStep, StartAttempt, StartFails, RunAgents, FinishJob, CreateActive, ActivateTenant, Complete,
                PipelineRaises, MarkFailed, DiesUnmarked, Cancelled, Goto, SetOnboarding, Types
  <2>3. tenants[t] # NoRow /\ pc[t] \notin {"sent", "create", "conflict", "link", "enqueue"}
    BY <1>0, <2>1 DEF RowsExist
  <2> QED
    BY <1>0, <1>1, <2>1, <2>2, <2>3 DEF RowsExist
<1>6. CASE UNCHANGED vars \/ \E u \in Users : Login(u)
  BY <1>0, <1>6 DEF Login, RowsExist, vars, worker
<1> QED
  BY <1>2, <1>3, <1>4, <1>5, <1>6 DEF Next, RequestStep

-----------------------------------------------------------------------------
LEMMA TypesStep == IInv /\ [Next]_vars => Types'
<1> SUFFICES ASSUME IInv, [Next]_vars PROVE Types'
  OBVIOUS
<1>0. Types /\ RowsExist /\ TriesLeft /\ Numbering
  BY DEF IInv
<1> DEFINE TenantsOK == tenants' \in [Posts -> Tenant \cup {NoRow}]
           JobsOK == /\ job' \in [Posts -> {"none", "queued", "done", "dead"} \cup Working]
                     /\ tries' \in [Posts -> 0..MaxTries]
                     /\ seen' \in [Posts -> {"CREATED", "ACTIVE"}]
           UsersOK == /\ userTenant' \in [Users -> Posts \cup {None}]
                      /\ claims' \in [Users -> SUBSET (Posts \cup {None})]
                      /\ pc' \in [Posts -> {"sent", "create", "link", "enqueue", "metadata",
                                            "answered", "conflict", "error"}]
           ConfigsOK == configs' \in [Posts -> SUBSET TenantConfig]
<1>1. TenantsOK
  <2>1. ASSUME NEW p \in Posts, CreateTenant(p) PROVE TenantsOK
    <3>1. [status |-> "CREATED", onboarding |-> "PENDING"] \in Tenant
      BY DEF Tenant
    <3> QED
      BY <1>0, <2>1, <3>1 DEF CreateTenant, Types
  <2>2. ASSUME NEW p \in Posts,
               StartAttempt(p) \/ Complete(p) \/ MarkFailed(p) \/ ActivateTenant(p)
        PROVE  TenantsOK
    <3>1. job[p] # "none"
      BY <2>2 DEF StartAttempt, Complete, MarkFailed, ActivateTenant
    <3>2. tenants[p] \in Tenant
      BY <1>0, <3>1, FieldWrites
    <3>3. \A s \in {"RUNNING", "COMPLETE", "FAILED"} :
            /\ [status |-> tenants[p].status, onboarding |-> s] \in Tenant
            /\ [status |-> "ACTIVE", onboarding |-> tenants[p].onboarding] \in Tenant
      BY <3>2 DEF Tenant
    <3> QED
      BY <1>0, <2>2, <3>1, <3>3, FieldWrites
         DEF StartAttempt, Complete, MarkFailed, ActivateTenant, Types
  <2> QED
    BY <1>0, <2>1, <2>2, TenantsChange DEF Types
<1>2. ASSUME NEW t \in Posts, JobStep(t) \/ DiesUnmarked(t) \/ Cancelled(t) PROVE JobsOK
  <2>0. \A u \in Posts : tries[u] < MaxTries => tries[u] + 1 \in 0..MaxTries
    BY <1>0 DEF Types
  <2>1. CASE StartAttempt(t)
    <3>1. tries[t] + 1 \in 0..MaxTries
      BY <1>0, <2>0, <2>1 DEF StartAttempt, TriesLeft
    <3>2. tenants[t].status \in {"CREATED", "ACTIVE"}
      BY <1>0, <2>1, FieldWrites DEF StartAttempt, Tenant
    <3> QED
      BY <1>0, <2>1, <3>1, <3>2 DEF StartAttempt, Goto, Working, Types
  <2>2. CASE StartFails(t)
    <3>1. tries[t] + 1 \in 0..MaxTries
      BY <1>0, <2>0, <2>2 DEF StartFails, TriesLeft
    <3> QED
      BY <1>0, <2>2, <3>1 DEF StartFails, Goto, Types
  <2>3. CASE ~StartAttempt(t) /\ ~StartFails(t)
    BY <1>0, <1>2, <2>3 DEF JobStep, RunAgents, FinishJob, CreateActive, ActivateTenant, Complete,
       PipelineRaises, MarkFailed, DiesUnmarked, Cancelled, Goto, Working, Types
  <2> QED
    BY <2>1, <2>2, <2>3
<1>3. ASSUME NEW p \in Posts, Enqueue(p) PROVE JobsOK
  BY <1>0, <1>3 DEF Enqueue, Types
<1>4. ASSUME NEW p \in Posts, RequestStep(p) \/ RequestFails(p), ~Enqueue(p) PROVE JobsOK
  BY <1>0, <1>4 DEF RequestStep, Begin, CreateTenant, SetUserTenant, UpdateMetadata,
                    RequestFails, worker, Types
<1>5. ASSUME NEW u \in Users, Login(u) PROVE JobsOK /\ UsersOK
  BY <1>0, <1>5 DEF Login, worker, Types
<1>6. ASSUME NEW p \in Posts, RequestStep(p) \/ RequestFails(p) PROVE UsersOK
  <2>1. UserOf[p] \in Users
    OBVIOUS
  <2>2. CASE UpdateMetadata(p)
    <3>1. [claims EXCEPT ![UserOf[p]] = @ \cup {p}] \in [Users -> SUBSET (Posts \cup {None})]
      BY <1>0, <2>1 DEF Types
    <3> QED
      BY <1>0, <2>2, <3>1 DEF UpdateMetadata, Types
  <2>3. CASE ~UpdateMetadata(p)
    BY <1>0, <1>6, <2>1, <2>3 DEF RequestStep, Begin, CreateTenant, SetUserTenant, Enqueue,
                             RequestFails, Types
  <2> QED
    BY <2>2, <2>3
<1>7. ASSUME NEW t \in Posts, JobStep(t) \/ DiesUnmarked(t) \/ Cancelled(t) PROVE UsersOK
  BY <1>0, <1>7 DEF JobStep, StartAttempt, StartFails, RunAgents, FinishJob, CreateActive, ActivateTenant, Complete,
     PipelineRaises, MarkFailed, DiesUnmarked, Cancelled, request, Types
<1>8. UNCHANGED configs \/ \E t \in Posts : CreateActive(t)
  BY DEF Next, RequestStep, JobStep, Login, Begin, CreateTenant, SetUserTenant, Enqueue,
         UpdateMetadata, RequestFails, StartAttempt, StartFails, RunAgents, FinishJob, ActivateTenant, Complete,
         PipelineRaises, MarkFailed, DiesUnmarked, Cancelled, vars
<1>9. ASSUME NEW t \in Posts, CreateActive(t) PROVE ConfigsOK
  <2>1. Activated(configs[t]) \in SUBSET TenantConfig
    <3>1. PICK n \in 0..tries[t] : Numbered(configs[t], n)
      BY <1>0 DEF Numbering
    <3>2. n \in Nat /\ configs[t] \in SUBSET TenantConfig
      BY <1>0 DEF Types
    <3> QED
      BY <3>1, <3>2, ActivatedNumbered
  <2> QED
    BY <1>0, <1>9, <2>1 DEF CreateActive, Types
<1>10. CASE UNCHANGED vars
  BY <1>0, <1>10 DEF vars, Types
<1>11. ConfigsOK
  BY <1>0, <1>8, <1>9 DEF Types
<1>12. ASSUME JobsOK, UsersOK PROVE Types'
  BY <1>1, <1>11, <1>12 DEF Types
<1> QED
  BY <1>2, <1>3, <1>4, <1>5, <1>6, <1>7, <1>10, <1>12 DEF Next

\* The steps of a request and of the user leave the jobs alone, but for Enqueue.
LEMMA JobFrame ==
  ASSUME [Next]_vars
  PROVE  \/ UNCHANGED <<job, tries, seen, configs>>
         \/ \E p \in Posts : Enqueue(p)
         \/ \E t \in Posts : JobStep(t) \/ DiesUnmarked(t) \/ Cancelled(t)
BY DEF Next, RequestStep, Login, Begin, CreateTenant, SetUserTenant, UpdateMetadata,
       RequestFails, worker, vars

LEMMA TriesStep == IInv /\ [Next]_vars => TriesLeft'
<1> SUFFICES ASSUME IInv, [Next]_vars PROVE TriesLeft'
  OBVIOUS
<1>0. Types /\ TriesLeft /\ RowsExist
  BY DEF IInv
<1>1. CASE UNCHANGED <<job, tries, seen, configs>>
  BY <1>0, <1>1 DEF TriesLeft
<1>2. ASSUME NEW p \in Posts, Enqueue(p) PROVE TriesLeft'
  BY <1>0, <1>2 DEF Enqueue, TriesLeft, RowsExist, Types
<1>3. ASSUME NEW t \in Posts, JobStep(t) \/ DiesUnmarked(t) PROVE TriesLeft'
  BY <1>0, <1>3 DEF JobStep, StartAttempt, StartFails, RunAgents, FinishJob, CreateActive, ActivateTenant, Complete,
     PipelineRaises, MarkFailed, DiesUnmarked, Goto, Working, TriesLeft, Types
<1>4. ASSUME NEW t \in Posts, Cancelled(t) PROVE TriesLeft'
  BY <1>0, <1>4 DEF Cancelled, Goto, TriesLeft, Types
<1> QED
  BY <1>1, <1>2, <1>3, <1>4, JobFrame

LEMMA NumberingStep == IInv /\ [Next]_vars => Numbering'
<1> SUFFICES ASSUME IInv, [Next]_vars PROVE Numbering'
  OBVIOUS
<1>0. Types /\ Numbering /\ RowsExist
  BY DEF IInv
<1> DEFINE At(C, n, j, k) == /\ n \in 0..k /\ Numbered(C, n)
                             /\ j \in {"agents", "config"} => n < k
<1>a. \A t \in Posts : \E n \in 0..tries[t] : At(configs[t], n, job[t], tries[t])
  BY <1>0 DEF Numbering
<1>b. SUFFICES ASSUME NEW t \in Posts
               PROVE  \E n \in 0..tries'[t] : At(configs'[t], n, job'[t], tries'[t])
  BY DEF Numbering
<1>c. PICK n \in 0..tries[t] : At(configs[t], n, job[t], tries[t])
  BY <1>a
<1>d. n \in Nat /\ tries[t] \in Nat /\ configs[t] \in SUBSET TenantConfig
  BY <1>0 DEF Types
<1> HIDE DEF At
<1>1. CASE /\ configs'[t] = configs[t] /\ tries'[t] = tries[t]
           /\ job'[t] \in {"agents", "config"} => job[t] \in {"agents", "config"}
  BY <1>c, <1>1 DEF At
<1>2. CASE StartAttempt(t)
  <2>1. configs'[t] = configs[t] /\ tries'[t] = tries[t] + 1
    BY <1>0, <1>2 DEF StartAttempt, Types
  <2>2. n \in 0..tries'[t] /\ n < tries'[t]
    BY <1>d, <2>1
  <2> QED
    BY <1>c, <2>1, <2>2 DEF At
<1>3. CASE CreateActive(t)
  <2>1. /\ configs'[t] = Activated(configs[t]) /\ tries'[t] = tries[t]
        /\ job[t] = "config" /\ job'[t] = "activate"
    BY <1>0, <1>3 DEF CreateActive, Goto, Types
  <2>2. n + 1 \in 0..tries'[t]
    BY <1>c, <1>d, <2>1 DEF At
  <2>3. Numbered(configs'[t], n + 1)
    BY <1>c, <1>d, <2>1, ActivatedNumbered DEF At
  <2>4. At(configs'[t], n + 1, job'[t], tries'[t])
    BY <2>1, <2>2, <2>3 DEF At
  <2> QED
    BY <2>2, <2>4
<1>4. ASSUME NEW u \in Posts, JobStep(u) \/ DiesUnmarked(u) \/ Cancelled(u),
             u # t \/ ~(StartAttempt(t) \/ StartFails(t) \/ CreateActive(t))
      PROVE  /\ configs'[t] = configs[t] /\ tries'[t] = tries[t]
             /\ job'[t] \in {"agents", "config"} => job[t] \in {"agents", "config"}
  BY <1>0, <1>4 DEF JobStep, StartAttempt, StartFails, RunAgents, FinishJob, CreateActive, ActivateTenant, Complete,
     PipelineRaises, MarkFailed, DiesUnmarked, Cancelled, Goto, Types
<1>5. ASSUME NEW p \in Posts, Enqueue(p)
      PROVE  /\ configs'[t] = configs[t] /\ tries'[t] = tries[t]
             /\ job'[t] \in {"agents", "config"} => job[t] \in {"agents", "config"}
  BY <1>0, <1>5 DEF Enqueue, Types
<1>6. CASE UNCHANGED <<job, tries, seen, configs>>
  BY <1>1, <1>6
<1>7. CASE StartFails(t)
  <2>1. /\ configs'[t] = configs[t] /\ tries'[t] = tries[t] + 1
        /\ job'[t] \in {"dead", "queued"}
    BY <1>0, <1>7 DEF StartFails, Goto, Types
  <2>2. n \in 0..tries'[t]
    BY <1>d, <2>1
  <2> QED
    BY <1>c, <2>1, <2>2 DEF At
<1> QED
  BY <1>1, <1>2, <1>3, <1>4, <1>5, <1>6, <1>7, JobFrame

\* A config once ACTIVE is only ever replaced.
LEMMA ConfigStays ==
  ASSUME IInv, [Next]_vars, NEW t \in Posts
  PROVE  /\ ActiveOf(configs[t]) # {} => ActiveOf(configs'[t]) # {}
         /\ CreateActive(t) => ActiveOf(configs'[t]) # {}
<1>0. Types /\ Numbering
  BY DEF IInv
<1>1. ASSUME NEW u \in Posts, CreateActive(u) PROVE ActiveOf(configs'[u]) # {}
  <2>1. PICK n \in 0..tries[u] : Numbered(configs[u], n)
    BY <1>0 DEF Numbering
  <2>2. n \in Nat /\ configs[u] \in SUBSET TenantConfig
    BY <1>0 DEF Types
  <2>3. configs'[u] = Activated(configs[u])
    BY <1>0, <1>1 DEF CreateActive, Types
  <2> QED
    BY <2>1, <2>2, <2>3, ActivatedNumbered
<1>2. CreateActive(t) \/ configs'[t] = configs[t]
  <2>1. ASSUME NEW u \in Posts, JobStep(u) \/ DiesUnmarked(u) \/ Cancelled(u)
        PROVE  CreateActive(t) \/ configs'[t] = configs[t]
    BY <1>0, <2>1 DEF JobStep, StartAttempt, StartFails, RunAgents, FinishJob, CreateActive, ActivateTenant, Complete,
       PipelineRaises, MarkFailed, DiesUnmarked, Cancelled, Types
  <2> QED
    BY <2>1, JobFrame DEF Enqueue
<1> QED
  BY <1>1, <1>2

-----------------------------------------------------------------------------
\* A tenant's row after a step.
Written(t, s, o) == tenants'[t] = [status |-> s, onboarding |-> o]

LEMMA RowAfter ==
  ASSUME IInv, [Next]_vars, NEW t \in Posts
  PROVE  \/ tenants'[t] = tenants[t]
         \/ tenants[t] = NoRow /\ Written(t, "CREATED", "PENDING")
         \/ tenants[t] # NoRow /\ ActivateTenant(t) /\ Written(t, "ACTIVE", tenants[t].onboarding)
         \/ tenants[t] # NoRow /\ Complete(t) /\ Written(t, tenants[t].status, "COMPLETE")
         \/ tenants[t] # NoRow /\ \E o \in {"RUNNING", "FAILED"} : Written(t, tenants[t].status, o)
<1>0. Types /\ RowsExist
  BY DEF IInv
<1>1. ASSUME NEW p \in Posts, CreateTenant(p)
      PROVE  \/ tenants'[t] = tenants[t]
             \/ tenants[t] = NoRow /\ Written(t, "CREATED", "PENDING")
  BY <1>0, <1>1 DEF CreateTenant, RowsExist, Types, Written
<1>2. ASSUME NEW p \in Posts, p # t,
             StartAttempt(p) \/ Complete(p) \/ MarkFailed(p) \/ ActivateTenant(p)
      PROVE  tenants'[t] = tenants[t]
  BY <1>0, <1>2 DEF StartAttempt, Complete, MarkFailed, ActivateTenant, SetOnboarding, Types
<1>3. ASSUME StartAttempt(t) \/ MarkFailed(t)
      PROVE  tenants[t] # NoRow /\ \E o \in {"RUNNING", "FAILED"} : Written(t, tenants[t].status, o)
  <2>1. job[t] # "none" /\ tenants[t] # NoRow
    BY <1>0, <1>3 DEF StartAttempt, MarkFailed, RowsExist
  <2>2. \E o \in {"RUNNING", "FAILED"} :
          tenants' = [tenants EXCEPT ![t] = [status |-> tenants[t].status, onboarding |-> o]]
    BY <1>0, <1>3, <2>1, FieldWrites DEF StartAttempt, MarkFailed
  <2> QED
    BY <1>0, <2>1, <2>2 DEF Types, Written
<1>4. ASSUME Complete(t)
      PROVE  tenants[t] # NoRow /\ Written(t, tenants[t].status, "COMPLETE")
  <2>1. job[t] # "none" /\ tenants[t] # NoRow
    BY <1>0, <1>4 DEF Complete, RowsExist
  <2>2. tenants' = [tenants EXCEPT ![t] = [status |-> tenants[t].status, onboarding |-> "COMPLETE"]]
    BY <1>0, <1>4, <2>1, FieldWrites DEF Complete
  <2> QED
    BY <1>0, <2>1, <2>2 DEF Types, Written
<1>5. ASSUME ActivateTenant(t)
      PROVE  tenants[t] # NoRow /\ Written(t, "ACTIVE", tenants[t].onboarding)
  <2>1. job[t] # "none" /\ tenants[t] # NoRow
    BY <1>0, <1>5 DEF ActivateTenant, RowsExist
  <2>2. tenants' = [tenants EXCEPT ![t] = [status |-> "ACTIVE", onboarding |-> tenants[t].onboarding]]
    BY <1>0, <1>5, <2>1, FieldWrites DEF ActivateTenant
  <2> QED
    BY <1>0, <2>1, <2>2 DEF Types, Written
<1> QED
  BY <1>1, <1>2, <1>3, <1>4, <1>5, TenantsChange

LEMMA ServiceStays ==
  ASSUME IInv, [Next]_vars, NEW t \in Posts
  PROVE  Serviceable(t) => Serviceable(t)'
<1>1. CASE tenants'[t] = tenants[t]
  BY <1>1 DEF Serviceable
<1>2. \A s \in {"CREATED", "ACTIVE"}, o \in {"PENDING", "RUNNING", "COMPLETE", "FAILED"} :
        [status |-> s, onboarding |-> o] # NoRow
  BY NotARow DEF Tenant
<1>3. tenants[t] # NoRow => tenants[t].onboarding \in {"PENDING", "RUNNING", "COMPLETE", "FAILED"}
  BY DEF IInv, Types, Tenant
<1>4. ASSUME NEW o, tenants'[t] = [status |-> "ACTIVE", onboarding |-> o],
             o \in {"PENDING", "RUNNING", "COMPLETE", "FAILED"}
      PROVE  Serviceable(t)'
  BY <1>2, <1>4 DEF Serviceable
<1>5. CASE tenants[t] # NoRow /\ tenants[t].status = "ACTIVE"
  <2>1. \/ tenants'[t] = tenants[t]
        \/ \E o \in {"PENDING", "RUNNING", "COMPLETE", "FAILED"} : Written(t, "ACTIVE", o)
    BY <1>3, <1>5, RowAfter
  <2> QED
    BY <1>1, <1>4, <2>1 DEF Written
<1> QED
  BY <1>5 DEF Serviceable

\* Nothing but activate_tenant opens a tenant.
LEMMA OpenedBy ==
  ASSUME IInv, [Next]_vars, NEW t \in Posts
  PROVE  Serviceable(t)' => Serviceable(t) \/ ActivateTenant(t)
<1>a. \A s, o : Written(t, s, o) => tenants'[t].status = s
  BY DEF Written
<1>1. tenants'[t] = tenants[t] => (Serviceable(t)' <=> Serviceable(t))
  BY DEF Serviceable
<1>2. tenants[t] # NoRow /\ tenants[t].status = "ACTIVE" => Serviceable(t)
  BY DEF Serviceable
<1>3. Serviceable(t)' => tenants'[t].status = "ACTIVE"
  BY DEF Serviceable
<1> QED
  BY <1>a, <1>1, <1>2, <1>3, RowAfter

LEMMA InOrderStep == IInv /\ [Next]_vars => InOrder'
<1> SUFFICES ASSUME IInv, [Next]_vars, NEW t \in Posts
             PROVE  /\ job'[t] \in {"activate", "complete"} => ActiveOf(configs'[t]) # {}
                    /\ job'[t] = "complete" => Serviceable(t)'
  BY DEF InOrder
<1>0. Types /\ InOrder
  BY DEF IInv
<1>1. /\ job'[t] = "activate" => job[t] = "activate" \/ CreateActive(t)
      /\ job'[t] = "complete" => job[t] = "complete" \/ ActivateTenant(t)
  <2>1. ASSUME NEW u \in Posts, JobStep(u) \/ DiesUnmarked(u) \/ Cancelled(u)
        PROVE  /\ job'[t] = "activate" => job[t] = "activate" \/ CreateActive(t)
               /\ job'[t] = "complete" => job[t] = "complete" \/ ActivateTenant(t)
    BY <1>0, <2>1 DEF JobStep, StartAttempt, StartFails, RunAgents, FinishJob, CreateActive, ActivateTenant, Complete,
       PipelineRaises, MarkFailed, DiesUnmarked, Cancelled, Goto, Types
  <2>2. ASSUME NEW u \in Posts, Enqueue(u)
        PROVE  /\ job'[t] = "activate" => job[t] = "activate"
               /\ job'[t] = "complete" => job[t] = "complete"
    BY <1>0, <2>2 DEF Enqueue, Types
  <2> QED
    BY <2>1, <2>2, JobFrame
<1>2. ActivateTenant(t) => job[t] = "activate" /\ Serviceable(t)'
  <2> SUFFICES ASSUME ActivateTenant(t) PROVE job[t] = "activate" /\ Serviceable(t)'
    OBVIOUS
  <2>1. job[t] = "activate" /\ tenants[t] \in Tenant
    BY <1>0, FieldWrites DEF ActivateTenant, IInv
  <2>2. tenants'[t] = [status |-> "ACTIVE", onboarding |-> tenants[t].onboarding]
    <3>1. tenants' = [tenants EXCEPT ![t].status = "ACTIVE"]
      BY DEF ActivateTenant
    <3>2. job[t] # "none" /\ Types /\ RowsExist
      BY <2>1 DEF IInv
    <3>3. tenants' = [tenants EXCEPT ![t] = [status |-> "ACTIVE",
                                             onboarding |-> tenants[t].onboarding]]
      BY <3>1, <3>2, FieldWrites
    <3>4. DOMAIN tenants = Posts
      BY <3>2 DEF Types
    <3> QED
      BY <3>3, <3>4
  <2>3. tenants'[t] \in Tenant
    BY <2>1, <2>2 DEF Tenant
  <2> QED
    BY <2>1, <2>2, <2>3, NotARow DEF Serviceable
<1> QED
  BY <1>0, <1>1, <1>2, ConfigStays, ServiceStays DEF InOrder

LEMMA ActiveStep == IInv /\ [Next]_vars => ActiveHasConfig'
<1> SUFFICES ASSUME IInv, [Next]_vars, NEW t \in Posts
             PROVE  /\ Serviceable(t)' => ActiveOf(configs'[t]) # {}
                    /\ tenants'[t] # NoRow /\ tenants'[t].onboarding = "COMPLETE"
                       => Serviceable(t)'
  BY DEF ActiveHasConfig
<1>0. Types /\ InOrder /\ ActiveHasConfig
  BY DEF IInv
<1>a. \A s, o : Written(t, s, o) => tenants'[t].status = s /\ tenants'[t].onboarding = o
  BY DEF Written
<1>1. Serviceable(t)' => Serviceable(t) \/ ActivateTenant(t)
  BY OpenedBy
<1>2. ActivateTenant(t) => ActiveOf(configs[t]) # {}
  BY <1>0 DEF ActivateTenant, InOrder
<1>3. tenants'[t] # NoRow /\ tenants'[t].onboarding = "COMPLETE" =>
        Serviceable(t) \/ Complete(t)
  <2>1. tenants[t] # NoRow /\ tenants[t].onboarding = "COMPLETE" => Serviceable(t)
    BY <1>0 DEF ActiveHasConfig
  <2> QED
    BY <1>a, <2>1, RowAfter
<1>4. Complete(t) => Serviceable(t)
  BY <1>0 DEF Complete, InOrder
<1> QED
  BY <1>0, <1>1, <1>2, <1>3, <1>4, ConfigStays, ServiceStays DEF ActiveHasConfig

-----------------------------------------------------------------------------
\* Login, the first and the third statement of a request are all that links.
LEMMA LinkChange ==
  ASSUME [Next]_vars
  PROVE  \/ UNCHANGED <<userTenant, claims>>
         \/ /\ UNCHANGED claims
            /\ \E u \in Users, link \in Posts \cup {None} :
                 GetUser(u, link) /\ userTenant' = [userTenant EXCEPT ![u] = link]
         \/ \E p \in Posts :
              /\ pc[p] = "link" /\ UNCHANGED claims
              /\ userTenant' = [userTenant EXCEPT ![UserOf[p]] = p]
         \/ \E p \in Posts :
              /\ pc[p] = "metadata" /\ UNCHANGED userTenant
              /\ claims' = [claims EXCEPT ![UserOf[p]] = @ \cup {p}]
<1>1. ASSUME NEW u \in Users, Login(u)
      PROVE  /\ UNCHANGED claims
             /\ \E link \in Posts \cup {None} :
                  GetUser(u, link) /\ userTenant' = [userTenant EXCEPT ![u] = link]
  BY <1>1 DEF Login
<1>2. ASSUME NEW p \in Posts, Begin(p)
      PROVE  /\ UNCHANGED claims /\ UserOf[p] \in Users
             /\ \E link \in Posts \cup {None} :
                  GetUser(UserOf[p], link) /\ userTenant' = [userTenant EXCEPT ![UserOf[p]] = link]
  BY <1>2 DEF Begin
<1>3. ASSUME NEW p \in Posts, SetUserTenant(p) \/ UpdateMetadata(p)
      PROVE  \/ UNCHANGED <<userTenant, claims>>
             \/ /\ pc[p] = "link" /\ UNCHANGED claims
                /\ userTenant' = [userTenant EXCEPT ![UserOf[p]] = p]
             \/ /\ pc[p] = "metadata" /\ UNCHANGED userTenant
                /\ claims' = [claims EXCEPT ![UserOf[p]] = @ \cup {p}]
  BY <1>3 DEF SetUserTenant, UpdateMetadata
<1>4. ASSUME NEW p \in Posts, CreateTenant(p) \/ Enqueue(p) \/ RequestFails(p)
      PROVE  UNCHANGED <<userTenant, claims>>
  BY <1>4 DEF CreateTenant, Enqueue, RequestFails
<1>5. ASSUME NEW t \in Posts, JobStep(t) \/ DiesUnmarked(t) \/ Cancelled(t)
      PROVE  UNCHANGED <<userTenant, claims>>
  BY <1>5 DEF JobStep, StartAttempt, StartFails, RunAgents, FinishJob, CreateActive,
     ActivateTenant, Complete, PipelineRaises, MarkFailed, DiesUnmarked, Cancelled, request
<1>6. CASE UNCHANGED vars
  BY <1>6 DEF vars
<1> QED
  BY <1>1, <1>2, <1>3, <1>4, <1>5, <1>6 DEF Next, RequestStep

LEMMA LinksStep == IInv /\ [Next]_vars => LinksOwn'
<1> SUFFICES ASSUME IInv, [Next]_vars PROVE LinksOwn'
  OBVIOUS
<1>0. Types /\ RowsExist /\ LinksOwn
  BY DEF IInv
<1>1. \A u \in Users, t \in Posts : Own(u, t) => Own(u, t)'
  BY RowsStay DEF Own
<1>2. \A p \in Posts : pc[p] \in {"link", "metadata"} => Own(UserOf[p], p)'
  BY <1>0, <1>1 DEF RowsExist, Own
<1>3. CASE UNCHANGED <<userTenant, claims>>
  BY <1>0, <1>1, <1>3 DEF LinksOwn, Types
<1>4. CASE /\ UNCHANGED claims
           /\ \E u \in Users, link \in Posts \cup {None} :
                GetUser(u, link) /\ userTenant' = [userTenant EXCEPT ![u] = link]
  <2>1. PICK u \in Users, link \in Posts \cup {None} :
          GetUser(u, link) /\ userTenant' = [userTenant EXCEPT ![u] = link]
    BY <1>4
  <2>2. link # None => Own(u, link)
    BY <1>0, <2>1 DEF GetUser, LinksOwn
  <2>3. \A v \in Users : userTenant'[v] = IF v = u THEN link ELSE userTenant[v]
    BY <1>0, <2>1 DEF Types
  <2> QED
    BY <1>0, <1>1, <1>4, <2>2, <2>3 DEF LinksOwn, Types
<1>5. ASSUME NEW p \in Posts, pc[p] = "link", UNCHANGED claims,
             userTenant' = [userTenant EXCEPT ![UserOf[p]] = p]
      PROVE  LinksOwn'
  <2>1. \A v \in Users : userTenant'[v] = IF v = UserOf[p] THEN p ELSE userTenant[v]
    BY <1>0, <1>5 DEF Types
  <2> QED
    BY <1>0, <1>1, <1>2, <1>5, <2>1 DEF LinksOwn, Types
<1>6. ASSUME NEW p \in Posts, pc[p] = "metadata", UNCHANGED userTenant,
             claims' = [claims EXCEPT ![UserOf[p]] = @ \cup {p}]
      PROVE  LinksOwn'
  <2>1. \A v \in Users : claims'[v] = IF v = UserOf[p] THEN claims[v] \cup {p} ELSE claims[v]
    BY <1>0, <1>6 DEF Types
  <2> QED
    BY <1>0, <1>1, <1>2, <1>6, <2>1 DEF LinksOwn, Types
<1> QED
  BY <1>3, <1>4, <1>5, <1>6, LinkChange

-----------------------------------------------------------------------------
THEOREM Inductive == Spec => []IInv
<1>1. IInv /\ [Next]_vars => IInv'
  BY TypesStep, RowsStep, TriesStep, NumberingStep, InOrderStep, ActiveStep, LinksStep DEF IInv
<1> QED
  BY InitOK, <1>1, PTL DEF Spec

\* Every row is well formed; no job has more attempts than max_tries.
THEOREM TypeCorrect == Spec => []Types
BY Inductive, PTL DEF IInv

\* An ACTIVE tenant has an ACTIVE config and a COMPLETE one is ACTIVE, whenever
\* the pipeline is cut off and run again.
THEOREM ConfigSafety == Spec => []ActiveHasConfig
BY Inductive, PTL DEF IInv

\* Versions are numbered without gap or repetition, at most one to an attempt.
THEOREM VersionSafety == Spec => []VersionsInOrder
<1>1. IInv => VersionsInOrder
  BY DEF IInv, Numbering, VersionsInOrder
<1> QED
  BY <1>1, Inductive, PTL

\* A linked user stays linked, to a tenant a request of this user created, whatever
\* tokens and requests overlap (get_or_create_user, set_user_tenant).
THEOREM LinkSafety == Spec => UserStaysLinked
<1> DEFINE Linked == \A u \in Users : LET link == userTenant'[u] IN
             /\ userTenant[u] # None => link # None
             /\ link # None => UserOf[link] = u /\ tenants'[link] # NoRow
<1>1. IInv /\ [Next]_vars => Linked
  <2> SUFFICES ASSUME IInv, [Next]_vars, NEW u \in Users
               PROVE  /\ userTenant[u] # None => userTenant'[u] # None
                      /\ userTenant'[u] # None => Own(u, userTenant[u])'
    BY DEF Own
  <2>1. userTenant \in [Users -> Posts \cup {None}]
    BY DEF IInv, Types
  <2>2. userTenant'[u] # None => Own(u, userTenant[u])'
    BY LinksStep DEF LinksOwn
  <2>3. userTenant[u] # None => userTenant'[u] # None
    BY <2>1, LinkChange DEF GetUser
  <2> QED
    BY <2>2, <2>3
<1>2. IInv /\ [Next]_vars => [Linked]_vars
  BY <1>1
<1> QED
  BY <1>2, Inductive, PTL DEF Spec, UserStaysLinked

-----------------------------------------------------------------------------
(* The contract of a tenant's service.                                     *)

\* The version in force is the number of versions made.
LEMMA InForceIsLast ==
  ASSUME NEW C \in SUBSET TenantConfig, NEW n \in Nat, Numbered(C, n)
  PROVE  InForce(C) = n
<1>1. CASE n = 0
  BY <1>1 DEF Numbered, InForce, ActiveOf
<1>2. CASE n > 0
  <2>1. PICK c \in C : c.version = n
    BY <1>2 DEF Numbered
  <2>2. c \in ActiveOf(C) /\ \A d \in ActiveOf(C) : d.version = n
    BY <2>1 DEF Numbered, ActiveOf
  <2>3. {d.version : d \in ActiveOf(C)} = {n}
    BY <2>1, <2>2
  <2> QED
    BY <2>2, <2>3 DEF InForce, Max
<1> QED
  BY <1>1, <1>2

\* create_active is the only statement that touches the configs, and it writes
\* nothing else; activate_tenant writes the row of its own tenant.
LEMMA ServiceWrites ==
  ASSUME IInv, [Next]_vars
  PROVE  /\ configs' = configs \/ \E t \in Posts : CreateActive(t)
         /\ \A t \in Posts : CreateActive(t) => UNCHANGED tenants
         /\ \A t \in Posts : ActivateTenant(t) =>
              /\ UNCHANGED configs
              /\ \A u \in Posts \ {t} : tenants'[u] = tenants[u]
<1>0. Types
  BY DEF IInv
<1>1. ASSUME NEW u \in Posts, JobStep(u) \/ DiesUnmarked(u) \/ Cancelled(u)
      PROVE  CreateActive(u) \/ configs' = configs
  BY <1>1 DEF JobStep, StartAttempt, StartFails, RunAgents, FinishJob, ActivateTenant, Complete,
     PipelineRaises, MarkFailed, DiesUnmarked, Cancelled, request
<1>2. CASE UNCHANGED vars \/ \E u \in Users : Login(u)
  BY <1>2 DEF vars, Login
<1>3. ASSUME NEW p \in Posts, RequestStep(p) \/ RequestFails(p) PROVE configs' = configs
  BY <1>3 DEF RequestStep, RequestFails, Begin, CreateTenant, SetUserTenant, Enqueue,
     UpdateMetadata
<1>4. configs' = configs \/ \E t \in Posts : CreateActive(t)
  BY <1>1, <1>2, <1>3 DEF Next, vars, Login
<1>5. \A t \in Posts : CreateActive(t) => UNCHANGED tenants
  BY DEF CreateActive
<1>6. \A t \in Posts : ActivateTenant(t) =>
        /\ UNCHANGED configs
        /\ \A u \in Posts \ {t} : tenants'[u] = tenants[u]
  BY <1>0 DEF ActivateTenant, Types
<1> QED
  BY <1>4, <1>5, <1>6

LEMMA ServiceStep == IInv /\ [Next]_vars => [Service!Next]_(Service!vars)
<1> SUFFICES ASSUME IInv, [Next]_vars PROVE [Service!Next]_(Service!vars)
  OBVIOUS
<1> DEFINE force == [t \in Posts |-> InForce(configs[t])]
           opened == {t \in Posts : Serviceable(t)}
<1>0. Types /\ Numbering /\ InOrder
  BY DEF IInv
<1>1. \A t \in Posts : Serviceable(t) => Serviceable(t)'
  BY ServiceStays
<1>2. CASE \E t \in Posts : CreateActive(t)
  <2>1. PICK t \in Posts : CreateActive(t)
    BY <1>2
  <2>2. PICK n \in 0..tries[t] : Numbered(configs[t], n)
    BY <1>0 DEF Numbering
  <2>3. n \in Nat /\ configs[t] \in SUBSET TenantConfig
    BY <1>0, <2>2 DEF Types
  <2>4. configs' = [configs EXCEPT ![t] = Activated(configs[t])]
    BY <2>1 DEF CreateActive
  <2>5. InForce(configs[t]) = n /\ InForce(Activated(configs[t])) = n + 1
    BY <2>2, <2>3, ActivatedNumbered, InForceIsLast
  <2>6. \A u \in Posts : InForce(configs'[u]) =
                         IF u = t THEN InForce(configs[u]) + 1 ELSE InForce(configs[u])
    BY <1>0, <2>4, <2>5 DEF Types
  <2>7. force' = [force EXCEPT ![t] = @ + 1]
    BY <2>6
  <2>8. tenants' = tenants
    BY <2>1, ServiceWrites
  <2>9. opened' = opened
    BY <2>8 DEF Serviceable
  <2> QED
    BY <2>7, <2>9 DEF Service!Next, Service!Replace
<1>3. CASE \E t \in Posts : ActivateTenant(t)
  <2>1. PICK t \in Posts : ActivateTenant(t)
    BY <1>3
  <2>2. UNCHANGED configs /\ \A u \in Posts \ {t} : tenants'[u] = tenants[u]
    BY <2>1, ServiceWrites
  <2>3. force' = force
    BY <2>2
  <2>4. \A u \in Posts \ {t} : Serviceable(u)' <=> Serviceable(u)
    BY <2>2 DEF Serviceable
  <2>5. CASE Serviceable(t) \/ ~Serviceable(t)'
    <3>1. \A u \in Posts : Serviceable(u)' <=> Serviceable(u)
      BY <1>1, <2>4, <2>5
    <3>2. opened' = opened
      BY <3>1
    <3> QED
      BY <2>3, <3>2 DEF Service!vars
  <2>6. CASE ~Serviceable(t) /\ Serviceable(t)'
    <3>1. opened' = opened \cup {t} /\ t \notin opened
      BY <2>4, <2>6
    <3>2. PICK n \in 0..tries[t] : Numbered(configs[t], n)
      BY <1>0 DEF Numbering
    <3>3. n \in Nat /\ configs[t] \in SUBSET TenantConfig /\ ActiveOf(configs[t]) # {}
      BY <1>0, <2>1, <3>2 DEF Types, InOrder, ActivateTenant
    <3>4. n > 0
      BY <3>2, <3>3 DEF Numbered, ActiveOf
    <3>5. force[t] > 0
      BY <3>2, <3>3, <3>4, InForceIsLast
    <3> QED
      BY <2>3, <3>1, <3>5 DEF Service!Next, Service!Open
  <2> QED
    BY <2>5, <2>6
<1>4. CASE ~(\E t \in Posts : CreateActive(t)) /\ ~(\E t \in Posts : ActivateTenant(t))
  <2>1. configs' = configs
    BY <1>4, ServiceWrites
  <2>2. \A u \in Posts : Serviceable(u)' <=> Serviceable(u)
    BY <1>1, <1>4, OpenedBy
  <2>3. force' = force /\ opened' = opened
    BY <2>1, <2>2
  <2> QED
    BY <2>3 DEF Service!vars
<1> QED
  BY <1>2, <1>3, <1>4

\* Onboarding implements ServiceContract: one version at a time comes into force,
\* none is withdrawn, and a tenant is opened once, on a config.
THEOREM ServiceRefinement == Spec => KeepsService
<1>1. Init => Service!Init
  <2> SUFFICES ASSUME Init PROVE Service!Init
    OBVIOUS
  <2>1. \A t \in Posts : InForce(configs[t]) = 0 /\ ~Serviceable(t)
    BY DEF Init, InForce, ActiveOf, Serviceable
  <2> QED
    BY <2>1 DEF Service!Init
<1> QED
  BY <1>1, ServiceStep, Inductive, PTL DEF Spec, KeepsService, Service!Spec

\* What lead capture relies on: a config, once in force, is followed by one, and a
\* tenant once ACTIVE stays so.
ServiceContinues ==
  [][\A t \in Posts : /\ ActiveOf(configs[t]) # {} => ActiveOf(configs'[t]) # {}
                      /\ Serviceable(t) => Serviceable(t)']_vars

\* tenantReady of lead capture rises once and never falls: a second attempt, failed or
\* not, takes neither the config nor the status away.
THEOREM ServiceSafety == Spec => ServiceContinues
<1> DEFINE Continues == \A t \in Posts :
             /\ ActiveOf(configs[t]) # {} => ActiveOf(configs'[t]) # {}
             /\ Serviceable(t) => Serviceable(t)'
<1>1. IInv /\ [Next]_vars => [Continues]_vars
  BY ConfigStays, ServiceStays
<1> QED
  BY Inductive, <1>1, PTL DEF Spec, ServiceContinues

-----------------------------------------------------------------------------
(* A job runs down.                                                        *)

\* The most steps a job can take from a place on before its attempt is over.
Ahead == [done |-> 0, dead |-> 0, queued |-> 1, none |-> 2, failing |-> 2, finishing |-> 3,
          complete |-> 4, activate |-> 5, config |-> 6, agents |-> 7]

\* With the attempts the queue has still to give it.
StepsLeft(t) == 7 * (MaxTries - tries[t]) + Ahead[job[t]]

CountsAreNat == \A t \in Posts : StepsLeft(t) \in Nat

JobsGoDown ==
  \A t \in Posts :
    /\ JobStep(t) \/ DiesUnmarked(t) \/ Cancelled(t) => StepsLeft(t)' < StepsLeft(t)
    /\ StepsLeft(t)' <= StepsLeft(t)

\* Every step of an onboarding job, failures and cancellations included, lowers a
\* natural number that no other step raises.
RunsDown == []CountsAreNat /\ [][JobsGoDown]_vars

LEMMA CountIsNat == Types => CountsAreNat
<1>1. \A p \in {"none", "queued", "done", "dead"} \cup Working : Ahead[p] \in Nat
  BY DEF Ahead, Working
<1>2. ASSUME Types, NEW t \in Posts PROVE StepsLeft(t) \in Nat
  <2>1. Ahead[job[t]] \in Nat /\ tries[t] \in 0..MaxTries /\ MaxTries \in Nat
    BY <1>1, <1>2 DEF Types
  <2> QED
    BY <2>1 DEF StepsLeft
<1> QED
  BY <1>2 DEF CountsAreNat

\* One step on its way, or an attempt begun.
LEMMA OneStepDown ==
  ASSUME Types, NEW t \in Posts,
         NEW p \in {"none", "queued", "done", "dead"} \cup Working,
         job' = [job EXCEPT ![t] = p],
         \/ tries' = tries /\ Ahead[p] < Ahead[job[t]]
         \/ /\ tries' = [tries EXCEPT ![t] = @ + 1]
            /\ Ahead[p] < 7 + Ahead[job[t]]
  PROVE  /\ StepsLeft(t)' < StepsLeft(t)
         /\ \A u \in Posts \ {t} : StepsLeft(u)' = StepsLeft(u)
<1>1. /\ job \in [Posts -> {"none", "queued", "done", "dead"} \cup Working]
      /\ tries \in [Posts -> 0..MaxTries] /\ MaxTries \in Nat
  BY DEF Types
<1>2. Ahead[p] \in Nat /\ Ahead[job[t]] \in Nat /\ tries[t] \in Nat
  BY <1>1 DEF Ahead, Working
<1>3. \A u \in Posts \ {t} : job'[u] = job[u] /\ tries'[u] = tries[u]
  BY <1>1
<1>4. job'[t] = p /\ (tries'[t] = tries[t] \/ tries'[t] = tries[t] + 1)
  BY <1>1
<1>5. StepsLeft(t)' < StepsLeft(t)
  BY <1>1, <1>2, <1>4 DEF StepsLeft
<1> QED
  BY <1>3, <1>5 DEF StepsLeft

LEMMA RunDownStep ==
  ASSUME IInv, [Next]_vars
  PROVE  JobsGoDown
<1>0. /\ Types /\ CountsAreNat
      /\ job \in [Posts -> {"none", "queued", "done", "dead"} \cup Working]
  BY CountIsNat DEF IInv, Types
<1>a. Types' => CountsAreNat'
  BY CountIsNat, PTL
<1>b. CountsAreNat'
  BY TypesStep, <1>a
<1> DEFINE Down(t) == /\ StepsLeft(t)' < StepsLeft(t)
                      /\ \A u \in Posts \ {t} : StepsLeft(u)' = StepsLeft(u)
<1>1. ASSUME NEW t \in Posts, StartAttempt(t) \/ StartFails(t) PROVE Down(t)
  <2>1. \A p \in {"agents", "dead", "queued"} : Ahead[p] < 7 + Ahead["queued"]
    BY DEF Ahead
  <2>2. "agents" \in Working
    BY DEF Working
  <2> QED
    BY <1>0, <1>1, <2>1, <2>2, OneStepDown DEF StartAttempt, StartFails, Goto
<1>2. ASSUME NEW t \in Posts,
             \/ RunAgents(t) \/ CreateActive(t) \/ ActivateTenant(t) \/ Complete(t)
             \/ FinishJob(t) \/ PipelineRaises(t) \/ MarkFailed(t)
      PROVE  Down(t)
  <2>1. /\ tries' = tries
        /\ \E q \in Working, p \in {"dead", "done"} \cup Working :
             job[t] = q /\ job' = [job EXCEPT ![t] = p] /\ Ahead[p] < Ahead[q]
    BY <1>2 DEF RunAgents, CreateActive, ActivateTenant, Complete, FinishJob,
       PipelineRaises, MarkFailed, Goto, Ahead, Working
  <2> QED
    BY <1>0, <2>1, OneStepDown
<1>3. ASSUME NEW t \in Posts, DiesUnmarked(t) \/ Cancelled(t) PROVE Down(t)
  <2>1. \A q \in Working : Ahead["dead"] < Ahead[q] /\ Ahead["queued"] < Ahead[q]
    BY DEF Ahead, Working
  <2> QED
    BY <1>0, <1>3, <2>1, OneStepDown DEF DiesUnmarked, Cancelled, Goto
<1>4. ASSUME NEW t \in Posts, Enqueue(t) PROVE Down(t)
  <2>1. job[t] = "none"
    BY <1>4 DEF Enqueue, IInv, RowsExist
  <2>2. Ahead["queued"] < Ahead["none"]
    BY DEF Ahead
  <2> QED
    BY <1>0, <1>4, <2>1, <2>2, OneStepDown DEF Enqueue
<1>5. (\E t \in Posts : Down(t)) \/ \A u \in Posts : StepsLeft(u)' = StepsLeft(u)
  <2>1. CASE job' = job /\ tries' = tries
    BY <2>1 DEF StepsLeft
  <2>2. CASE \E t \in Posts : Enqueue(t) \/ JobStep(t) \/ DiesUnmarked(t) \/ Cancelled(t)
    <3> HIDE DEF Down
    <3> QED
      BY <1>1, <1>2, <1>3, <1>4, <2>2 DEF JobStep
  <2> QED
    BY <2>1, <2>2 DEF Next, vars, Login, RequestStep, RequestFails, Begin, CreateTenant,
       SetUserTenant, UpdateMetadata, worker
<1>6. ASSUME NEW t \in Posts, Down(t) PROVE \A u \in Posts : StepsLeft(u)' <= StepsLeft(u)
  <2> HIDE DEF StepsLeft
  <2>1. StepsLeft(t)' <= StepsLeft(t)
    BY <1>0, <1>b, <1>6 DEF CountsAreNat
  <2>2. ASSUME NEW u \in Posts \ {t} PROVE StepsLeft(u)' <= StepsLeft(u)
    BY <1>0, <1>b, <1>6, <2>2 DEF CountsAreNat
  <2> QED
    BY <2>1, <2>2
<1>7. \A u \in Posts : StepsLeft(u)' <= StepsLeft(u)
  <2>1. CASE \A u \in Posts : StepsLeft(u)' = StepsLeft(u)
    <3> HIDE DEF StepsLeft
    <3> QED
      BY <1>0, <2>1 DEF CountsAreNat
  <2> HIDE DEF Down
  <2> QED
    BY <1>5, <1>6, <2>1
<1>8. ASSUME NEW t \in Posts, JobStep(t) \/ DiesUnmarked(t) \/ Cancelled(t)
      PROVE  StepsLeft(t)' < StepsLeft(t)
  BY <1>1, <1>2, <1>3, <1>8 DEF JobStep
<1> QED
  BY <1>7, <1>8 DEF JobsGoDown

\* Every onboarding job comes to an end unless it is kept waiting: the part of
\* EveryJobEnds that needs no fairness.
THEOREM JobsRunDown == Spec => RunsDown
<1>1. IInv => CountsAreNat
  BY CountIsNat DEF IInv
<1>2. IInv /\ [Next]_vars => [JobsGoDown]_vars
  BY RunDownStep
<1> QED
  BY <1>1, <1>2, Inductive, PTL DEF Spec, RunsDown

=============================================================================
