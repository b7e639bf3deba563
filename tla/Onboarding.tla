----------------------------- MODULE Onboarding -----------------------------
(***************************************************************************)
(* From POST /onboarding to a tenant that leads can be captured for: the   *)
(* endpoint's commits, the arq job that runs the pipeline, and the config  *)
(* registry.  A tenant is named by the request that creates it.            *)
(*                                                                         *)
(* The job's session keeps the tenant in its identity map over its commits *)
(* (expire_on_commit=False): activate_tenant tests the status the attempt  *)
(* read when it began.  One attempt of a job runs at a time.               *)
(***************************************************************************)
EXTENDS Naturals, FiniteSets, FiniteSetsExt

CONSTANTS
  Posts,     \* requests to POST /onboarding
  Users,
  UserOf,    \* the user each request is from
  MaxTries,  \* WorkerSettings.max_tries
  None, NoRow

ASSUME UserAssumption == UserOf \in [Posts -> Users]
ASSUME TriesAssumption == MaxTries \in Nat \ {0}
ASSUME SentinelAssumption ==
  /\ None \notin Posts
  /\ NoRow \notin [status : {"CREATED", "ACTIVE"},
                   onboarding : {"PENDING", "RUNNING", "COMPLETE", "FAILED"}]

Tenant == [status : {"CREATED", "ACTIVE"},
           onboarding : {"PENDING", "RUNNING", "COMPLETE", "FAILED"}]
TenantConfig == [version : Nat \ {0}, status : {"ACTIVE", "ARCHIVED"}]

VARIABLES
  tenants,  \* committed rows of tenants
  configs,  \* committed rows of tenant_configs, by tenant
  userTenant, \* users.tenant_id
  claims,   \* tenant claims a token of the user may carry
  pc,       \* where each request is
  job,      \* where each onboarding job is
  tries,    \* attempts of the job so far
  seen      \* tenant.status in the attempt's identity map

request == <<userTenant, claims, pc>>
worker == <<job, tries, seen>>
vars == <<tenants, configs, userTenant, claims, pc, job, tries, seen>>

Init ==
  /\ tenants = [t \in Posts |-> NoRow]
  /\ configs = [t \in Posts |-> {}]
  /\ userTenant = [u \in Users |-> None]
  /\ claims = [u \in Users |-> {None}]
  /\ pc = [p \in Posts |-> "sent"]
  /\ job = [t \in Posts |-> "none"]
  /\ tries = [t \in Posts |-> 0]
  /\ seen = [t \in Posts |-> "CREATED"]

-----------------------------------------------------------------------------
(* onboard, after get_current_user.                                        *)

\* Fault: a token without a claim wipes the stored link.
GetUserClaimOnly(u, link) == link \in claims[u]

\* get_or_create_user: a claim in the token overwrites the stored link.
GetUser(u, link) == \E claim \in claims[u] : link = IF claim = None THEN userTenant[u] ELSE claim

\* Any authenticated request of the user.
Login(u) ==
  /\ \E link \in Posts \cup {None} :
       /\ GetUser(u, link)
       /\ userTenant' = [userTenant EXCEPT ![u] = link]
  /\ UNCHANGED <<tenants, configs, claims, pc, worker>>

Begin(p) ==
  /\ pc[p] = "sent"
  /\ \E link \in Posts \cup {None} :
       /\ GetUser(UserOf[p], link)
       /\ userTenant' = [userTenant EXCEPT ![UserOf[p]] = link]
       /\ pc' = [pc EXCEPT ![p] = IF link = None THEN "create" ELSE "conflict"]
  /\ UNCHANGED <<tenants, configs, claims, worker>>

CreateTenant(p) ==
  /\ pc[p] = "create"
  /\ tenants' = [tenants EXCEPT ![p] = [status |-> "CREATED", onboarding |-> "PENDING"]]
  /\ pc' = [pc EXCEPT ![p] = "link"]
  /\ UNCHANGED <<configs, userTenant, claims, worker>>

SetUserTenant(p) ==
  /\ pc[p] = "link"
  /\ userTenant' = [userTenant EXCEPT ![UserOf[p]] = p]
  /\ pc' = [pc EXCEPT ![p] = "enqueue"]
  /\ UNCHANGED <<tenants, configs, claims, worker>>

Enqueue(p) ==
  /\ pc[p] = "enqueue"
  /\ job' = [job EXCEPT ![p] = "queued"]
  /\ pc' = [pc EXCEPT ![p] = "metadata"]
  /\ UNCHANGED <<tenants, configs, userTenant, claims, tries, seen>>

\* The patch may fail; the request is answered all the same.
UpdateMetadata(p) ==
  /\ pc[p] = "metadata"
  /\ claims' \in {claims, [claims EXCEPT ![UserOf[p]] = @ \cup {p}]}
  /\ pc' = [pc EXCEPT ![p] = "answered"]
  /\ UNCHANGED <<tenants, configs, userTenant, worker>>

\* The database or Redis is away, or the process ends.
RequestFails(p) ==
  /\ pc[p] \in {"sent", "create", "link", "enqueue", "metadata"}
  /\ pc' = [pc EXCEPT ![p] = "error"]
  /\ UNCHANGED <<tenants, configs, userTenant, claims, worker>>

-----------------------------------------------------------------------------
(* run_onboarding_pipeline.                                                *)

Working == {"agents", "config", "activate", "complete", "finishing", "failing"}
Goto(t, step) == job' = [job EXCEPT ![t] = step]
SetOnboarding(t, status) == tenants' = [tenants EXCEPT ![t].onboarding = status]

StartAttempt(t) ==
  /\ job[t] = "queued"
  /\ Goto(t, "agents")
  /\ tries' = [tries EXCEPT ![t] = @ + 1]
  /\ seen' = [seen EXCEPT ![t] = tenants[t].status]
  /\ SetOnboarding(t, "RUNNING")
  /\ UNCHANGED <<configs, request>>

\* The write of RUNNING stands before the try block: if it raises the job dies with
\* the status as it was, and a worker that stops before it leaves it to the next.
StartFails(t) ==
  /\ job[t] = "queued"
  /\ tries' = [tries EXCEPT ![t] = @ + 1]
  /\ Goto(t, "dead") \/ (tries[t] + 1 < MaxTries /\ Goto(t, "queued"))
  /\ UNCHANGED <<tenants, configs, request, seen>>

\* Fault: the tenant is activated before its config is written.
AgentsActivateFirst(t) ==
  /\ job[t] = "agents"
  /\ Goto(t, "activate")
  /\ UNCHANGED <<tenants, configs, request, tries, seen>>

\* The website and the three agents; nothing is written.
RunAgents(t) ==
  /\ job[t] = "agents"
  /\ Goto(t, "config")
  /\ UNCHANGED <<tenants, configs, request, tries, seen>>

ActiveOf(C) == {c \in C : c.status = "ACTIVE"}

\* Fault: the first free number after the ACTIVE version.
NextVersionOfActive(C) == Cardinality(ActiveOf(C)) + 1

\* _next_version, which runs when the archived row is flushed.
NextVersion(C) == IF C = {} THEN 1 ELSE Max({c.version : c \in C}) + 1

Archived(C) == {[c EXCEPT !.status = "ARCHIVED"] : c \in C}
Activated(C) ==
  LET old == Archived(C) IN old \cup {[version |-> NextVersion(old), status |-> "ACTIVE"]}

\* Fault: the archived row is committed before the new one is written.
CreateActiveArchivesFirst(t) ==
  /\ job[t] = "config"
  /\ \/ /\ configs' = [configs EXCEPT ![t] = Activated(@)]
        /\ Goto(t, "activate")
     \/ /\ configs' = [configs EXCEPT ![t] = Archived(@)]
        /\ Goto(t, "dead")
  /\ UNCHANGED <<tenants, request, tries, seen>>

\* create_active: archive the ACTIVE row and insert the next version, one commit.
CreateActive(t) ==
  /\ job[t] = "config"
  /\ Cardinality(ActiveOf(configs[t])) <= 1
  /\ configs' = [configs EXCEPT ![t] = Activated(@)]
  /\ Goto(t, "activate")
  /\ UNCHANGED <<tenants, request, tries, seen>>

ActivateTenant(t) ==
  /\ job[t] = "activate"
  /\ seen[t] = "CREATED"
  /\ tenants' = [tenants EXCEPT ![t].status = "ACTIVE"]
  /\ seen' = [seen EXCEPT ![t] = "ACTIVE"]
  /\ Goto(t, "complete")
  /\ UNCHANGED <<configs, request, tries>>

Complete(t) ==
  /\ job[t] = "complete"
  /\ SetOnboarding(t, "COMPLETE")
  /\ Goto(t, "finishing")
  /\ UNCHANGED <<configs, request, tries, seen>>

\* The job returns and arq strikes it off; a worker that stops before that leaves
\* a COMPLETE tenant to a further attempt.
FinishJob(t) ==
  /\ job[t] = "finishing"
  /\ Goto(t, "done")
  /\ UNCHANGED <<tenants, configs, request, tries, seen>>

\* An agent, a fetch or a statement raises; activate_tenant does for a tenant
\* that was ACTIVE when the attempt began.
PipelineRaises(t) ==
  /\ job[t] \in {"agents", "config", "activate", "complete"}
  /\ Goto(t, "failing")
  /\ UNCHANGED <<tenants, configs, request, tries, seen>>

\* The except clause; arq does not retry an exception.
MarkFailed(t) ==
  /\ job[t] = "failing"
  /\ SetOnboarding(t, "FAILED")
  /\ Goto(t, "dead")
  /\ UNCHANGED <<configs, request, tries, seen>>

\* The write of FAILED raises too (the database is still away, or the session's
\* transaction was ended by a failed flush), or arq's timeout cancels the task.
DiesUnmarked(t) ==
  /\ job[t] \in Working
  /\ Goto(t, "dead")
  /\ UNCHANGED <<tenants, configs, request, tries, seen>>

\* Fault: one attempt too many.
CancelledOnceMore(t) ==
  /\ job[t] \in Working
  /\ Goto(t, IF tries[t] <= MaxTries THEN "queued" ELSE "dead")
  /\ UNCHANGED <<tenants, configs, request, tries, seen>>

\* Fault: a cancelled job is requeued whatever its tries.
CancelledForever(t) ==
  /\ job[t] \in Working
  /\ Goto(t, "queued")
  /\ tries' = [tries EXCEPT ![t] = 0]
  /\ UNCHANGED <<tenants, configs, request, seen>>

\* The worker stops or crashes: CancelledError is no Exception, so nothing is
\* marked, and arq runs the job again up to max_tries.
Cancelled(t) ==
  /\ job[t] \in Working
  /\ Goto(t, IF tries[t] < MaxTries THEN "queued" ELSE "dead")
  /\ UNCHANGED <<tenants, configs, request, tries, seen>>

-----------------------------------------------------------------------------
RequestStep(p) ==
  \/ Begin(p) \/ CreateTenant(p) \/ SetUserTenant(p) \/ Enqueue(p) \/ UpdateMetadata(p)
JobStep(t) ==
  \/ StartAttempt(t) \/ StartFails(t) \/ RunAgents(t) \/ CreateActive(t) \/ ActivateTenant(t)
  \/ Complete(t) \/ FinishJob(t) \/ PipelineRaises(t) \/ MarkFailed(t)

Next ==
  \/ \E u \in Users : Login(u)
  \/ \E p \in Posts : RequestStep(p) \/ RequestFails(p)
  \/ \E t \in Posts : JobStep(t) \/ DiesUnmarked(t) \/ Cancelled(t)

Spec == Init /\ [][Next]_vars

\* Workers keep working; requests and failures need not happen.
FairSpec == Spec /\ \A t \in Posts : WF_vars(JobStep(t))

-----------------------------------------------------------------------------
\* Every row is well formed and every request and job somewhere in its code.
Types ==
  /\ tenants \in [Posts -> Tenant \cup {NoRow}]
  /\ configs \in [Posts -> SUBSET TenantConfig]
  /\ userTenant \in [Users -> Posts \cup {None}]
  /\ claims \in [Users -> SUBSET (Posts \cup {None})]
  /\ pc \in [Posts -> {"sent", "create", "link", "enqueue", "metadata",
                       "answered", "conflict", "error"}]
  /\ job \in [Posts -> {"none", "queued", "done", "dead"} \cup Working]
  /\ tries \in [Posts -> 0..MaxTries]
  /\ seen \in [Posts -> {"CREATED", "ACTIVE"}]

\* A tenant that is ACTIVE, or COMPLETE, has a config to capture leads with: the
\* pipeline commits the config, the status and the outcome in this order, and no
\* crash or retry between them shows one without the other.
Serviceable(t) == tenants[t] # NoRow /\ tenants[t].status = "ACTIVE"
ActiveHasConfig ==
  /\ \A t \in Posts : Serviceable(t) => ActiveOf(configs[t]) # {}
  /\ \A t \in Posts : tenants[t] # NoRow /\ tenants[t].onboarding = "COMPLETE"
                      => Serviceable(t)

\* The registry numbers a tenant's versions 1, 2, ... without gap or repetition,
\* at most one to an attempt however often the pipeline is run again, and the
\* newest is the ACTIVE one.
Numbered(C, n) ==
  /\ {c.version : c \in C} = 1..n
  /\ \A c, d \in C : c.version = d.version => c = d
  /\ \A c \in C : c.status = "ACTIVE" <=> c.version = n
VersionsInOrder == \A t \in Posts : \E n \in 0..tries[t] : Numbered(configs[t], n)

\* Once a config is there leads are captured from then on: a second attempt of
\* the pipeline replaces it by the next in one commit, a tenant is opened once and
\* on a config, and no attempt that fails takes either back.
InForce(C) == IF ActiveOf(C) = {} THEN 0 ELSE Max({c.version : c \in ActiveOf(C)})
Service == INSTANCE ServiceContract WITH
  Tenants <- Posts,
  inForce <- [t \in Posts |-> InForce(configs[t])],
  open <- {t \in Posts : Serviceable(t)}
KeepsService == Service!Spec

\* Of whatever requests and tokens of a user overlap: once the user is linked to a
\* tenant no login takes the link away, and it is always to a tenant that a request
\* of this user created and committed ("tenant_id is DB-owned once set",
\* get_or_create_user).
UserStaysLinked ==
  [][\A u \in Users : LET link == userTenant'[u] IN
       /\ userTenant[u] # None => link # None
       /\ link # None => UserOf[link] = u /\ tenants'[link] # NoRow]_vars

\* Every onboarding job ends, cancelled or not.
EveryJobEnds == \A t \in Posts : job[t] = "queued" ~> job[t] \in {"done", "dead"}

=============================================================================
