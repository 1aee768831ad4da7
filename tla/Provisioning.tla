---------------------------- MODULE Provisioning ----------------------------
(***************************************************************************)
(* Provisioning: the start of the server, RegisterTenant and RegisterCluster *)
(* with the workflows they start, and the administrator's deletions.       *)
(*                                                                         *)
(* A call of RegisterTenant draws a fresh tenant id, so calls and tenants  *)
(* are one set; likewise for clusters.  A workflow runs one activity at a  *)
(* time and outlives the server that started it.  An attempt of an         *)
(* activity is executed and answered, or it fails, or it is executed and   *)
(* the answer is lost; an attempt of a TigerBeetle activity that has timed *)
(* out may also be executed later.                                         *)
(***************************************************************************)
EXTENDS Integers, FiniteSets

CONSTANTS
    Resource,
    Tenant,              \* calls of RegisterTenant
    NewCluster, OwnerOf, \* calls of RegisterCluster, and the tenant each names
    MaxAttempts,         \* RetryPolicy.MaximumAttempts
    MaxFaults,           \* bound: failed, unanswered and timed-out attempts
    MaxStarts            \* bound: starts of the server

ASSUME ProvisioningAssumption ==
    /\ IsFiniteSet(Resource) /\ Resource # {}
    /\ OwnerOf \in [NewCluster -> Tenant]
    /\ Tenant \cap NewCluster = {}
    /\ MaxAttempts \in Nat \ {0} /\ MaxFaults \in Nat /\ MaxStarts \in Nat \ {0}

Call == Tenant \cup NewCluster

(* An account set of a tenant is named by the attempt that created it, the *)
(* operator and sink accounts by the start of the server.                  *)
NoAccounts == 0

VARIABLES
    starts,          \* starts of the server, each with global accounts of its own
    step,            \* the activity the workflow of each call waits for
    tries,           \* attempts made of it
    reply,           \* what the caller has been told
    globalIDs,       \* GlobalOperatorIDs and GlobalSinkIDs of each tenant's workflow
    accountIDs,      \* tbResult.AccountIDs of each tenant's workflow
    tenants,         \* rows of the table tenants
    clusters,        \* rows of the table workload_clusters
    deleted,         \* rows of both with deleted_at or deregistered_at set
    mapping,         \* rows of tb_account_ids: the accounts of each tenant and resource
    accounts,        \* account sets in TigerBeetle: tenant and attempt
    allocations,     \* allocation transfers in TigerBeetle
    accounting,      \* input of the running accounting workflow of each tenant
    registered,      \* clusters signalled to it
    late,            \* TigerBeetle attempts that have timed out
    faults

workflow == <<step, tries, globalIDs, accountIDs>>
pg == <<tenants, clusters, deleted, mapping>>
tb == <<accounts, allocations>>
vars == <<starts, workflow, reply, pg, tb, accounting, registered, late, faults>>

NotRunning == [accounts |-> NoAccounts, globals |-> 0]

Init ==
    /\ starts = 1
    /\ step = [x \in Call |-> "idle"]
    /\ tries = [x \in Call |-> 0]
    /\ reply = [x \in Call |-> "none"]
    /\ globalIDs = [t \in Tenant |-> 0]
    /\ accountIDs = [t \in Tenant |-> NoAccounts]
    /\ tenants = {} /\ clusters = {} /\ deleted = {}
    /\ mapping = [t \in Tenant |-> [r \in Resource |-> NoAccounts]]
    /\ accounts = {} /\ allocations = {}
    /\ accounting = [t \in Tenant |-> NotRunning]
    /\ registered = {}
    /\ late = {}
    /\ faults = 0

-----------------------------------------------------------------------------
(* What the activities do.                                                 *)

(* The transfer id is left to be random.                                   *)
FaultyAllocated(t, r, n) == {}

(* Transfers with the id of tenant t's allocation of r, which is derived   *)
(* from the tenant and the start of its period.                            *)
Allocated(t, r, n) == {a \in allocations : a.tenant = t /\ a.r = r}

SubmitAllocationTransfers(t, account, n) ==
    /\ allocations' = allocations \cup
          {[tenant |-> t, r |-> r, accounts |-> account, globals |-> globalIDs[t], by |-> n] :
              r \in {q \in Resource : Allocated(t, q, n) = {}}}
    /\ UNCHANGED <<accounts, pg, accounting, registered>>

(* Every attempt draws new account ids.                                    *)
CreateTenantTBAccounts(t, n) ==
    /\ accounts' = accounts \cup {<<t, n>>}
    /\ UNCHANGED <<allocations, pg, accounting, registered>>

(* The row is there, or the tenant of a cluster is not.                    *)
InsertConflicts(x) ==
    \/ step[x] = "insertTenant" /\ x \in tenants
    \/ step[x] = "insertCluster" /\ (x \in clusters \/ OwnerOf[x] \notin tenants)

InsertTenant(t) ==
    /\ ~InsertConflicts(t)
    /\ tenants' = tenants \cup {t}
    /\ UNCHANGED <<clusters, deleted, mapping, tb, accounting, registered>>

(* Inserts or updates, and sets the columns to what a new row has.         *)
FaultyInsertCluster(c) ==
    /\ OwnerOf[c] \in tenants
    /\ clusters' = clusters \cup {c} /\ deleted' = deleted \ {c}
    /\ UNCHANGED <<tenants, mapping, tb, accounting, registered>>

InsertCluster(c) ==
    /\ ~InsertConflicts(c)
    /\ clusters' = clusters \cup {c}
    /\ UNCHANGED <<tenants, deleted, mapping, tb, accounting, registered>>

(* The rows of the resources in R are written, ON CONFLICT DO NOTHING.     *)
InsertTBAccountMapping(t, R) ==
    /\ mapping' = [mapping EXCEPT ![t] = [r \in Resource |->
          IF r \in R /\ @[r] = NoAccounts THEN accountIDs[t] ELSE @[r]]]
    /\ UNCHANGED <<tenants, clusters, deleted, tb, accounting, registered>>

(* The child workflow starts, unless one with its id is running.           *)
StartAccounting(t) ==
    /\ accounting' = IF accounting[t] # NotRunning THEN accounting
                     ELSE [accounting EXCEPT ![t] =
                              [accounts |-> accountIDs[t], globals |-> globalIDs[t]]]
    /\ UNCHANGED <<pg, tb, registered>>

SignalRegister(c) ==
    /\ accounting[OwnerOf[c]] # NotRunning
    /\ registered' = registered \cup {c}
    /\ UNCHANGED <<pg, tb, accounting>>

(* The whole effect of the activity that x waits for.                      *)
Executes(x) ==
    \/ step[x] = "insertTenant" /\ InsertTenant(x)
    \/ step[x] = "createAccounts" /\ CreateTenantTBAccounts(x, tries[x])
    \/ step[x] = "insertMapping" /\ InsertTBAccountMapping(x, Resource)
    \/ step[x] = "allocate" /\ SubmitAllocationTransfers(x, accountIDs[x], tries[x])
    \/ step[x] = "startAccounting" /\ StartAccounting(x)
    \/ step[x] = "insertCluster" /\ InsertCluster(x)
    \/ step[x] = "signal" /\ SignalRegister(x)

-----------------------------------------------------------------------------
(* The workflows.                                                          *)

Plan(s) ==
    CASE s = "insertTenant" -> "createAccounts"
      [] s = "createAccounts" -> "insertMapping"
      [] s = "insertMapping" -> "allocate"
      [] s = "allocate" -> "startAccounting"
      [] s = "insertCluster" -> "signal"
      [] s \in {"startAccounting", "signal"} -> "done"

(* Waits for the accounting workflow to complete, not to start.            *)
FaultyFollowing(s) == IF s = "startAccounting" THEN s ELSE Plan(s)

Following(s) == Plan(s)

Active(x) == step[x] \notin {"idle", "done", "failed"}

(* The activity succeeds and the workflow goes on to the next one.         *)
Succeeds(x) ==
    /\ Active(x)
    /\ Executes(x)
    /\ step' = [step EXCEPT ![x] = Following(@)]
    /\ tries' = [tries EXCEPT ![x] = 1]
    /\ accountIDs' = IF step[x] = "createAccounts"
                     THEN [accountIDs EXCEPT ![x] = tries[x]] ELSE accountIDs
    /\ UNCHANGED <<starts, reply, globalIDs, late, faults>>

(* One attempt too many.                                                   *)
FaultyExhausted(x) == tries[x] > MaxAttempts \/ step[x] \in {"startAccounting", "signal"}

(* The start of a child and the signal are not retried.                    *)
Exhausted(x) == tries[x] >= MaxAttempts \/ step[x] \in {"startAccounting", "signal"}

(* The error of the last attempt is dropped.                               *)
FaultyAfterError(x) == Plan(step[x])

(* The workflow ends with the error.                                       *)
AfterError(x) == "failed"

RetryOrFail(x) ==
    /\ IF Exhausted(x)
       THEN step' = [step EXCEPT ![x] = AfterError(x)] /\ UNCHANGED tries
       ELSE tries' = [tries EXCEPT ![x] = @ + 1] /\ UNCHANGED step
    /\ UNCHANGED <<starts, reply, globalIDs, accountIDs>>

(* A statement that violates a constraint, or a signal to a workflow that  *)
(* is not running, fails every time.                                       *)
Refused(x) ==
    /\ Active(x)
    /\ \/ InsertConflicts(x)
       \/ step[x] = "signal" /\ accounting[OwnerOf[x]] = NotRunning
    /\ RetryOrFail(x)
    /\ UNCHANGED <<pg, tb, accounting, registered, late, faults>>

Activity == {"insertTenant", "createAccounts", "insertMapping", "allocate", "insertCluster"}

Fault == faults < MaxFaults /\ faults' = faults + 1

(* The attempt fails, part of the mapping written perhaps.                 *)
AttemptFails(x) ==
    /\ step[x] \in Activity
    /\ Fault
    /\ \/ UNCHANGED <<pg, tb, accounting, registered>>
       \/ /\ step[x] = "insertMapping"
          /\ \E R \in SUBSET Resource : InsertTBAccountMapping(x, R)
    /\ RetryOrFail(x)
    /\ UNCHANGED late

(* The attempt is executed and its answer is lost.                         *)
Unanswered(x) ==
    /\ step[x] \in Activity
    /\ Fault
    /\ Executes(x)
    /\ RetryOrFail(x)
    /\ UNCHANGED late

(* A TigerBeetle attempt times out before it is executed.                  *)
TimesOut(t) ==
    /\ step[t] \in {"createAccounts", "allocate"}
    /\ Fault
    /\ late' = late \cup {[t |-> t, step |-> step[t], n |-> tries[t], accounts |-> accountIDs[t]]}
    /\ RetryOrFail(t)
    /\ UNCHANGED <<pg, tb, accounting, registered>>

LateExecutes ==
    /\ \E a \in late :
          /\ late' = late \ {a}
          /\ IF a.step = "createAccounts" THEN CreateTenantTBAccounts(a.t, a.n)
             ELSE SubmitAllocationTransfers(a.t, a.accounts, a.n)
    /\ UNCHANGED <<starts, workflow, reply, faults>>

-----------------------------------------------------------------------------
(* The server.                                                             *)

(* Calls that wait are cut off; the workflows go on.  CreateGlobalAccounts *)
(* is given no ids to reuse.                                               *)
ServerRestarts ==
    /\ starts < MaxStarts
    /\ starts' = starts + 1
    /\ reply' = [x \in Call |-> IF reply[x] = "waiting" THEN "error" ELSE reply[x]]
    /\ UNCHANGED <<workflow, pg, tb, accounting, registered, late, faults>>

RegisterTenant(t) ==
    /\ reply[t] = "none"
    /\ reply' = [reply EXCEPT ![t] = "waiting"]
    /\ step' = [step EXCEPT ![t] = "insertTenant"]
    /\ tries' = [tries EXCEPT ![t] = 1]
    /\ globalIDs' = [globalIDs EXCEPT ![t] = starts]
    /\ UNCHANGED <<starts, accountIDs, pg, tb, accounting, registered, late, faults>>

(* Whatever tenant the request names, provisioned or not.                  *)
RegisterCluster(c) ==
    /\ reply[c] = "none"
    /\ reply' = [reply EXCEPT ![c] = "waiting"]
    /\ step' = [step EXCEPT ![c] = "insertCluster"]
    /\ tries' = [tries EXCEPT ![c] = 1]
    /\ UNCHANGED <<starts, globalIDs, accountIDs, pg, tb, accounting, registered, late, faults>>

(* run.Get returns.                                                        *)
Replies(x) ==
    /\ reply[x] = "waiting" /\ step[x] \in {"done", "failed"}
    /\ reply' = [reply EXCEPT ![x] = IF step[x] = "done" THEN "ok" ELSE "error"]
    /\ UNCHANGED <<starts, workflow, pg, tb, accounting, registered, late, faults>>

(* The context of the call ends first.                                     *)
CallerGivesUp(x) ==
    /\ reply[x] = "waiting"
    /\ reply' = [reply EXCEPT ![x] = "error"]
    /\ UNCHANGED <<starts, workflow, pg, tb, accounting, registered, late, faults>>

(* DeleteTenant and DeregisterCluster mark the row and nothing else.       *)
Delete(x) ==
    /\ x \in (tenants \cup clusters) \ deleted
    /\ deleted' = deleted \cup {x}
    /\ UNCHANGED <<starts, workflow, reply, tenants, clusters, mapping, tb, accounting,
                   registered, late, faults>>

-----------------------------------------------------------------------------
(* The administrator's lists.                                              *)

ListTenants == tenants \ deleted

ListClusters(t) == {c \in clusters \ deleted : OwnerOf[c] = t}

(* Clusters of any tenant, "last_heartbeat IS NULL OR last_heartbeat < $1": *)
(* no statement that is ever run sets last_heartbeat, so it is NULL.       *)
ListStaleClusters == clusters \ deleted

Listed == ListTenants \cup ListStaleClusters \cup UNION {ListClusters(t) : t \in Tenant}

-----------------------------------------------------------------------------
Workflow(x) == Succeeds(x) \/ Refused(x)

Next ==
    \/ \E x \in Call :
          \/ Workflow(x) \/ AttemptFails(x) \/ Unanswered(x)
          \/ Replies(x) \/ CallerGivesUp(x) \/ Delete(x)
    \/ \E t \in Tenant : RegisterTenant(t) \/ TimesOut(t)
    \/ \E c \in NewCluster : RegisterCluster(c)
    \/ LateExecutes
    \/ ServerRestarts

(* Temporal runs its workflows and the server answers when they end.       *)
Fairness == \A x \in Call : WF_vars(Workflow(x)) /\ WF_vars(Replies(x))

Spec == Init /\ [][Next]_vars /\ Fairness

-----------------------------------------------------------------------------
Accounts == 0..MaxAttempts

TypeOK ==
    /\ starts \in 1..MaxStarts
    /\ step \in [Call -> Activity \cup {"idle", "startAccounting", "signal", "done", "failed"}]
    /\ tries \in [Call -> 0..MaxAttempts]
    /\ reply \in [Call -> {"none", "waiting", "ok", "error"}]
    /\ globalIDs \in [Tenant -> 0..MaxStarts]
    /\ accountIDs \in [Tenant -> Accounts]
    /\ tenants \subseteq Tenant /\ clusters \subseteq NewCluster
    /\ deleted \subseteq tenants \cup clusters
    /\ mapping \in [Tenant -> [Resource -> Accounts]]
    /\ accounts \subseteq Tenant \X Accounts
    /\ allocations \subseteq [tenant : Tenant, r : Resource, accounts : Accounts,
                         globals : 0..MaxStarts, by : Accounts]
    /\ accounting \in [Tenant -> [accounts : Accounts, globals : 0..MaxStarts]]
    /\ registered \subseteq NewCluster
    /\ late \subseteq [t : Tenant, step : {"createAccounts", "allocate"}, n : Accounts,
                       accounts : Accounts]
    /\ faults \in 0..MaxFaults

(* When RegisterTenant reports success the tenant is whole: its row is     *)
(* there, the accounting workflow runs on accounts that exist, PostgreSQL  *)
(* names the same accounts, and every wallet has been loaded from the      *)
(* operator account that the accounting workflow goes on to use.           *)
ProvisionedIsWhole ==
    \A t \in Tenant : reply[t] = "ok" =>
        LET a == accounting[t].accounts
        IN  /\ t \in tenants
            /\ <<t, a>> \in accounts
            /\ \A r \in Resource :
                  /\ mapping[t][r] = a
                  /\ \E x \in allocations :
                        /\ x.tenant = t /\ x.r = r
                        /\ x.accounts = a /\ x.globals = accounting[t].globals

(* workflow_provisioning.go:81-83: retries of the allocation are           *)
(* idempotent.  Whatever is retried or executed late, a tenant's wallet is *)
(* loaded at most once per resource, and no account set that the workflow  *)
(* does not use, left over from an earlier attempt, is ever loaded.        *)
LoadedOnce ==
    \A x \in allocations :
        /\ x.accounts = accountIDs[x.tenant]
        /\ \A y \in allocations : y.tenant = x.tenant /\ y.r = x.r => y = x

(* A cluster whose registration was reported is known to the accounting    *)
(* workflow of a tenant that has one.                                      *)
RegisteredIsKnown ==
    \A c \in NewCluster : reply[c] = "ok" =>
        c \in clusters \cap registered /\ accounting[OwnerOf[c]] # NotRunning

(* What an administrator has removed never comes back: a tenant or cluster *)
(* that was deleted appears in no list again, although the workflow that   *)
(* inserted its row may not have heard of it and try again.                *)
DeletedStaysOut == [][\A x \in (tenants \cup clusters) \ Listed : x \notin Listed']_vars

(* Every call is answered.                                                 *)
CallsEnd == \A x \in Call : reply[x] = "waiting" ~> reply[x] \in {"ok", "error"}
=============================================================================
