------------------------ MODULE ProvisioningProofs -------------------------
(* What RegisterTenant promises, for any number of tenants and clusters,   *)
(* of attempts, faults and restarts.  The promise is about the end of the  *)
(* workflow; the invariant says what holds after each of its activities,   *)
(* and that what an earlier attempt has left behind, or a late one may     *)
(* still do, agrees with the accounts that the workflow has settled on.    *)
EXTENDS Provisioning, TLAPS

Settled == {"allocate", "startAccounting", "done", "failed"}

Step == Activity \cup {"idle", "startAccounting", "signal", "done", "failed"}

WorkflowTypes ==
    /\ step \in [Call -> Step]
    /\ tries \in [Call -> Int]
    /\ reply \in [Call -> {"none", "waiting", "ok", "error"}]
    /\ globalIDs \in [Tenant -> Int]
    /\ accountIDs \in [Tenant -> Int]
    /\ mapping \in [Tenant -> [Resource -> Int]]
    /\ accounting \in [Tenant -> [accounts : Int, globals : Int]]
    /\ starts \in Int
    /\ \A x \in allocations : x.tenant \in Tenant
    /\ \A a \in late : a.t \in Tenant
    /\ \A t \in Tenant : step[t] \notin {"insertCluster", "signal"}
    /\ \A c \in NewCluster : step[c] \in {"idle", "insertCluster", "signal", "done", "failed"}

(* A call is made once, and reports success only when its workflow ends.   *)
CallsOnce ==
    \A x \in Call :
        /\ reply[x] = "none" => step[x] = "idle"
        /\ reply[x] = "ok" => step[x] = "done"

(* What is loaded, or may be loaded late, is on the accounts settled on.   *)
LoadsSettled ==
    /\ \A x \in allocations :
          /\ step[x.tenant] \in Settled
          /\ x.accounts = accountIDs[x.tenant] /\ x.globals = globalIDs[x.tenant]
    /\ \A a \in late : a.step # "createAccounts" =>
          step[a.t] \in Settled /\ a.accounts = accountIDs[a.t]

(* What holds of a tenant when its workflow has come to a step.            *)
ReachedBy(t) ==
    /\ step[t] \in {"createAccounts", "insertMapping", "allocate", "startAccounting", "done"}
          => t \in tenants
    /\ step[t] \in {"insertMapping", "allocate", "startAccounting", "done"}
          => <<t, accountIDs[t]>> \in accounts
    /\ step[t] \in {"idle", "insertTenant", "createAccounts"}
          => \A r \in Resource : mapping[t][r] = NoAccounts
    /\ step[t] = "insertMapping"
          => \A r \in Resource : mapping[t][r] \in {NoAccounts, accountIDs[t]}
    /\ step[t] \in {"allocate", "startAccounting", "done"}
          => \A r \in Resource : mapping[t][r] = accountIDs[t]
    /\ step[t] \in {"startAccounting", "done"}
          => \A r \in Resource : \E x \in allocations : x.tenant = t /\ x.r = r
    /\ step[t] # "done" => accounting[t] = NotRunning
    /\ step[t] = "done" =>
          accounting[t] = [accounts |-> accountIDs[t], globals |-> globalIDs[t]]

Reached == \A t \in Tenant : ReachedBy(t)

OneLoad == \A x, y \in allocations : y.tenant = x.tenant /\ y.r = x.r => y = x

ProvisioningInv == WorkflowTypes /\ CallsOnce /\ LoadsSettled /\ Reached /\ OneLoad

(* What is added to the books agrees with the accounts settled on, and no  *)
(* accounting workflow starts.                                             *)
BooksAgree ==
    /\ tenants \subseteq tenants' /\ accounts \subseteq accounts'
    /\ accounting' = accounting
    /\ mapping' \in [Tenant -> [Resource -> Int]]
    /\ \A t \in Tenant :
          \/ mapping'[t] = mapping[t]
          \/ step[t] = "insertMapping"
                /\ \A r \in Resource : mapping'[t][r] \in {NoAccounts, accountIDs[t]}
    /\ allocations \subseteq allocations'
    /\ \A x \in allocations' : x \in allocations \/
          /\ x.tenant \in Tenant /\ step[x.tenant] \in Settled
          /\ x.accounts = accountIDs[x.tenant] /\ x.globals = globalIDs[x.tenant]
    /\ OneLoad'

(* No call is begun, and one reports success only when its workflow is done. *)
Answers ==
    /\ reply' \in [Call -> {"none", "waiting", "ok", "error"}]
    /\ \A x \in Call : \/ reply'[x] = reply[x]
                       \/ reply[x] # "none" /\ reply'[x] = "error"
                       \/ reply[x] # "none" /\ reply'[x] = "ok" /\ step[x] = "done"

(* A step that leaves every workflow where it is, or fails it.             *)
Slack ==
    /\ step' \in [Call -> Step] /\ tries' \in [Call -> Int] /\ starts' \in Int
    /\ \A x \in Call : step'[x] = step[x] \/ (Active(x) /\ step'[x] = "failed")
    /\ Answers
    /\ UNCHANGED <<globalIDs, accountIDs>>
    /\ BooksAgree
    /\ \A a \in late' : a \in late \/
          /\ a.t \in Tenant
          /\ a.step # "createAccounts" => step[a.t] = "allocate" /\ a.accounts = accountIDs[a.t]

LEMMA SlackInv == ProvisioningInv /\ Slack => ProvisioningInv'
  <1> SUFFICES ASSUME ProvisioningInv, Slack PROVE ProvisioningInv'
    OBVIOUS
  <1>1. WorkflowTypes /\ CallsOnce /\ LoadsSettled /\ Reached
    BY Zenon DEF ProvisioningInv
  <1>2. \A x \in Call : step'[x] = step[x] \/ (Active(x) /\ step'[x] = "failed")
    BY Zenon DEF Slack, BooksAgree
  <1>3. WorkflowTypes'
    <2>1. \A x \in allocations' : x.tenant \in Tenant
      BY Zenon, <1>1 DEF Slack, BooksAgree, WorkflowTypes
    <2>2. \A a \in late' : a.t \in Tenant
      BY Zenon, <1>1 DEF Slack, BooksAgree, WorkflowTypes
    <2>3. /\ \A t \in Tenant : step'[t] \notin {"insertCluster", "signal"}
          /\ \A c \in NewCluster : step'[c] \in {"idle", "insertCluster", "signal", "done", "failed"}
      BY Zenon, <1>1, <1>2 DEF WorkflowTypes, Call
    <2> QED
      BY Zenon, <1>1, <2>1, <2>2, <2>3 DEF Slack, BooksAgree, Answers, WorkflowTypes, Step
  <1>4. CallsOnce'
    BY <1>1, <1>2 DEF Slack, Answers, CallsOnce, Active
  <1>5. LoadsSettled'
    <2>1. \A t \in Tenant : step[t] \in Settled => step'[t] \in Settled
      BY Zenon, <1>2 DEF Settled, Call
    <2>2. ASSUME NEW x \in allocations'
          PROVE  /\ step'[x.tenant] \in Settled
                 /\ x.accounts = accountIDs'[x.tenant] /\ x.globals = globalIDs'[x.tenant]
      BY Zenon, <1>1, <2>1, <2>2 DEF Slack, BooksAgree, LoadsSettled, WorkflowTypes
    <2>3. ASSUME NEW a \in late', a.step # "createAccounts"
          PROVE  step'[a.t] \in Settled /\ a.accounts = accountIDs'[a.t]
      <3>1. a.t \in Tenant /\ step[a.t] \in Settled /\ a.accounts = accountIDs[a.t]
        BY Zenon, <1>1, <2>3 DEF Slack, BooksAgree, LoadsSettled, WorkflowTypes, Settled
      <3> QED
        BY Zenon, <2>1, <3>1 DEF Slack, BooksAgree
    <2> QED
      BY Zenon, <2>2, <2>3 DEF LoadsSettled
  <1>6. Reached'
    <2> SUFFICES ASSUME NEW t \in Tenant, step'[t] = step[t]
                 PROVE  ReachedBy(t)'
      <3>1. ASSUME NEW t \in Tenant, step'[t] # step[t] PROVE ReachedBy(t)'
        <4>1. step'[t] = "failed" /\ step[t] # "done"
          BY Zenon, <1>2, <3>1 DEF Call, Active
        <4>2. accounting'[t] = NotRunning
          BY Zenon, <1>1, <4>1 DEF Reached, ReachedBy, Slack, BooksAgree
        <4> QED
          BY Zenon, <4>1, <4>2 DEF ReachedBy
      <3> QED
        BY Zenon, <3>1 DEF Reached
    <2>1. ReachedBy(t)
      BY Zenon, <1>1 DEF Reached
    <2>2. /\ UNCHANGED <<globalIDs, accountIDs, accounting>>
          /\ tenants \subseteq tenants' /\ accounts \subseteq accounts'
          /\ allocations \subseteq allocations'
          /\ \/ mapping'[t] = mapping[t]
             \/ step[t] = "insertMapping"
                  /\ \A r \in Resource : mapping'[t][r] \in {NoAccounts, accountIDs[t]}
      BY Zenon DEF Slack, BooksAgree
    <2> QED
      BY Zenon, <2>1, <2>2 DEF ReachedBy
  <1> QED
    BY Zenon, <1>3, <1>4, <1>5, <1>6 DEF ProvisioningInv, Slack, BooksAgree

LEMMA ProvisioningBegins == Init => ProvisioningInv
  BY DEF Init, ProvisioningInv, WorkflowTypes, CallsOnce, LoadsSettled, Reached, ReachedBy,
         OneLoad, Settled, Step, NotRunning, NoAccounts, Call, Activity

(* However often the transfers are submitted, a wallet is loaded once.     *)
LEMMA SubmitLoads ==
  ASSUME ProvisioningInv, NEW t \in Tenant, NEW n,
         SubmitAllocationTransfers(t, accountIDs[t], n)
  PROVE  /\ allocations \subseteq allocations'
         /\ \A x \in allocations' : x \in allocations \/
               (x.tenant = t /\ x.accounts = accountIDs[t] /\ x.globals = globalIDs[t])
         /\ \A r \in Resource : \E x \in allocations' : x.tenant = t /\ x.r = r
         /\ OneLoad'
  <1> DEFINE Load(r) == [tenant |-> t, r |-> r, accounts |-> accountIDs[t],
                         globals |-> globalIDs[t], by |-> n]
             Fresh == {q \in Resource : Allocated(t, q, n) = {}}
  <1>1. allocations' = allocations \cup {Load(r) : r \in Fresh}
    BY Zenon DEF SubmitAllocationTransfers
  <1>2. \A r : /\ Load(r).tenant = t /\ Load(r).r = r
              /\ Load(r).accounts = accountIDs[t] /\ Load(r).globals = globalIDs[t]
    OBVIOUS
  <1>3. \A r \in Fresh : \A x \in allocations : ~(x.tenant = t /\ x.r = r)
    BY Zenon DEF Allocated
  <1>4. \A r \in Resource \ Fresh : \E x \in allocations : x.tenant = t /\ x.r = r
    BY Zenon DEF Allocated
  <1>5. OneLoad
    BY Zenon DEF ProvisioningInv
  <1> HIDE DEF Load, Fresh
  <1>6. \A x \in allocations' : x \in allocations \/ \E r \in Fresh : x = Load(r)
    BY Zenon, <1>1
  <1>7. OneLoad'
    <2> SUFFICES ASSUME NEW x \in allocations', NEW y \in allocations',
                        y.tenant = x.tenant, y.r = x.r
                 PROVE  y = x
      BY Zenon DEF OneLoad
    <2>1. CASE x \in allocations /\ y \in allocations
      BY Zenon, <1>5, <2>1 DEF OneLoad
    <2>2. CASE x \notin allocations
      BY <1>2, <1>3, <1>6, <2>2
    <2>3. CASE y \notin allocations
      BY <1>2, <1>3, <1>6, <2>3
    <2> QED
      BY Zenon, <2>1, <2>2, <2>3
  <1>8. \A r \in Resource : \E x \in allocations' : x.tenant = t /\ x.r = r
    BY Zenon, <1>1, <1>2, <1>4
  <1>9. \A x \in allocations' : x \in allocations \/
          (x.tenant = t /\ x.accounts = accountIDs[t] /\ x.globals = globalIDs[t])
    BY Zenon, <1>2, <1>6
  <1> QED
    BY Zenon, <1>1, <1>7, <1>8, <1>9

(* Writing part of the mapping, or all of it, names only the accounts that *)
(* the workflow has settled on.                                            *)
LEMMA MappingNames ==
  ASSUME ProvisioningInv, NEW t \in Tenant, step[t] = "insertMapping",
         NEW R \in SUBSET Resource, InsertTBAccountMapping(t, R)
  PROVE  /\ mapping' \in [Tenant -> [Resource -> Int]]
         /\ \A u \in Tenant \ {t} : mapping'[u] = mapping[u]
         /\ \A r \in Resource : mapping'[t][r] \in {NoAccounts, accountIDs[t]}
         /\ R = Resource => \A r \in Resource : mapping'[t][r] = accountIDs[t]
  <1>1. /\ mapping \in [Tenant -> [Resource -> Int]] /\ accountIDs[t] \in Int
        /\ \A r \in Resource : mapping[t][r] \in {NoAccounts, accountIDs[t]}
    BY ZenonT(60) DEF ProvisioningInv, WorkflowTypes, Reached, ReachedBy
  <1> QED
    BY Zenon, <1>1 DEF InsertTBAccountMapping

LEMMA RetryKeeps ==
  ASSUME ProvisioningInv, NEW x \in Call, Active(x), RetryOrFail(x)
  PROVE  /\ step' \in [Call -> Step] /\ tries' \in [Call -> Int]
         /\ \A y \in Call : step'[y] = step[y] \/ (Active(y) /\ step'[y] = "failed")
         /\ UNCHANGED <<starts, reply, globalIDs, accountIDs>>
  <1>1. step \in [Call -> Step] /\ tries \in [Call -> Int]
    BY Zenon DEF ProvisioningInv, WorkflowTypes, Step
  <1> QED
    BY <1>1 DEF RetryOrFail, AfterError, Step

LEMMA SameBooksAgree ==
  ASSUME ProvisioningInv, tenants' = tenants, mapping' = mapping, accounting' = accounting,
         accounts \subseteq accounts', allocations' = allocations
  PROVE  BooksAgree
  BY Zenon DEF ProvisioningInv, WorkflowTypes, OneLoad, BooksAgree

LEMMA MappingAgrees ==
  ASSUME ProvisioningInv, NEW t \in Tenant, step[t] = "insertMapping",
         NEW R \in SUBSET Resource, InsertTBAccountMapping(t, R)
  PROVE  BooksAgree
  <1>1. UNCHANGED <<tenants, accounts, allocations, accounting>>
    BY Zenon DEF InsertTBAccountMapping, tb
  <1>2. OneLoad'
    BY Zenon, <1>1 DEF ProvisioningInv, OneLoad
  <1> QED
    BY Zenon, <1>1, <1>2, MappingNames DEF BooksAgree

LEMMA LoadsAgree ==
  ASSUME ProvisioningInv, NEW t \in Tenant, step[t] \in Settled, NEW n,
         SubmitAllocationTransfers(t, accountIDs[t], n)
  PROVE  BooksAgree
  <1>1. UNCHANGED <<tenants, mapping, accounts, accounting>>
    BY Zenon DEF SubmitAllocationTransfers, pg
  <1>2. mapping \in [Tenant -> [Resource -> Int]]
    BY Zenon DEF ProvisioningInv, WorkflowTypes
  <1> QED
    BY Zenon, <1>1, <1>2, SubmitLoads DEF BooksAgree

(* An attempt of any activity, answered or not.                            *)
LEMMA ExecutesAgrees ==
  ASSUME ProvisioningInv, NEW x \in Call, step[x] \in Activity, Executes(x)
  PROVE  BooksAgree
  <1>1. x \in Tenant \/ step[x] = "insertCluster"
    BY Zenon DEF ProvisioningInv, WorkflowTypes, Step, Activity, Call
  <1>2. CASE step[x] = "insertTenant"
    <2>1. tenants \subseteq tenants' /\ UNCHANGED <<mapping, accounts, allocations, accounting>>
      BY Zenon, <1>2 DEF Executes, InsertTenant, tb
    <2> QED
      BY Zenon, <2>1 DEF ProvisioningInv, WorkflowTypes, OneLoad, BooksAgree
  <1>3. CASE step[x] = "createAccounts"
    BY Zenon, <1>3, SameBooksAgree DEF Executes, CreateTenantTBAccounts, pg
  <1>4. CASE step[x] = "insertMapping"
    BY Zenon, <1>1, <1>4, MappingAgrees DEF Executes
  <1>5. CASE step[x] = "allocate"
    BY Zenon, <1>1, <1>5, LoadsAgree DEF Executes, Settled
  <1>6. CASE step[x] = "insertCluster"
    BY Zenon, <1>6, SameBooksAgree DEF Executes, InsertCluster, tb
  <1> QED
    BY Zenon, <1>2, <1>3, <1>4, <1>5, <1>6 DEF Activity

LEMMA RetryInv ==
  ASSUME ProvisioningInv, NEW x \in Call, Active(x), RetryOrFail(x), BooksAgree,
         \A a \in late' : a \in late \/
            /\ a.t \in Tenant
            /\ a.step # "createAccounts" => step[a.t] = "allocate" /\ a.accounts = accountIDs[a.t]
  PROVE  ProvisioningInv'
  <1>1. /\ starts \in Int /\ reply \in [Call -> {"none", "waiting", "ok", "error"}]
    BY Zenon DEF ProvisioningInv, WorkflowTypes
  <1>2. Slack
    BY Zenon, <1>1, RetryKeeps DEF Slack, Answers
  <1> QED
    BY Zenon, <1>2, SlackInv

(* Steps that change no workflow.                                          *)
LEMMA StillInv ==
  ASSUME ProvisioningInv, UNCHANGED <<step, tries, globalIDs, accountIDs>>, BooksAgree,
         late' \subseteq late, starts' \in Int, Answers
  PROVE  ProvisioningInv'
  <1>1. step \in [Call -> Step] /\ tries \in [Call -> Int]
    BY Zenon DEF ProvisioningInv, WorkflowTypes, Step
  <1>2. Slack
    BY Zenon, <1>1 DEF Slack
  <1> QED
    BY Zenon, <1>2, SlackInv

(* The workflow of cluster c goes to step s.                               *)
LEMMA ClusterInv ==
  ASSUME ProvisioningInv, NEW c \in NewCluster, NEW s \in {"insertCluster", "signal", "done"},
         step' = [step EXCEPT ![c] = s], tries' = [tries EXCEPT ![c] = 1],
         UNCHANGED <<starts, globalIDs, accountIDs, tenants, mapping, tb, accounting, late>>,
         reply' \in [Call -> {"none", "waiting", "ok", "error"}],
         \A x \in Call : x # c => reply'[x] = reply[x],
         reply'[c] \in {"waiting", "error"}
  PROVE  ProvisioningInv'
  <1>1. /\ WorkflowTypes /\ CallsOnce /\ LoadsSettled /\ Reached /\ OneLoad
    BY Zenon DEF ProvisioningInv
  <1>2. /\ step' \in [Call -> Step] /\ tries' \in [Call -> Int] /\ step'[c] = s
        /\ \A x \in Call : x # c => step'[x] = step[x]
    BY <1>1 DEF WorkflowTypes, Step, Activity, Call
  <1>3. \A t \in Tenant : t # c /\ step'[t] = step[t]
    BY <1>2, ProvisioningAssumption DEF Call
  <1>4. UNCHANGED <<accounts, allocations>>
    BY Zenon DEF tb
  <1>5. WorkflowTypes'
    BY Zenon, <1>1, <1>2, <1>3, <1>4 DEF WorkflowTypes, Step, Call
  <1>6. CallsOnce'
    BY Zenon, <1>1, <1>2 DEF CallsOnce
  <1>7. LoadsSettled'
    BY <1>1, <1>3, <1>4 DEF LoadsSettled, WorkflowTypes
  <1>8. Reached'
    BY <1>1, <1>3, <1>4 DEF Reached, ReachedBy
  <1>9. OneLoad'
    BY Zenon, <1>1, <1>4 DEF OneLoad
  <1> QED
    BY Zenon, <1>5, <1>6, <1>7, <1>8, <1>9 DEF ProvisioningInv

(* The workflow of tenant t goes to step s and touches nothing of another  *)
(* tenant's; what is new of t is left to show.                             *)
LEMMA TenantInv ==
  ASSUME ProvisioningInv, NEW t \in Tenant,
         NEW s \in {"insertTenant", "createAccounts", "insertMapping", "allocate",
                    "startAccounting", "done"},
         step' = [step EXCEPT ![t] = s], tries' = [tries EXCEPT ![t] = 1],
         UNCHANGED <<starts, late>>,
         reply' \in [Call -> {"none", "waiting", "ok", "error"}],
         \A x \in Call : x # t => reply'[x] = reply[x],
         reply'[t] \in {"waiting", "error"},
         globalIDs' \in [Tenant -> Int], accountIDs' \in [Tenant -> Int],
         mapping' \in [Tenant -> [Resource -> Int]],
         accounting' \in [Tenant -> [accounts : Int, globals : Int]],
         \A u \in Tenant : u # t =>
            /\ globalIDs'[u] = globalIDs[u] /\ accountIDs'[u] = accountIDs[u]
            /\ mapping'[u] = mapping[u] /\ accounting'[u] = accounting[u],
         tenants \subseteq tenants', accounts \subseteq accounts',
         allocations \subseteq allocations',
         \A x \in allocations' : x \in allocations \/ x.tenant = t,
         \A x \in allocations' : x.tenant = t =>
            /\ s \in Settled
            /\ x.accounts = accountIDs'[t] /\ x.globals = globalIDs'[t],
         \A a \in late : a.step # "createAccounts" /\ a.t = t =>
            s \in Settled /\ a.accounts = accountIDs'[t],
         OneLoad',
         ReachedBy(t)'
  PROVE  ProvisioningInv'
  <1>1. /\ WorkflowTypes /\ CallsOnce /\ LoadsSettled /\ Reached
    BY Zenon DEF ProvisioningInv
  <1>2. /\ step' \in [Call -> Step] /\ tries' \in [Call -> Int] /\ step'[t] = s
        /\ \A x \in Call : x # t => step'[x] = step[x]
    BY <1>1 DEF WorkflowTypes, Step, Activity, Call
  <1>3. \A c \in NewCluster : c # t
    BY Zenon, ProvisioningAssumption
  <1>4. WorkflowTypes'
    <2>1. \A x \in allocations' : x.tenant \in Tenant
      BY Zenon, <1>1 DEF WorkflowTypes
    <2>2. \A a \in late' : a.t \in Tenant
      BY Zenon, <1>1 DEF WorkflowTypes
    <2>3. /\ \A u \in Tenant : step'[u] \notin {"insertCluster", "signal"}
          /\ \A c \in NewCluster : step'[c] \in {"idle", "insertCluster", "signal", "done", "failed"}
      BY Zenon, <1>1, <1>2, <1>3 DEF WorkflowTypes, Call
    <2> QED
      BY Zenon, <1>1, <1>2, <2>1, <2>2, <2>3 DEF WorkflowTypes, Step
  <1>5. CallsOnce'
    BY SMTT(30), <1>1, <1>2 DEF CallsOnce
  <1>6. LoadsSettled'
    <2>1. ASSUME NEW x \in allocations'
          PROVE  /\ step'[x.tenant] \in Settled
                 /\ x.accounts = accountIDs'[x.tenant] /\ x.globals = globalIDs'[x.tenant]
      <3>1. CASE x.tenant = t
        BY <1>2, <3>1
      <3>2. CASE x.tenant # t
        BY <1>1, <1>2, <3>2 DEF LoadsSettled, WorkflowTypes, Call
      <3> QED
        BY Zenon, <3>1, <3>2
    <2>2. ASSUME NEW a \in late', a.step # "createAccounts"
          PROVE  step'[a.t] \in Settled /\ a.accounts = accountIDs'[a.t]
      BY <1>1, <1>2, <2>2 DEF LoadsSettled, WorkflowTypes, Call
    <2> QED
      BY Zenon, <2>1, <2>2 DEF LoadsSettled
  <1>7. Reached'
    <2>1. ASSUME NEW u \in Tenant, u # t PROVE ReachedBy(u)'
      <3>1. ReachedBy(u)
        BY Zenon, <1>1 DEF Reached
      <3>2. step'[u] = step[u]
        BY Zenon, <1>2, <2>1 DEF Call
      <3>3. /\ globalIDs'[u] = globalIDs[u] /\ accountIDs'[u] = accountIDs[u]
            /\ mapping'[u] = mapping[u] /\ accounting'[u] = accounting[u]
        BY Zenon, <2>1
      <3>4. step'[u] \in {"startAccounting", "done"}
              => \A r \in Resource : \E x \in allocations' : x.tenant = u /\ x.r = r
        BY <3>1, <3>2 DEF ReachedBy
      <3>5. /\ u \in tenants => u \in tenants'
            /\ <<u, accountIDs[u]>> \in accounts => <<u, accountIDs[u]>> \in accounts'
        OBVIOUS
      <3> QED
        BY ONLY ZenonT(60), <3>1, <3>2, <3>3, <3>4, <3>5 DEF ReachedBy
    <2> QED
      BY Zenon, <2>1 DEF Reached
  <1> QED
    BY Zenon, <1>4, <1>5, <1>6, <1>7 DEF ProvisioningInv

LEMMA SucceedsInv ==
  ASSUME ProvisioningInv, NEW x \in Call, Succeeds(x)
  PROVE  ProvisioningInv'
  <1>1. WorkflowTypes /\ CallsOnce /\ LoadsSettled /\ Reached /\ OneLoad
    BY Zenon DEF ProvisioningInv
  <1>2. /\ Active(x) /\ Executes(x)
        /\ step' = [step EXCEPT ![x] = Plan(step[x])] /\ tries' = [tries EXCEPT ![x] = 1]
        /\ UNCHANGED <<starts, reply, globalIDs, late>>
    BY Zenon DEF Succeeds, Following
  <1>3. /\ reply' \in [Call -> {"none", "waiting", "ok", "error"}]
        /\ reply'[x] \in {"waiting", "error"}
    BY Zenon, <1>1, <1>2 DEF WorkflowTypes, CallsOnce, Active
  <1>4. CASE x \in NewCluster
    <2>1. step[x] \in {"insertCluster", "signal"}
      BY Zenon, <1>1, <1>2, <1>4 DEF WorkflowTypes, Step, Active
    <2>2. Plan(step[x]) \in {"signal", "done"}
      BY Zenon, <2>1 DEF Plan
    <2>3. UNCHANGED <<tenants, mapping, tb, accounting, accountIDs>>
      BY Zenon, <2>1 DEF Succeeds, Executes, InsertCluster, SignalRegister, pg
    <2> QED
      BY Zenon, <1>2, <1>3, <1>4, <2>2, <2>3, ClusterInv
  <1>5. CASE x \in Tenant
    <2>1. step[x] \in {"insertTenant", "createAccounts", "insertMapping", "allocate",
                       "startAccounting"}
      BY Zenon, <1>1, <1>2, <1>5 DEF WorkflowTypes, Step, Active, Activity
    <2>2. /\ globalIDs \in [Tenant -> Int] /\ accountIDs \in [Tenant -> Int]
          /\ mapping \in [Tenant -> [Resource -> Int]] /\ tries[x] \in Int
          /\ accounting \in [Tenant -> [accounts : Int, globals : Int]]
      BY Zenon, <1>1 DEF WorkflowTypes
    <2>3. step'[x] = Plan(step[x])
      BY Zenon, <1>1, <1>2 DEF WorkflowTypes
    <2>4. ReachedBy(x)
      BY Zenon, <1>1, <1>5 DEF Reached
    <2>5. step[x] \notin Settled => /\ \A y \in allocations : y.tenant # x
                                   /\ \A a \in late : a.step # "createAccounts" => a.t # x
      BY Zenon, <1>1 DEF LoadsSettled
    <2>6. step[x] \in Settled =>
            /\ \A y \in allocations : y.tenant = x =>
                  y.accounts = accountIDs[x] /\ y.globals = globalIDs[x]
            /\ \A a \in late : a.step # "createAccounts" /\ a.t = x => a.accounts = accountIDs[x]
      BY Zenon, <1>1 DEF LoadsSettled
    <2>7. CASE step[x] = "insertTenant"
      <3>1. Plan(step[x]) = "createAccounts"
        BY Zenon, <2>7 DEF Plan
      <3>2. /\ tenants' = tenants \cup {x}
            /\ UNCHANGED <<mapping, accounts, allocations, accounting, accountIDs>>
        BY Zenon, <2>7 DEF Succeeds, Executes, InsertTenant, tb
      <3>3. ReachedBy(x)'
        BY Zenon, <2>3, <2>4, <2>7, <3>1, <3>2 DEF ReachedBy
      <3>4. OneLoad'
        BY Zenon, <1>1, <3>2 DEF OneLoad
      <3>5. step[x] \notin Settled
        BY Zenon, <2>7 DEF Settled
      <3> QED
        BY Zenon, <1>2, <1>3, <1>5, <2>2, <2>5, <3>1, <3>2, <3>3, <3>4, <3>5, TenantInv
    <2>8. CASE step[x] = "createAccounts"
      <3>1. Plan(step[x]) = "insertMapping"
        BY Zenon, <2>8 DEF Plan
      <3>2. /\ accounts' = accounts \cup {<<x, tries[x]>>}
            /\ UNCHANGED <<tenants, mapping, allocations, accounting, globalIDs>>
        BY Zenon, <2>8 DEF Succeeds, Executes, CreateTenantTBAccounts, pg
      <3>3. /\ accountIDs' \in [Tenant -> Int] /\ accountIDs'[x] = tries[x]
            /\ \A u \in Tenant : u # x => accountIDs'[u] = accountIDs[u]
        BY Zenon, <1>5, <2>2, <2>8 DEF Succeeds
      <3>4. ReachedBy(x)'
        BY Zenon, <2>3, <2>4, <2>8, <3>1, <3>2, <3>3 DEF ReachedBy
      <3>5. OneLoad'
        BY Zenon, <1>1, <3>2 DEF OneLoad
      <3>6. step[x] \notin Settled
        BY Zenon, <2>8 DEF Settled
      <3> QED
        BY Zenon, <1>2, <1>3, <1>5, <2>2, <2>5, <3>1, <3>2, <3>3, <3>4, <3>5, <3>6, TenantInv
    <2>9. CASE step[x] = "insertMapping"
      <3>1. Plan(step[x]) = "allocate"
        BY Zenon, <2>9 DEF Plan
      <3>2. /\ InsertTBAccountMapping(x, Resource)
            /\ UNCHANGED <<tenants, accounts, allocations, accounting, accountIDs>>
        BY Zenon, <2>9 DEF Succeeds, Executes, InsertTBAccountMapping, tb
      <3>3. /\ mapping' \in [Tenant -> [Resource -> Int]]
            /\ \A u \in Tenant : u # x => mapping'[u] = mapping[u]
            /\ \A r \in Resource : mapping'[x][r] = accountIDs[x]
        BY Zenon, <1>5, <2>9, <3>2, MappingNames
      <3>4. ReachedBy(x)'
        BY Zenon, <2>3, <2>4, <2>9, <3>1, <3>2, <3>3 DEF ReachedBy
      <3>5. OneLoad'
        BY Zenon, <1>1, <3>2 DEF OneLoad
      <3>6. step[x] \notin Settled
        BY Zenon, <2>9 DEF Settled
      <3> QED
        BY Zenon, <1>2, <1>3, <1>5, <2>2, <2>5, <3>1, <3>2, <3>3, <3>4, <3>5, <3>6, TenantInv
    <2>10. CASE step[x] = "allocate"
      <3>1. Plan(step[x]) = "startAccounting" /\ "startAccounting" \in Settled
        BY Zenon, <2>10 DEF Plan, Settled
      <3>2. /\ SubmitAllocationTransfers(x, accountIDs[x], tries[x])
            /\ UNCHANGED <<tenants, mapping, accounts, accounting, accountIDs>>
        BY Zenon, <2>10 DEF Succeeds, Executes, SubmitAllocationTransfers, pg
      <3>3. /\ allocations \subseteq allocations'
            /\ \A y \in allocations' : y \in allocations \/
                  (y.tenant = x /\ y.accounts = accountIDs[x] /\ y.globals = globalIDs[x])
            /\ \A r \in Resource : \E y \in allocations' : y.tenant = x /\ y.r = r
            /\ OneLoad'
        BY Zenon, <1>5, <3>2, SubmitLoads
      <3>4. ReachedBy(x)'
        BY Zenon, <2>3, <2>4, <2>10, <3>1, <3>2, <3>3 DEF ReachedBy
      <3>5. step[x] \in Settled
        BY Zenon, <2>10 DEF Settled
      <3>6. \A y \in allocations' : y.tenant = x =>
              y.accounts = accountIDs'[x] /\ y.globals = globalIDs'[x]
        BY ZenonT(60), <1>2, <2>6, <3>2, <3>3, <3>5
      <3> QED
        BY ZenonT(60), <1>2, <1>3, <1>5, <2>2, <2>6, <3>1, <3>2, <3>3, <3>4, <3>5, <3>6, TenantInv
    <2>11. CASE step[x] = "startAccounting"
      <3>1. Plan(step[x]) = "done" /\ "done" \in Settled
        BY Zenon, <2>11 DEF Plan, Settled
      <3>2. /\ accounting' = [accounting EXCEPT ![x] =
                  [accounts |-> accountIDs[x], globals |-> globalIDs[x]]]
            /\ UNCHANGED <<tenants, mapping, accounts, allocations, accountIDs>>
        BY Zenon, <2>4, <2>11 DEF Succeeds, Executes, StartAccounting, ReachedBy, pg, tb
      <3>3. /\ accounting' \in [Tenant -> [accounts : Int, globals : Int]]
            /\ \A u \in Tenant : u # x => accounting'[u] = accounting[u]
            /\ accounting'[x] = [accounts |-> accountIDs[x], globals |-> globalIDs[x]]
        BY Zenon, <1>5, <2>2, <3>2
      <3>4. ReachedBy(x)'
        BY Zenon, <1>2, <2>3, <2>4, <2>11, <3>1, <3>2, <3>3 DEF ReachedBy
      <3>5. OneLoad'
        BY Zenon, <1>1, <3>2 DEF OneLoad
      <3>6. step[x] \in Settled
        BY Zenon, <2>11 DEF Settled
      <3> QED
        BY Zenon, <1>2, <1>3, <1>5, <2>2, <2>6, <3>1, <3>2, <3>3, <3>4, <3>5, <3>6, TenantInv
    <2> QED
      BY Zenon, <2>1, <2>7, <2>8, <2>9, <2>10, <2>11
  <1> QED
    BY Zenon, <1>4, <1>5 DEF Call

LEMMA RegisterTenantInv ==
  ASSUME ProvisioningInv, NEW t \in Tenant, RegisterTenant(t)
  PROVE  ProvisioningInv'
  <1>1. WorkflowTypes /\ CallsOnce /\ LoadsSettled /\ Reached /\ OneLoad
    BY Zenon DEF ProvisioningInv
  <1>2. step[t] = "idle" /\ step[t] \notin Settled
    BY Zenon, <1>1 DEF RegisterTenant, CallsOnce, Settled, Call
  <1>3. /\ step' = [step EXCEPT ![t] = "insertTenant"] /\ tries' = [tries EXCEPT ![t] = 1]
        /\ UNCHANGED <<starts, accountIDs, tenants, mapping, accounts, allocations, accounting, late>>
    BY Zenon DEF RegisterTenant, pg, tb
  <1>4. /\ reply' \in [Call -> {"none", "waiting", "ok", "error"}] /\ reply'[t] = "waiting"
        /\ \A x \in Call : x # t => reply'[x] = reply[x]
    BY Zenon, <1>1 DEF RegisterTenant, WorkflowTypes, Call
  <1>5. /\ globalIDs' \in [Tenant -> Int]
        /\ \A u \in Tenant : u # t => globalIDs'[u] = globalIDs[u]
    BY Zenon, <1>1 DEF RegisterTenant, WorkflowTypes
  <1>6. /\ accountIDs \in [Tenant -> Int] /\ mapping \in [Tenant -> [Resource -> Int]]
        /\ accounting \in [Tenant -> [accounts : Int, globals : Int]]
        /\ step'[t] = "insertTenant"
    BY Zenon, <1>1, <1>3 DEF WorkflowTypes, Call
  <1>7. ReachedBy(t)'
    BY Zenon, <1>1, <1>2, <1>3, <1>6 DEF Reached, ReachedBy
  <1>8. OneLoad'
    BY Zenon, <1>1, <1>3 DEF OneLoad
  <1>9. /\ \A x \in allocations : x.tenant # t
        /\ \A a \in late : a.step # "createAccounts" => a.t # t
    BY Zenon, <1>1, <1>2 DEF LoadsSettled
  <1> QED
    BY Zenon, <1>3, <1>4, <1>5, <1>6, <1>7, <1>8, <1>9, TenantInv

LEMMA ProvisioningStep == ProvisioningInv /\ [Next]_vars => ProvisioningInv'
  <1> SUFFICES ASSUME ProvisioningInv, [Next]_vars PROVE ProvisioningInv'
    OBVIOUS
  <1>1. /\ starts \in Int /\ reply \in [Call -> {"none", "waiting", "ok", "error"}]
    BY Zenon DEF ProvisioningInv, WorkflowTypes
  <1>2. ASSUME NEW x \in Call, step[x] \in Activity PROVE Active(x)
    BY Zenon, <1>2 DEF Active, Activity
  <1>3. ASSUME UNCHANGED <<pg, tb, accounting>> PROVE BooksAgree
    BY Zenon, <1>3, SameBooksAgree DEF pg, tb
  <1>4. ASSUME NEW x \in Call, Succeeds(x) PROVE ProvisioningInv'
    BY Zenon, <1>4, SucceedsInv
  <1>5. ASSUME NEW x \in Call, Refused(x) PROVE ProvisioningInv'
    <2>1. BooksAgree
      BY Zenon, <1>3, <1>5 DEF Refused
    <2> QED
      BY Zenon, <1>5, <2>1, RetryInv DEF Refused
  <1>6. ASSUME NEW x \in Call, AttemptFails(x) PROVE ProvisioningInv'
    <2>1. CASE UNCHANGED <<pg, tb, accounting, registered>>
      BY Zenon, <1>2, <1>3, <1>6, <2>1, RetryInv DEF AttemptFails
    <2>2. CASE step[x] = "insertMapping" /\ \E R \in SUBSET Resource : InsertTBAccountMapping(x, R)
      <3>1. x \in Tenant
        BY Zenon, <2>2 DEF ProvisioningInv, WorkflowTypes, Call
      <3>2. BooksAgree
        BY Zenon, <2>2, <3>1, MappingAgrees
      <3> QED
        BY Zenon, <1>2, <1>6, <3>2, RetryInv DEF AttemptFails
    <2> QED
      BY Zenon, <1>6, <2>1, <2>2 DEF AttemptFails
  <1>7. ASSUME NEW x \in Call, Unanswered(x) PROVE ProvisioningInv'
    <2>1. BooksAgree
      BY Zenon, <1>7, ExecutesAgrees DEF Unanswered
    <2> QED
      BY Zenon, <1>2, <1>7, <2>1, RetryInv DEF Unanswered
  <1>8. ASSUME NEW x \in Call, Replies(x) PROVE ProvisioningInv'
    <2>1. BooksAgree
      BY Zenon, <1>3, <1>8 DEF Replies
    <2>2. Answers
      BY Zenon, <1>1, <1>8 DEF Answers, Replies
    <2> QED
      BY Zenon, <1>1, <1>8, <2>1, <2>2, StillInv DEF Replies, workflow
  <1>9. ASSUME NEW x \in Call, CallerGivesUp(x) PROVE ProvisioningInv'
    <2>1. BooksAgree
      BY Zenon, <1>3, <1>9 DEF CallerGivesUp
    <2>2. Answers
      BY Zenon, <1>1, <1>9 DEF Answers, CallerGivesUp
    <2> QED
      BY Zenon, <1>1, <1>9, <2>1, <2>2, StillInv DEF CallerGivesUp, workflow
  <1>10. ASSUME NEW x \in Call, Delete(x) PROVE ProvisioningInv'
    <2>1. BooksAgree
      BY Zenon, <1>10, SameBooksAgree DEF Delete, tb
    <2>2. Answers
      BY Zenon, <1>1, <1>10 DEF Answers, Delete
    <2> QED
      BY Zenon, <1>1, <1>10, <2>1, <2>2, StillInv DEF Delete, workflow
  <1>11. ASSUME NEW t \in Tenant, RegisterTenant(t) PROVE ProvisioningInv'
    BY Zenon, <1>11, RegisterTenantInv
  <1>12. ASSUME NEW t \in Tenant, TimesOut(t) PROVE ProvisioningInv'
    <2>1. BooksAgree
      BY Zenon, <1>3, <1>12 DEF TimesOut
    <2>2. t \in Call /\ Active(t)
      BY Zenon, <1>12 DEF TimesOut, Active, Call
    <2>3. \A a \in late' : a \in late \/
            /\ a.t \in Tenant
            /\ a.step # "createAccounts" => step[a.t] = "allocate" /\ a.accounts = accountIDs[a.t]
      BY <1>12 DEF TimesOut
    <2> QED
      BY Zenon, <1>12, <2>1, <2>2, <2>3, RetryInv DEF TimesOut
  <1>13. ASSUME NEW c \in NewCluster, RegisterCluster(c) PROVE ProvisioningInv'
    <2>1. /\ reply' \in [Call -> {"none", "waiting", "ok", "error"}] /\ reply'[c] = "waiting"
          /\ \A x \in Call : x # c => reply'[x] = reply[x]
      BY Zenon, <1>1, <1>13 DEF RegisterCluster, Call
    <2> QED
      BY Zenon, <1>13, <2>1, ClusterInv DEF RegisterCluster, pg
  <1>14. ASSUME LateExecutes PROVE ProvisioningInv'
    <2>1. PICK a \in late :
            /\ late' = late \ {a}
            /\ IF a.step = "createAccounts" THEN CreateTenantTBAccounts(a.t, a.n)
               ELSE SubmitAllocationTransfers(a.t, a.accounts, a.n)
      BY Zenon, <1>14 DEF LateExecutes
    <2>2. BooksAgree
      <3>1. CASE a.step = "createAccounts"
        BY Zenon, <2>1, <3>1, SameBooksAgree DEF CreateTenantTBAccounts, pg
      <3>2. CASE a.step # "createAccounts"
        <4>1. a.t \in Tenant /\ step[a.t] \in Settled /\ a.accounts = accountIDs[a.t]
          BY Zenon, <3>2 DEF ProvisioningInv, WorkflowTypes, LoadsSettled
        <4> QED
          BY Zenon, <2>1, <3>2, <4>1, LoadsAgree
      <3> QED
        BY Zenon, <3>1, <3>2
    <2>3. UNCHANGED <<starts, step, tries, globalIDs, accountIDs, reply>>
      BY Zenon, <1>14 DEF LateExecutes, workflow
    <2>4. Answers
      BY Zenon, <1>1, <2>3 DEF Answers
    <2> QED
      BY Zenon, <1>1, <2>1, <2>2, <2>3, <2>4, StillInv
  <1>15. ASSUME ServerRestarts PROVE ProvisioningInv'
    <2>1. BooksAgree
      BY Zenon, <1>3, <1>15 DEF ServerRestarts
    <2>2. Answers
      BY Zenon, <1>1, <1>15 DEF Answers, ServerRestarts
    <2> QED
      BY <1>1, <1>15, <2>1, <2>2, StillInv DEF ServerRestarts, workflow
  <1>16. ASSUME UNCHANGED vars PROVE ProvisioningInv'
    <2>1. BooksAgree
      BY Zenon, <1>3, <1>16 DEF vars
    <2>2. Answers
      BY Zenon, <1>1, <1>16 DEF Answers, vars
    <2> QED
      BY Zenon, <1>1, <1>16, <2>1, <2>2, StillInv DEF vars, workflow
  <1> QED
    BY Zenon, <1>4, <1>5, <1>6, <1>7, <1>8, <1>9, <1>10, <1>11, <1>12, <1>13, <1>14, <1>15, <1>16
       DEF Next, Workflow

LEMMA ProvisioningInvariant == Spec => []ProvisioningInv
  BY ProvisioningBegins, ProvisioningStep, PTL DEF Spec

(* RegisterTenant reports success only for a tenant that is whole: however *)
(* many attempts of its activities failed, lost their answer or were       *)
(* executed late, and however often the server restarted meanwhile.        *)
THEOREM ProvisioningCorrect == Spec => []ProvisionedIsWhole
  <1>1. ProvisioningInv => ProvisionedIsWhole
    <2> SUFFICES ASSUME ProvisioningInv, NEW t \in Tenant, reply[t] = "ok"
                 PROVE  ProvisionedIsWhole!(t)!2
      BY Zenon DEF ProvisionedIsWhole
    <2>1. step[t] = "done"
      BY Zenon DEF ProvisioningInv, CallsOnce, Call
    <2>2. /\ t \in tenants /\ <<t, accountIDs[t]>> \in accounts
          /\ \A r \in Resource : mapping[t][r] = accountIDs[t]
          /\ \A r \in Resource : \E x \in allocations : x.tenant = t /\ x.r = r
          /\ accounting[t] = [accounts |-> accountIDs[t], globals |-> globalIDs[t]]
      BY Zenon, <2>1 DEF ProvisioningInv, Reached, ReachedBy
    <2>3. \A x \in allocations : x.tenant = t =>
            x.accounts = accountIDs[t] /\ x.globals = globalIDs[t]
      BY Zenon DEF ProvisioningInv, LoadsSettled
    <2> QED
      BY SMTT(30), <2>2, <2>3
  <1> QED
    BY <1>1, ProvisioningInvariant, PTL

(* A tenant's wallet is loaded once per resource, and only on the accounts *)
(* the workflow uses: what the derived id of the allocation transfer is    *)
(* for, whatever attempt comes late.                                       *)
THEOREM AllocationCorrect == Spec => []LoadedOnce
  <1>1. ProvisioningInv => LoadedOnce
    BY Zenon DEF ProvisioningInv, LoadsSettled, OneLoad, LoadedOnce
  <1> QED
    BY <1>1, ProvisioningInvariant, PTL

-----------------------------------------------------------------------------
(* The rows, the deletions and the registered clusters only grow, and no   *)
(* accounting workflow that runs is replaced.                              *)
Grows ==
    /\ tenants \subseteq tenants' /\ clusters \subseteq clusters' /\ deleted \subseteq deleted'
    /\ registered \subseteq registered'
    /\ \A t \in Tenant : accounting[t] # NotRunning => accounting'[t] = accounting[t]

LEMMA ExecutesGrows ==
  ASSUME ProvisioningInv, NEW x \in Call, Executes(x)
  PROVE  Grows
  <1>1. CASE step[x] \in {"createAccounts", "allocate"}
    BY ZenonT(60), <1>1 DEF Executes, CreateTenantTBAccounts, SubmitAllocationTransfers, pg, Grows
  <1>2. CASE step[x] = "insertMapping"
    BY ZenonT(60), <1>2 DEF Executes, InsertTBAccountMapping, Grows
  <1>3. CASE step[x] \in {"insertTenant", "insertCluster"}
    BY Zenon, <1>3 DEF Executes, InsertTenant, InsertCluster, Grows
  <1>4. CASE step[x] = "startAccounting"
    <2>1. x \in Tenant
      BY Zenon, <1>4 DEF ProvisioningInv, WorkflowTypes, Call
    <2>2. accounting \in [Tenant -> [accounts : Int, globals : Int]]
      BY Zenon DEF ProvisioningInv, WorkflowTypes
    <2>3. \A t \in Tenant : accounting[t] # NotRunning => accounting'[t] = accounting[t]
      BY ZenonT(60), <1>4, <2>1, <2>2 DEF Executes, StartAccounting
    <2> QED
      BY Zenon, <1>4, <2>3 DEF Executes, StartAccounting, pg, Grows
  <1>5. CASE step[x] = "signal"
    BY Zenon, <1>5 DEF Executes, SignalRegister, pg, Grows
  <1> QED
    BY Zenon, <1>1, <1>2, <1>3, <1>4, <1>5 DEF Executes

LEMMA StepGrows ==
  ASSUME ProvisioningInv, [Next]_vars
  PROVE  Grows
  <1>1. ASSUME UNCHANGED <<pg, accounting, registered>> PROVE Grows
    BY Zenon, <1>1 DEF pg, Grows
  <1>2. ASSUME NEW x \in Call, Succeeds(x) \/ Unanswered(x) PROVE Grows
    BY Zenon, <1>2, ExecutesGrows DEF Succeeds, Unanswered
  <1>3. ASSUME NEW x \in Call, Refused(x) \/ Replies(x) \/ CallerGivesUp(x) PROVE Grows
    BY Zenon, <1>1, <1>3 DEF Refused, Replies, CallerGivesUp
  <1>4. ASSUME NEW x \in Call, AttemptFails(x) PROVE Grows
    <2>1. CASE UNCHANGED <<pg, tb, accounting, registered>>
      BY Zenon, <1>1, <2>1
    <2>2. CASE \E R \in SUBSET Resource : InsertTBAccountMapping(x, R)
      BY Zenon, <2>2 DEF InsertTBAccountMapping, Grows
    <2> QED
      BY Zenon, <1>4, <2>1, <2>2 DEF AttemptFails
  <1>5. ASSUME NEW x \in Call, Delete(x) PROVE Grows
    BY Zenon, <1>5 DEF Delete, Grows
  <1>6. ASSUME NEW t \in Tenant, RegisterTenant(t) \/ TimesOut(t) PROVE Grows
    BY Zenon, <1>1, <1>6 DEF RegisterTenant, TimesOut
  <1>7. ASSUME NEW c \in NewCluster, RegisterCluster(c) PROVE Grows
    BY Zenon, <1>1, <1>7 DEF RegisterCluster
  <1>8. CASE LateExecutes
    BY Zenon, <1>1, <1>8 DEF LateExecutes, CreateTenantTBAccounts, SubmitAllocationTransfers
  <1>9. CASE ServerRestarts
    BY Zenon, <1>1, <1>9 DEF ServerRestarts
  <1>10. CASE UNCHANGED vars
    BY Zenon, <1>1, <1>10 DEF vars
  <1> QED
    BY Zenon, <1>2, <1>3, <1>4, <1>5, <1>6, <1>7, <1>8, <1>9, <1>10 DEF Next, Workflow

(* What an administrator has deleted appears in no list again, whatever    *)
(* the workflows that inserted the rows go on to do, however late: nothing *)
(* takes back the mark of a deletion (clusters.sql.go, tenants.sql.go).    *)
THEOREM DeletionsLast == Spec => DeletedStaysOut
  <1>1. Grows => \A x \in (tenants \cup clusters) \ Listed : x \notin Listed'
    BY Zenon DEF Grows, Listed, ListTenants, ListStaleClusters, ListClusters
  <1>2. ProvisioningInv /\ [Next]_vars =>
            [\A x \in (tenants \cup clusters) \ Listed : x \notin Listed']_vars
    BY Zenon, <1>1, StepGrows
  <1> QED
    BY <1>2, ProvisioningInvariant, PTL DEF Spec, DeletedStaysOut

(* What holds of a cluster when its workflow has come to a step.           *)
ClusterReached ==
    \A c \in NewCluster :
        /\ step[c] = "signal" => c \in clusters
        /\ step[c] = "done" => c \in clusters \cap registered /\ accounting[OwnerOf[c]] # NotRunning

(* The workflow of a cluster goes on only by its activity's success.       *)
LEMMA ClusterMoves ==
  ASSUME ProvisioningInv, [Next]_vars, NEW c \in NewCluster
  PROVE  step'[c] \in {step[c], "insertCluster", "failed"} \/ Succeeds(c)
  <1>1. /\ step \in [Call -> Step] /\ c \in Call /\ \A t \in Tenant : t # c
    BY Zenon, ProvisioningAssumption DEF ProvisioningInv, WorkflowTypes, Call
  <1>2. ASSUME NEW x \in Call, Succeeds(x), x # c PROVE step'[c] = step[c]
    BY Zenon, <1>1, <1>2 DEF Succeeds
  <1>3. ASSUME NEW x \in Call, RetryOrFail(x) PROVE step'[c] \in {step[c], "failed"}
    BY Zenon, <1>1, <1>3 DEF RetryOrFail, AfterError
  <1>4. ASSUME NEW x \in Call, Refused(x) \/ AttemptFails(x) \/ Unanswered(x)
        PROVE  step'[c] \in {step[c], "failed"}
    BY Zenon, <1>3, <1>4 DEF Refused, AttemptFails, Unanswered
  <1>5. ASSUME NEW x \in Call, Replies(x) \/ CallerGivesUp(x) \/ Delete(x)
        PROVE  step'[c] = step[c]
    BY Zenon, <1>5 DEF Replies, CallerGivesUp, Delete, workflow
  <1>6. ASSUME NEW t \in Tenant, RegisterTenant(t) PROVE step'[c] = step[c]
    BY Zenon, <1>1, <1>6 DEF RegisterTenant
  <1>7. ASSUME NEW t \in Tenant, TimesOut(t) PROVE step'[c] \in {step[c], "failed"}
    BY Zenon, <1>3, <1>7 DEF TimesOut, Call
  <1>8. ASSUME NEW d \in NewCluster, RegisterCluster(d)
        PROVE  step'[c] \in {step[c], "insertCluster"}
    BY Zenon, <1>1, <1>8 DEF RegisterCluster
  <1>9. CASE LateExecutes \/ ServerRestarts \/ UNCHANGED vars
    BY Zenon, <1>9 DEF LateExecutes, ServerRestarts, vars, workflow
  <1> QED
    BY Zenon, <1>2, <1>4, <1>5, <1>6, <1>7, <1>8, <1>9 DEF Next, Workflow

LEMMA ClusterStep ==
  ASSUME ProvisioningInv, ClusterReached, [Next]_vars
  PROVE  ClusterReached'
  <1> SUFFICES ASSUME NEW c \in NewCluster
               PROVE  /\ step'[c] = "signal" => c \in clusters'
                      /\ step'[c] = "done" => /\ c \in clusters' \cap registered'
                                              /\ accounting'[OwnerOf[c]] # NotRunning
    BY Zenon DEF ClusterReached
  <1>1. Grows /\ OwnerOf[c] \in Tenant
    BY Zenon, StepGrows, ProvisioningAssumption
  <1>2. CASE step'[c] \in {step[c], "insertCluster", "failed"}
    BY Zenon, <1>1, <1>2 DEF ClusterReached, Grows
  <1>3. CASE Succeeds(c)
    <2>1. /\ step[c] \in {"insertCluster", "signal"} /\ step'[c] = Plan(step[c]) /\ Executes(c)
      BY Zenon, <1>3 DEF ProvisioningInv, WorkflowTypes, Succeeds, Active, Following, Call
    <2>2. CASE step[c] = "insertCluster"
      <3>1. step'[c] = "signal" /\ c \in clusters'
        BY Zenon, <2>1, <2>2 DEF Plan, Executes, InsertCluster
      <3> QED
        BY Zenon, <3>1
    <2>3. CASE step[c] = "signal"
      <3>1. c \in registered' /\ accounting[OwnerOf[c]] # NotRunning
        BY Zenon, <2>1, <2>3 DEF Executes, SignalRegister
      <3>2. c \in clusters' /\ accounting'[OwnerOf[c]] # NotRunning
        BY Zenon, <1>1, <2>3, <3>1 DEF ClusterReached, Grows
      <3>3. step'[c] = "done"
        BY Zenon, <2>1, <2>3 DEF Plan
      <3> QED
        BY Zenon, <3>1, <3>2, <3>3
    <2> QED
      BY Zenon, <2>1, <2>2, <2>3
  <1> QED
    BY Zenon, <1>2, <1>3, ClusterMoves

(* RegisterCluster reports success only for a cluster whose row is there   *)
(* and that was signalled to an accounting workflow of its tenant, which   *)
(* still runs: whatever failed, was retried or was deleted meanwhile.      *)
THEOREM RegistrationCorrect == Spec => []RegisteredIsKnown
  <1>1. Init => ClusterReached
    BY Zenon DEF Init, ClusterReached, Call
  <1>2. ProvisioningInv /\ ClusterReached => RegisteredIsKnown
    BY Zenon DEF ProvisioningInv, CallsOnce, ClusterReached, RegisteredIsKnown, Call
  <1>3. ProvisioningInv /\ ClusterReached /\ [Next]_vars => ClusterReached'
    BY Zenon, ClusterStep
  <1> QED
    BY <1>1, <1>2, <1>3, ProvisioningInvariant, PTL DEF Spec

-----------------------------------------------------------------------------
(* The types, with their bounds.                                           *)

(* Where the workflows and the calls are.                                  *)
FlowTypes ==
    /\ step \in [Call -> Step]
    /\ tries \in [Call -> 0..MaxAttempts]
    /\ reply \in [Call -> {"none", "waiting", "ok", "error"}]
    /\ globalIDs \in [Tenant -> 0..MaxStarts]
    /\ accountIDs \in [Tenant -> Accounts]

Load == [tenant : Tenant, r : Resource, accounts : Accounts, globals : 0..MaxStarts, by : Accounts]

(* What PostgreSQL, TigerBeetle and the accounting workflows hold.         *)
BookTypes ==
    /\ tenants \subseteq Tenant /\ clusters \subseteq NewCluster
    /\ deleted \subseteq tenants \cup clusters
    /\ mapping \in [Tenant -> [Resource -> Accounts]]
    /\ accounts \subseteq Tenant \X Accounts
    /\ allocations \subseteq Load
    /\ accounting \in [Tenant -> [accounts : Accounts, globals : 0..MaxStarts]]
    /\ registered \subseteq NewCluster

LateTypes ==
    late \subseteq [t : Tenant, step : {"createAccounts", "allocate"}, n : Accounts,
                    accounts : Accounts]

Counts == starts \in 1..MaxStarts /\ faults \in 0..MaxFaults

BoundedTypes == FlowTypes /\ BookTypes /\ LateTypes /\ Counts

LEMMA SameBooks ==
  ASSUME BookTypes, UNCHANGED <<pg, tb, accounting, registered>>
  PROVE  BookTypes'
  BY Zenon DEF BookTypes, pg, tb

LEMMA SameFlow ==
  ASSUME FlowTypes, UNCHANGED <<workflow, reply>>
  PROVE  FlowTypes'
  BY Zenon DEF FlowTypes, workflow

LEMMA LoadTypes ==
  ASSUME FlowTypes, BookTypes, NEW t \in Tenant, NEW account \in Accounts, NEW n \in Accounts,
         SubmitAllocationTransfers(t, account, n)
  PROVE  BookTypes'
  <1>1. globalIDs[t] \in 0..MaxStarts
    BY Zenon DEF FlowTypes
  <1>2. \A r \in Resource : [tenant |-> t, r |-> r, accounts |-> account, globals |-> globalIDs[t],
                            by |-> n] \in Load
    BY <1>1 DEF Load
  <1>3. allocations' \subseteq Load
    BY Zenon, <1>2 DEF SubmitAllocationTransfers, BookTypes
  <1> QED
    BY Zenon, <1>3 DEF SubmitAllocationTransfers, BookTypes, pg

LEMMA AccountTypes ==
  ASSUME BookTypes, NEW t \in Tenant, NEW n \in Accounts, CreateTenantTBAccounts(t, n)
  PROVE  BookTypes'
  <1>1. <<t, n>> \in Tenant \X Accounts
    BY Zenon
  <1> QED
    BY Zenon, <1>1 DEF CreateTenantTBAccounts, BookTypes, pg

LEMMA MappingTypes ==
  ASSUME FlowTypes, BookTypes, NEW t \in Tenant, NEW R, InsertTBAccountMapping(t, R)
  PROVE  BookTypes'
  <1>1. accountIDs[t] \in Accounts /\ mapping \in [Tenant -> [Resource -> Accounts]]
    BY Zenon DEF FlowTypes, BookTypes
  <1>2. mapping' \in [Tenant -> [Resource -> Accounts]]
    BY Zenon, <1>1 DEF InsertTBAccountMapping
  <1> QED
    BY Zenon, <1>2 DEF InsertTBAccountMapping, BookTypes, tb

(* An activity runs in the workflow of a tenant or of a cluster.           *)
LEMMA ExecutesTypes ==
  ASSUME WorkflowTypes, FlowTypes, BookTypes, NEW x \in Call, Executes(x)
  PROVE  BookTypes'
  <1>1. tries[x] \in Accounts
    BY Zenon DEF FlowTypes, Accounts
  <1>2. /\ step[x] \in {"insertTenant", "createAccounts", "insertMapping", "allocate",
                        "startAccounting"} => x \in Tenant
        /\ step[x] \in {"insertCluster", "signal"} => x \in NewCluster
    BY Zenon DEF WorkflowTypes, Call
  <1>3. CASE step[x] = "insertTenant" /\ InsertTenant(x)
    BY Zenon, <1>2, <1>3 DEF InsertTenant, BookTypes, tb
  <1>4. CASE step[x] = "createAccounts" /\ CreateTenantTBAccounts(x, tries[x])
    BY Zenon, <1>1, <1>2, <1>4, AccountTypes
  <1>5. CASE step[x] = "insertMapping" /\ InsertTBAccountMapping(x, Resource)
    BY Zenon, <1>2, <1>5, MappingTypes
  <1>6. CASE step[x] = "allocate" /\ SubmitAllocationTransfers(x, accountIDs[x], tries[x])
    <2>1. x \in Tenant /\ accountIDs[x] \in Accounts
      BY Zenon, <1>2, <1>6 DEF FlowTypes
    <2> QED
      BY Zenon, <1>1, <1>6, <2>1, LoadTypes
  <1>7. CASE step[x] = "startAccounting" /\ StartAccounting(x)
    <2>1. x \in Tenant /\ accountIDs[x] \in Accounts /\ globalIDs[x] \in 0..MaxStarts
      BY Zenon, <1>2, <1>7 DEF FlowTypes
    <2>2. [accounts |-> accountIDs[x], globals |-> globalIDs[x]]
            \in [accounts : Accounts, globals : 0..MaxStarts]
      BY Zenon, <2>1
    <2>3. accounting' \in [Tenant -> [accounts : Accounts, globals : 0..MaxStarts]]
      BY Zenon, <1>7, <2>1, <2>2 DEF StartAccounting, BookTypes
    <2> QED
      BY Zenon, <1>7, <2>3 DEF StartAccounting, BookTypes, pg, tb
  <1>8. CASE step[x] = "insertCluster" /\ InsertCluster(x)
    BY Zenon, <1>2, <1>8 DEF InsertCluster, BookTypes, tb
  <1>9. CASE step[x] = "signal" /\ SignalRegister(x)
    BY Zenon, <1>2, <1>9 DEF SignalRegister, BookTypes, pg, tb
  <1> QED
    BY Zenon, <1>3, <1>4, <1>5, <1>6, <1>7, <1>8, <1>9 DEF Executes

(* Another attempt is made only when one is left.                          *)
LEMMA RetryTypes ==
  ASSUME FlowTypes, NEW x \in Call, RetryOrFail(x)
  PROVE  FlowTypes'
  <1>1. step \in [Call -> Step] /\ tries \in [Call -> 0..MaxAttempts] /\ tries[x] \in 0..MaxAttempts
    BY Zenon DEF FlowTypes
  <1>2. UNCHANGED <<reply, globalIDs, accountIDs>>
    BY Zenon DEF RetryOrFail
  <1>3. CASE Exhausted(x)
    <2>1. step' = [step EXCEPT ![x] = "failed"] /\ UNCHANGED tries
      BY Zenon, <1>3 DEF RetryOrFail, AfterError
    <2>2. step' \in [Call -> Step]
      BY Zenon, <1>1, <2>1 DEF Step
    <2> QED
      BY Zenon, <1>2, <2>1, <2>2 DEF FlowTypes
  <1>4. CASE ~Exhausted(x)
    <2>1. tries' = [tries EXCEPT ![x] = tries[x] + 1] /\ UNCHANGED step /\ ~(tries[x] >= MaxAttempts)
      BY Zenon, <1>4 DEF RetryOrFail, Exhausted
    <2>2. MaxAttempts \in Nat
      BY ProvisioningAssumption
    <2>3. tries[x] + 1 \in 0..MaxAttempts
      BY <1>1, <2>1, <2>2
    <2>4. tries' \in [Call -> 0..MaxAttempts]
      BY Zenon, <1>1, <2>1, <2>3
    <2> QED
      BY Zenon, <1>2, <2>1, <2>4 DEF FlowTypes
  <1> QED
    BY Zenon, <1>3, <1>4

LEMMA FaultCounts == ASSUME Counts, Fault, UNCHANGED starts PROVE Counts'
  <1>1. faults \in 0..MaxFaults /\ MaxFaults \in Nat /\ faults < MaxFaults /\ faults' = faults + 1
    BY Zenon, ProvisioningAssumption DEF Counts, Fault
  <1>2. faults' \in 0..MaxFaults
    BY <1>1
  <1> QED
    BY Zenon, <1>2 DEF Counts

LEMMA SucceedsTypes ==
  ASSUME ProvisioningInv, BoundedTypes, NEW x \in Call, Succeeds(x)
  PROVE  BoundedTypes'
  <1>1. WorkflowTypes /\ FlowTypes /\ BookTypes /\ LateTypes /\ Counts
    BY Zenon DEF ProvisioningInv, BoundedTypes
  <1>2. BookTypes'
    BY Zenon, <1>1, ExecutesTypes DEF Succeeds
  <1>3. /\ step' = [step EXCEPT ![x] = Plan(step[x])] /\ tries' = [tries EXCEPT ![x] = 1]
        /\ accountIDs' = IF step[x] = "createAccounts"
                         THEN [accountIDs EXCEPT ![x] = tries[x]] ELSE accountIDs
        /\ UNCHANGED <<starts, reply, globalIDs, late, faults>>
    BY Zenon DEF Succeeds, Following
  <1>4. step[x] \in Step /\ Active(x)
    BY Zenon, <1>1 DEF FlowTypes, Succeeds
  <1>5. Plan(step[x]) \in Step
    BY Zenon, <1>4 DEF Plan, Step, Activity, Active
  <1>6. 1 \in 0..MaxAttempts
    BY ProvisioningAssumption
  <1>7. accountIDs' \in [Tenant -> Accounts]
    <2>1. tries[x] \in Accounts
      BY Zenon, <1>1 DEF FlowTypes, Accounts
    <2> QED
      BY Zenon, <1>1, <1>3, <2>1 DEF FlowTypes
  <1>8. FlowTypes'
    BY Zenon, <1>1, <1>3, <1>5, <1>6, <1>7 DEF FlowTypes
  <1> QED
    BY Zenon, <1>1, <1>2, <1>3, <1>8 DEF BoundedTypes, LateTypes, Counts

LEMMA BoundedStep == ProvisioningInv /\ BoundedTypes /\ [Next]_vars => BoundedTypes'
  <1> SUFFICES ASSUME ProvisioningInv, BoundedTypes, [Next]_vars PROVE BoundedTypes'
    OBVIOUS
  <1>1. WorkflowTypes /\ FlowTypes /\ BookTypes /\ LateTypes /\ Counts
    BY Zenon DEF ProvisioningInv, BoundedTypes
  <1>2. ASSUME NEW x \in Call, Refused(x) PROVE BoundedTypes'
    <2>1. FlowTypes' /\ BookTypes'
      BY Zenon, <1>1, <1>2, RetryTypes, SameBooks DEF Refused
    <2> QED
      BY Zenon, <1>1, <1>2, <2>1 DEF BoundedTypes, Refused, RetryOrFail, LateTypes, Counts
  <1>3. ASSUME NEW x \in Call, AttemptFails(x) PROVE BoundedTypes'
    <2>1. FlowTypes' /\ Counts' /\ LateTypes'
      BY Zenon, <1>1, <1>3, RetryTypes, FaultCounts DEF AttemptFails, RetryOrFail, LateTypes
    <2>2. BookTypes'
      <3>1. step[x] = "insertMapping" => x \in Tenant
        BY Zenon, <1>1 DEF WorkflowTypes, Call
      <3> QED
        BY Zenon, <1>1, <1>3, <3>1, SameBooks, MappingTypes DEF AttemptFails
    <2> QED
      BY Zenon, <2>1, <2>2 DEF BoundedTypes
  <1>4. ASSUME NEW x \in Call, Unanswered(x) PROVE BoundedTypes'
    <2>1. FlowTypes' /\ Counts' /\ LateTypes'
      BY Zenon, <1>1, <1>4, RetryTypes, FaultCounts DEF Unanswered, RetryOrFail, LateTypes
    <2>2. BookTypes'
      BY Zenon, <1>1, <1>4, ExecutesTypes DEF Unanswered
    <2> QED
      BY Zenon, <2>1, <2>2 DEF BoundedTypes
  <1>5. ASSUME NEW x \in Call, Replies(x) \/ CallerGivesUp(x) PROVE BoundedTypes'
    <2>1. /\ reply' \in [Call -> {"none", "waiting", "ok", "error"}]
          /\ UNCHANGED <<starts, workflow, pg, tb, accounting, registered, late, faults>>
      BY Zenon, <1>1, <1>5 DEF Replies, CallerGivesUp, FlowTypes
    <2>2. FlowTypes'
      BY Zenon, <1>1, <2>1 DEF FlowTypes, workflow
    <2> QED
      BY Zenon, <1>1, <2>1, <2>2, SameBooks DEF BoundedTypes, LateTypes, Counts
  <1>6. ASSUME NEW x \in Call, Delete(x) PROVE BoundedTypes'
    <2>1. BookTypes'
      BY Zenon, <1>1, <1>6 DEF Delete, BookTypes, tb
    <2> QED
      BY Zenon, <1>1, <1>6, <2>1, SameFlow DEF Delete, BoundedTypes, LateTypes, Counts
  <1>7. ASSUME NEW x \in Call, RegisterTenant(x) \/ RegisterCluster(x) PROVE BoundedTypes'
    <2>1. /\ 1 \in 0..MaxAttempts
      BY ProvisioningAssumption
    <2>2. starts \in 0..MaxStarts
      BY <1>1, ProvisioningAssumption DEF Counts
    <2>3. FlowTypes'
      <3>1. step' \in [Call -> Step]
        BY Zenon, <1>1, <1>7 DEF RegisterTenant, RegisterCluster, FlowTypes, Step, Activity
      <3>2. reply' \in [Call -> {"none", "waiting", "ok", "error"}]
        BY Zenon, <1>1, <1>7 DEF RegisterTenant, RegisterCluster, FlowTypes
      <3>3. tries' \in [Call -> 0..MaxAttempts]
        BY Zenon, <1>1, <1>7, <2>1 DEF RegisterTenant, RegisterCluster, FlowTypes
      <3>4. globalIDs' \in [Tenant -> 0..MaxStarts] /\ accountIDs' \in [Tenant -> Accounts]
        <4>1. globalIDs \in [Tenant -> 0..MaxStarts] /\ accountIDs \in [Tenant -> Accounts]
          BY Zenon, <1>1 DEF FlowTypes
        <4>2. globalIDs' \in {globalIDs, [globalIDs EXCEPT ![x] = starts]} /\ accountIDs' = accountIDs
          BY Zenon, <1>7 DEF RegisterTenant, RegisterCluster
        <4>3. [globalIDs EXCEPT ![x] = starts] \in [Tenant -> 0..MaxStarts]
          BY Zenon, <2>2, <4>1
        <4> QED
          BY Zenon, <4>1, <4>2, <4>3
      <3> QED
        BY Zenon, <3>1, <3>2, <3>3, <3>4 DEF FlowTypes
    <2>4. UNCHANGED <<starts, pg, tb, accounting, registered, late, faults>>
      BY Zenon, <1>7 DEF RegisterTenant, RegisterCluster
    <2> QED
      BY Zenon, <1>1, <2>3, <2>4, SameBooks DEF BoundedTypes, LateTypes, Counts
  <1>8. ASSUME NEW t \in Tenant, TimesOut(t) PROVE BoundedTypes'
    <2>1. t \in Call /\ accountIDs[t] \in Accounts
      BY Zenon, <1>1 DEF Call, FlowTypes
    <2>2. tries[t] \in Accounts
      BY Zenon, <1>1, <2>1 DEF FlowTypes, Accounts
    <2>3. FlowTypes' /\ Counts' /\ BookTypes'
      BY Zenon, <1>1, <1>8, <2>1, RetryTypes, FaultCounts, SameBooks DEF TimesOut, RetryOrFail
    <2>4. [t |-> t, step |-> step[t], n |-> tries[t], accounts |-> accountIDs[t]]
            \in [t : Tenant, step : {"createAccounts", "allocate"}, n : Accounts, accounts : Accounts]
      BY Zenon, <1>8, <2>1, <2>2 DEF TimesOut
    <2>5. LateTypes'
      BY Zenon, <1>1, <1>8, <2>4 DEF TimesOut, LateTypes
    <2> QED
      BY Zenon, <2>3, <2>5 DEF BoundedTypes
  <1>9. CASE LateExecutes
    <2>1. PICK a \in late :
             /\ late' = late \ {a}
             /\ IF a.step = "createAccounts" THEN CreateTenantTBAccounts(a.t, a.n)
                ELSE SubmitAllocationTransfers(a.t, a.accounts, a.n)
      BY Zenon, <1>9 DEF LateExecutes
    <2>2. a.t \in Tenant /\ a.n \in Accounts /\ a.accounts \in Accounts
      BY Zenon, <1>1 DEF LateTypes
    <2>3. BookTypes'
      BY Zenon, <1>1, <2>1, <2>2, AccountTypes, LoadTypes
    <2>4. FlowTypes' /\ Counts'
      BY Zenon, <1>1, <1>9, SameFlow DEF LateExecutes, Counts, CreateTenantTBAccounts
    <2>5. LateTypes'
      BY Zenon, <1>1, <2>1 DEF LateTypes
    <2> QED
      BY Zenon, <2>3, <2>4, <2>5 DEF BoundedTypes
  <1>10. CASE ServerRestarts
    <2>1. reply' \in [Call -> {"none", "waiting", "ok", "error"}]
      BY Zenon, <1>1, <1>10 DEF ServerRestarts, FlowTypes
    <2>2. FlowTypes'
      BY Zenon, <1>1, <1>10, <2>1 DEF ServerRestarts, FlowTypes, workflow
    <2>3. starts' \in 1..MaxStarts
      BY <1>1, <1>10, ProvisioningAssumption DEF ServerRestarts, Counts
    <2> QED
      BY Zenon, <1>1, <1>10, <2>2, <2>3, SameBooks
         DEF ServerRestarts, BoundedTypes, LateTypes, Counts
  <1>11. CASE UNCHANGED vars
    BY Zenon, <1>1, <1>11, SameBooks, SameFlow DEF vars, BoundedTypes, LateTypes, Counts
  <1> QED
    BY Zenon, <1>2, <1>3, <1>4, <1>5, <1>6, <1>7, <1>8, <1>9, <1>10, <1>11, SucceedsTypes
       DEF Next, Workflow, Call

(* No activity is attempted more often than its retry policy allows, no    *)
(* account set is created by an attempt beyond it, and what is deleted was *)
(* there: the types of the module, with their bounds.                      *)
THEOREM ProvisioningTypes == Spec => []TypeOK
  <1>1. Init => BoundedTypes
    <2> SUFFICES ASSUME Init PROVE BoundedTypes
      OBVIOUS
    <2>1. 0 \in 0..MaxAttempts /\ 0 \in 0..MaxStarts /\ 1 \in 1..MaxStarts /\ 0 \in 0..MaxFaults
      BY ProvisioningAssumption
    <2>2. FlowTypes /\ LateTypes /\ Counts
      BY Zenon, <2>1 DEF Init, FlowTypes, LateTypes, Counts, Step, Accounts, NoAccounts
    <2>3. BookTypes
      BY Zenon, <2>1 DEF Init, BookTypes, Accounts, NoAccounts, NotRunning
    <2> QED
      BY Zenon, <2>2, <2>3 DEF BoundedTypes
  <1>2. BoundedTypes => TypeOK
    BY Zenon DEF BoundedTypes, FlowTypes, BookTypes, LateTypes, Counts, TypeOK, Step, Load
  <1> QED
    BY <1>1, <1>2, BoundedStep, ProvisioningInvariant, PTL DEF Spec
=============================================================================
