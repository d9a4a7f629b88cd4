-------------------------- MODULE ModelRouter_proofs --------------------------
(***************************************************************************)
(* Proofs about ModelRouter: leases are exact, no task tries a model twice *)
(* and no failure shortens a cool-down, for any number of tasks, any       *)
(* models and limits, and any contents of the configuration file.          *)
(***************************************************************************)
EXTENDS ModelRouter, FiniteSetTheorems, TLAPS

\* The tasks that hold a lease of m, and those of them that are not pinned.
Holders(m) == {t \in Tasks : lease[t] = m}
Sharers(m) == {t \in Tasks : lease[t] = m /\ ~Pinned(t)}

\* TypeOK without the bound on inFlight, which follows from the counts.
StateTypes ==
  /\ config \in Configs
  /\ inFlight \in [Models -> Nat]
  /\ cool \in [Models -> Nat]
  /\ groupCool \in [Groups -> Nat]
  /\ disabled \subseteq Models

TaskTypes ==
  /\ pc \in [Tasks -> {"new", "choosing", "sleeping", "running", "closing", "done"}]
  /\ tier \in [Tasks -> Tiers]
  /\ waited \in [Tasks -> Nat]
  /\ due \subseteq Tasks
  /\ excluded \in [Tasks -> SUBSET Models]
  /\ lease \in [Tasks -> Models \cup {None}]
  /\ switches \in [Tasks -> Nat]
  /\ tools \in [Tasks -> BOOLEAN]
  /\ aborted \subseteq Tasks

PlansKept == \A t \in Tasks : plan[t] \in Plans[t]

\* A task holds a lease from the return of acquire until its run is over.
LeaseWhileRunning == \A t \in Tasks : lease[t] # None <=> pc[t] \in {"running", "closing"}

FiniteExcluded == \A t \in Tasks : IsFiniteSet(excluded[t])

IInv ==
  /\ StateTypes /\ TaskTypes /\ PlansKept
  /\ LeaseWhileRunning /\ LeasesExact
  /\ FiniteExcluded /\ TriesEachOnce

-----------------------------------------------------------------------------
(* The operators.                                                          *)

LEMMA PlanTypes ==
  ASSUME PlansKept, NEW t \in Tasks
  PROVE  plan[t].tier \in Tiers /\ plan[t].pinned \in Models \cup {None}
<1>1. plan[t] \in [tier : Tiers, pinned : Models \cup {None}, preferred : Models \cup {None}]
  BY RouterAssumption DEF PlansKept
<1> QED BY <1>1

LEMMA RuleTypes ==
  ASSUME StateTypes, TaskTypes, NEW t \in Tasks
  PROVE  /\ config[tier[t]] \in TierConfigs
         /\ NextTier(t) \in Tiers
         /\ \A i \in DOMAIN Candidates(t) : Candidates(t)[i] \in Models
<1>1. config[tier[t]] \in TierConfigs
  BY RouterAssumption DEF StateTypes, TaskTypes
<1>2. config[tier[t]].escalateTo \in Tiers /\ config[tier[t]].candidates \in Seq(Models)
  BY <1>1 DEF TierConfigs
<1> QED BY <1>1, <1>2 DEF NextTier, Candidates

\* The longer of two cool-downs.
LEMMA LongerCoolDown ==
  ASSUME NEW left \in Nat, NEW k \in Nat
  PROVE  /\ Prolonged(left, k) \in Nat
         /\ Prolonged(left, k) >= left
         /\ Prolonged(left, k) >= k
<1>1. \E x \in {left, k} : \A y \in {left, k} : x >= y
  OBVIOUS
<1>2. /\ Max({left, k}) \in {left, k}
      /\ \A y \in {left, k} : Max({left, k}) >= y
  BY <1>1 DEF Max
<1> QED BY <1>2 DEF Prolonged

\* A failure keeps the types and lengthens cool-downs.
LEMMA FailureReported ==
  ASSUME StateTypes, NEW m \in Models, NEW class \in Classes, ReportIfSwitchable(m, class)
  PROVE  /\ cool' \in [Models -> Nat] /\ groupCool' \in [Groups -> Nat]
         /\ disabled' \subseteq Models
         /\ \A n \in Models : cool'[n] >= cool[n]
         /\ \A g \in Groups : groupCool'[g] >= groupCool[g]
<1>t. /\ cool \in [Models -> Nat] /\ groupCool \in [Groups -> Nat] /\ disabled \subseteq Models
      /\ Group[m] \in Groups
  BY DEF StateTypes, Groups
<1>s. /\ \A n \in Models : cool[n] \in Nat /\ cool[n] >= cool[n]
      /\ \A g \in Groups : groupCool[g] \in Nat /\ groupCool[g] >= groupCool[g]
  BY <1>t
<1>1. CASE UNCHANGED <<cool, groupCool>> /\ disabled' \subseteq Models
  BY <1>1, <1>t, <1>s
<1>2. CASE ~(UNCHANGED <<cool, groupCool>> /\ disabled' \subseteq Models)
  <2>1. class \in Switchable \ Disabling
    BY <1>2, <1>t DEF ReportIfSwitchable, Report
  <2>2. PICK k \in CoolDown[class] :
          /\ cool' = [cool EXCEPT ![m] = Prolonged(@, k)]
          /\ IF class = "quota_exhausted"
             THEN groupCool' = [groupCool EXCEPT ![Group[m]] = Prolonged(@, k)]
             ELSE UNCHANGED groupCool
    BY <1>2, <1>t, <2>1 DEF ReportIfSwitchable, Report
  <2>3. k \in Nat
    BY <2>1, RouterAssumption
  <2>4. UNCHANGED disabled
    BY <2>1 DEF ReportIfSwitchable, Report
  <2>5. /\ Prolonged(cool[m], k) \in Nat /\ Prolonged(cool[m], k) >= cool[m]
        /\ Prolonged(groupCool[Group[m]], k) \in Nat
        /\ Prolonged(groupCool[Group[m]], k) >= groupCool[Group[m]]
    BY <1>t, <2>3, LongerCoolDown
  <2>6. cool' \in [Models -> Nat] /\ \A n \in Models : cool'[n] >= cool[n]
    BY <2>2, <2>5, <1>t, <1>s
  <2>7. groupCool' \in [Groups -> Nat] /\ \A g \in Groups : groupCool'[g] >= groupCool[g]
    BY <2>2, <2>5, <1>t, <1>s
  <2> QED BY <2>4, <2>6, <2>7, <1>t
<1> QED BY <1>1, <1>2

-----------------------------------------------------------------------------
(* The leases of a model.                                                  *)

LEMMA HoldersFinite ==
  ASSUME NEW m
  PROVE  /\ IsFiniteSet(Holders(m)) /\ IsFiniteSet(Sharers(m))
         /\ Cardinality(Holders(m)) \in Nat /\ Cardinality(Sharers(m)) \in Nat
         /\ Cardinality(Holders(m)) <= Cardinality(Tasks)
         /\ Cardinality(Sharers(m)) <= Cardinality(Holders(m))
<1>1. IsFiniteSet(Tasks) /\ Holders(m) \subseteq Tasks /\ Sharers(m) \subseteq Holders(m)
  BY RouterAssumption DEF Holders, Sharers
<1>2. IsFiniteSet(Holders(m)) /\ Cardinality(Holders(m)) <= Cardinality(Tasks)
  BY <1>1, FS_Subset
<1>3. IsFiniteSet(Sharers(m)) /\ Cardinality(Sharers(m)) <= Cardinality(Holders(m))
  BY <1>1, <1>2, FS_Subset
<1> QED BY <1>2, <1>3, FS_CardinalityType

\* LeasesExact in terms of the two sets.
LEMMA ExactForm ==
  LeasesExact <=> \A m \in Models : /\ inFlight[m] = Cardinality(Holders(m))
                                    /\ Cardinality(Sharers(m)) <= Capacity[m]
BY DEF LeasesExact, Holders, Sharers

LEMMA ExactFormPrime ==
  LeasesExact' <=> \A m \in Models : /\ inFlight'[m] = Cardinality(Holders(m)')
                                     /\ Cardinality(Sharers(m)') <= Capacity[m]
BY DEF LeasesExact, Holders, Sharers

LEMMA SameLeases ==
  ASSUME LeasesExact, UNCHANGED <<inFlight, lease, plan>>
  PROVE  LeasesExact'
BY DEF LeasesExact, Pinned

\* A task that takes a lease of m: below the capacity, unless it is pinned.
LEMMA LeaseTaken ==
  ASSUME StateTypes, TaskTypes, LeasesExact, NEW t \in Tasks, NEW m \in Models,
         lease[t] = None, Pinned(t) \/ ~Full(m),
         inFlight' = [inFlight EXCEPT ![m] = @ + 1],
         lease' = [lease EXCEPT ![t] = m], plan' = plan
  PROVE  LeasesExact'
<1>t. inFlight \in [Models -> Nat] /\ lease \in [Tasks -> Models \cup {None}] /\ None \notin Models
  BY RouterAssumption DEF StateTypes, TaskTypes
<1>1. SUFFICES ASSUME NEW n \in Models
               PROVE  /\ inFlight'[n] = Cardinality(Holders(n)')
                      /\ Cardinality(Sharers(n)') <= Capacity[n]
  BY ExactFormPrime
<1>2. inFlight[n] = Cardinality(Holders(n)) /\ Cardinality(Sharers(n)) <= Capacity[n]
  BY ExactForm
<1>3. CASE n # m
  <2>1. inFlight'[n] = inFlight[n] /\ Holders(n)' = Holders(n) /\ Sharers(n)' = Sharers(n)
    BY <1>3, <1>t DEF Holders, Sharers, Pinned
  <2> QED BY <2>1, <1>2
<1>4. CASE n = m
  <2>1. t \notin Holders(m) /\ t \notin Sharers(m)
    BY <1>t DEF Holders, Sharers
  <2>2. /\ Holders(m)' = Holders(m) \cup {t}
        /\ Sharers(m)' = IF Pinned(t) THEN Sharers(m) ELSE Sharers(m) \cup {t}
    BY <1>t DEF Holders, Sharers, Pinned
  <2>3. Cardinality(Holders(m)') = Cardinality(Holders(m)) + 1
    BY <2>1, <2>2, HoldersFinite, FS_AddElement
  <2>4. ~Pinned(t) => Cardinality(Sharers(m)') = Cardinality(Sharers(m)) + 1
    BY <2>1, <2>2, HoldersFinite, FS_AddElement
  <2>5. inFlight'[m] = Cardinality(Holders(m)) + 1
    BY <1>2, <1>4, <1>t
  <2>6. Cardinality(Sharers(m)') <= Capacity[m]
    <3>1. CASE Pinned(t)
      BY <3>1, <2>2, <1>2, <1>4
    <3>2. CASE ~Pinned(t)
      <4>1. ~(inFlight[m] >= Capacity[m]) /\ Capacity[m] \in Nat
        BY <3>2, RouterAssumption DEF Full
      <4>2. /\ Cardinality(Holders(m)) \in Nat /\ Cardinality(Sharers(m)) \in Nat
            /\ Cardinality(Sharers(m)) <= Cardinality(Holders(m))
        BY HoldersFinite
      <4> QED BY <4>1, <4>2, <3>2, <2>4, <1>2, <1>4
    <3> QED BY <3>1, <3>2
  <2> QED BY <2>3, <2>5, <2>6, <1>4
<1> QED BY <1>3, <1>4

\* A task that gives its lease back.
LEMMA LeaseGivenBack ==
  ASSUME StateTypes, TaskTypes, LeasesExact, NEW t \in Tasks, lease[t] \in Models,
         inFlight' = Released(t), lease' = [lease EXCEPT ![t] = None], plan' = plan
  PROVE  LeasesExact' /\ inFlight' \in [Models -> Nat]
<1>t. inFlight \in [Models -> Nat] /\ lease \in [Tasks -> Models \cup {None}] /\ None \notin Models
  BY RouterAssumption DEF StateTypes, TaskTypes
<1>m. PICK m \in Models : m = lease[t]
  OBVIOUS
<1>1. /\ t \in Holders(m)
      /\ Holders(m)' = Holders(m) \ {t} /\ Sharers(m)' = Sharers(m) \ {t}
  BY <1>m, <1>t DEF Holders, Sharers, Pinned
<1>2. /\ inFlight[m] = Cardinality(Holders(m)) /\ Cardinality(Sharers(m)) <= Capacity[m]
      /\ Capacity[m] \in Nat
  BY ExactForm, RouterAssumption
<1>3. Cardinality(Holders(m)') = Cardinality(Holders(m)) - 1 /\ Cardinality(Holders(m)') \in Nat
  <2>1. IsFiniteSet(Holders(m)) /\ IsFiniteSet(Holders(m) \ {t})
    BY HoldersFinite, FS_RemoveElement
  <2> QED BY <2>1, <1>1, FS_RemoveElement, FS_CardinalityType
<1>4. Cardinality(Sharers(m)') <= Capacity[m]
  <2>1. /\ IsFiniteSet(Sharers(m)) /\ Sharers(m)' \subseteq Sharers(m)
    BY <1>1, HoldersFinite
  <2>2. /\ IsFiniteSet(Sharers(m)')
        /\ Cardinality(Sharers(m)') <= Cardinality(Sharers(m))
    BY <2>1, FS_Subset
  <2>3. Cardinality(Sharers(m)) \in Nat /\ Cardinality(Sharers(m)') \in Nat
    BY <2>1, <2>2, FS_CardinalityType
  <2> QED BY <2>2, <2>3, <1>2
<1>5. inFlight' = [inFlight EXCEPT ![m] = @ - 1]
  BY <1>m DEF Released
<1>6. inFlight'[m] = Cardinality(Holders(m)')
  BY <1>2, <1>3, <1>5, <1>t
<1>7. inFlight' \in [Models -> Nat]
  BY <1>3, <1>5, <1>6, <1>t
<1>8. ASSUME NEW n \in Models, n # m
      PROVE  /\ inFlight'[n] = Cardinality(Holders(n)')
             /\ Cardinality(Sharers(n)') <= Capacity[n]
  <2>1. inFlight'[n] = inFlight[n] /\ Holders(n)' = Holders(n) /\ Sharers(n)' = Sharers(n)
    BY <1>5, <1>8, <1>m, <1>t DEF Holders, Sharers, Pinned
  <2> QED BY <2>1, ExactForm
<1>9. \A n \in Models : /\ inFlight'[n] = Cardinality(Holders(n)')
                        /\ Cardinality(Sharers(n)') <= Capacity[n]
  BY <1>4, <1>6, <1>8
<1> QED BY <1>7, <1>9, ExactFormPrime

-----------------------------------------------------------------------------
(* Steps that take and give back no lease.                                 *)

Places == {"new", "choosing", "sleeping", "running", "closing", "done"}
WithLease == {"running", "closing"}

LEMMA InitIInv == Init => IInv
<1> SUFFICES ASSUME Init PROVE IInv
  OBVIOUS
<1>1. PlansKept
  BY DEF Init, PlansKept
<1>2. \A t \in Tasks : plan[t].tier \in Tiers
  BY <1>1, PlanTypes
<1>3. StateTypes
  BY DEF Init, StateTypes
<1>4. TaskTypes
  BY <1>2 DEF Init, TaskTypes
<1>5. LeaseWhileRunning
  BY DEF Init, LeaseWhileRunning
<1>6. LeasesExact
  <2>1. SUFFICES ASSUME NEW m \in Models
                 PROVE  /\ inFlight[m] = Cardinality(Holders(m))
                        /\ Cardinality(Sharers(m)) <= Capacity[m]
    BY ExactForm
  <2>2. Holders(m) = {} /\ Sharers(m) = {}
    BY RouterAssumption DEF Init, Holders, Sharers
  <2>3. Capacity[m] \in Nat
    BY RouterAssumption
  <2> QED BY <2>2, <2>3, FS_EmptySet DEF Init
<1>7. FiniteExcluded /\ TriesEachOnce
  BY FS_EmptySet, RouterAssumption DEF Init, FiniteExcluded, TriesEachOnce
<1> QED BY <1>1, <1>3, <1>4, <1>5, <1>6, <1>7 DEF IInv

\* A step that leaves leases, models given up and plans alone, and after which
\* the same tasks have a lease.
LEMMA QuietStep ==
  ASSUME IInv, StateTypes', TaskTypes',
         UNCHANGED <<inFlight, plan, excluded, lease, switches>>,
         \A t \in Tasks : /\ pc'[t] \in WithLease <=> pc[t] \in WithLease
                          /\ pc'[t] = "running" => pc[t] = "running"
  PROVE  IInv'
<1>1. PlansKept'
  BY DEF IInv, PlansKept
<1>2. LeaseWhileRunning'
  BY DEF IInv, LeaseWhileRunning, WithLease
<1>3. LeasesExact'
  BY SameLeases DEF IInv
<1>4. FiniteExcluded' /\ TriesEachOnce'
  BY DEF IInv, FiniteExcluded, TriesEachOnce
<1> QED BY <1>1, <1>2, <1>3, <1>4 DEF IInv

LEMMA Types ==
  ASSUME TaskTypes
  PROVE  /\ pc \in [Tasks -> Places] /\ tier \in [Tasks -> Tiers] /\ waited \in [Tasks -> Nat]
         /\ due \subseteq Tasks /\ excluded \in [Tasks -> SUBSET Models]
         /\ lease \in [Tasks -> Models \cup {None}] /\ switches \in [Tasks -> Nat]
         /\ tools \in [Tasks -> BOOLEAN] /\ aborted \subseteq Tasks
BY DEF TaskTypes, Places

LEMMA ToTypes ==
  ASSUME pc' \in [Tasks -> Places], tier' \in [Tasks -> Tiers], waited' \in [Tasks -> Nat],
         due' \subseteq Tasks, excluded' \in [Tasks -> SUBSET Models],
         lease' \in [Tasks -> Models \cup {None}], switches' \in [Tasks -> Nat],
         tools' \in [Tasks -> BOOLEAN], aborted' \subseteq Tasks
  PROVE  TaskTypes'
BY DEF TaskTypes, Places

LEMMA ForgetTypes ==
  ASSUME TaskTypes, PlansKept, NEW t \in Tasks, Forget(t)
  PROVE  tier' \in [Tasks -> Tiers] /\ waited' \in [Tasks -> Nat] /\ due' \subseteq Tasks
<1>1. plan[t].tier \in Tiers
  BY PlanTypes
<1> QED BY <1>1, Types DEF Forget

LEMMA EnterTypes ==
  ASSUME TaskTypes, PlansKept, NEW t \in Tasks, EnterAcquire(t)
  PROVE  /\ tier' \in [Tasks -> Tiers] /\ waited' \in [Tasks -> Nat] /\ due' \subseteq Tasks
         /\ pc' \in [Tasks -> Places] /\ tools' \in [Tasks -> BOOLEAN]
<1>1. Forget(t) /\ pc \in [Tasks -> Places] /\ tools \in [Tasks -> BOOLEAN]
  BY Types DEF EnterAcquire
<1> QED BY <1>1, ForgetTypes DEF EnterAcquire, Places

\* Steps of acquire that return no lease, and what may happen around them.
LEMMA AcquireGoesOn ==
  ASSUME IInv, NEW t \in Tasks,
         Sleep(t) \/ Escalate(t) \/ Refuse(t) \/ Wake(t) \/ Begin(t) \/ RunTool(t) \/ Abort(t)
  PROVE  IInv'
<1>t. StateTypes /\ TaskTypes /\ PlansKept
  BY DEF IInv
<1>u. /\ pc \in [Tasks -> Places] /\ tier \in [Tasks -> Tiers] /\ waited \in [Tasks -> Nat]
      /\ due \subseteq Tasks /\ excluded \in [Tasks -> SUBSET Models]
      /\ lease \in [Tasks -> Models \cup {None}] /\ switches \in [Tasks -> Nat]
      /\ tools \in [Tasks -> BOOLEAN] /\ aborted \subseteq Tasks
  BY <1>t, Types
<1>v. UNCHANGED <<router, plan, excluded, lease, switches>>
  BY DEF Sleep, Escalate, Refuse, Wake, Begin, RunTool, Abort, router, attempt
<1>1. StateTypes'
  BY <1>t, <1>v DEF StateTypes, router
<1>2. /\ pc' \in [Tasks -> Places]
      /\ \A s \in Tasks : /\ pc'[s] \in WithLease <=> pc[s] \in WithLease
                          /\ pc'[s] = "running" => pc[s] = "running"
  BY <1>u DEF Sleep, Escalate, Refuse, Wake, Begin, RunTool, Abort, EnterAcquire, Choosing,
              Running, Places, WithLease
<1>3. tier' \in [Tasks -> Tiers] /\ waited' \in [Tasks -> Nat] /\ due' \subseteq Tasks
  <2>1. CASE Sleep(t) \/ Wake(t) \/ RunTool(t)
    BY <2>1, <1>u DEF Sleep, Wake, RunTool, choice
  <2>2. CASE Escalate(t)
    BY <2>2, <1>u, <1>t, RuleTypes DEF Escalate
  <2>3. CASE Refuse(t) \/ Abort(t) \/ Begin(t)
    <3>1. Forget(t)
      BY <2>3 DEF Refuse, Abort, Begin, EnterAcquire
    <3> QED BY <3>1, <1>t, ForgetTypes
  <2> QED BY <2>1, <2>2, <2>3
<1>4. tools' \in [Tasks -> BOOLEAN]
  BY <1>u DEF Sleep, Escalate, Refuse, Wake, Begin, RunTool, Abort, EnterAcquire, attempt
<1>5. aborted' \subseteq Tasks
  BY <1>u DEF Sleep, Escalate, Refuse, Wake, Begin, RunTool, Abort
<1>6. TaskTypes'
  BY <1>u, <1>v, <1>2, <1>3, <1>4, <1>5, ToTypes
<1> QED BY <1>1, <1>2, <1>6, <1>v, QuietStep DEF router

LEMMA EnvironmentKeeps ==
  ASSUME IInv, Tick \/ (\E c \in Configs : Reload(c)) \/ (\E m \in Models : Enable(m))
  PROVE  IInv'
<1>t. StateTypes /\ TaskTypes
  BY DEF IInv
<1>u. /\ pc \in [Tasks -> Places] /\ tier \in [Tasks -> Tiers] /\ waited \in [Tasks -> Nat]
      /\ due \subseteq Tasks /\ excluded \in [Tasks -> SUBSET Models]
      /\ lease \in [Tasks -> Models \cup {None}] /\ switches \in [Tasks -> Nat]
      /\ tools \in [Tasks -> BOOLEAN] /\ aborted \subseteq Tasks
  BY <1>t, Types
<1>v. UNCHANGED <<inFlight, plan, pc, tier, excluded, lease, switches, tools, aborted>>
  BY DEF Tick, Reload, Enable, choice, attempt
<1>1. StateTypes'
  <2>1. CASE Tick
    BY <2>1, <1>t DEF Tick, StateTypes, Countdown
  <2>2. CASE \E c \in Configs : Reload(c)
    BY <2>2, <1>t DEF Reload, StateTypes
  <2>3. CASE \E m \in Models : Enable(m)
    BY <2>3, <1>t DEF Enable, StateTypes
  <2> QED BY <2>1, <2>2, <2>3
<1>2. waited' \in [Tasks -> Nat] /\ due' \subseteq Tasks
  BY <1>u DEF Tick, Reload, Enable, choice
<1>3. TaskTypes'
  BY <1>u, <1>v, <1>2, ToTypes
<1> QED BY <1>1, <1>3, <1>v, QuietStep

-----------------------------------------------------------------------------
(* Steps that take a lease or give one back.                               *)

LEMMA AcquireReturns ==
  ASSUME IInv, NEW t \in Tasks, LeasePinned(t) \/ LeaseFirst(t)
  PROVE  IInv'
<1>t. StateTypes /\ TaskTypes /\ PlansKept
  BY DEF IInv
<1>u. /\ pc \in [Tasks -> Places] /\ tier \in [Tasks -> Tiers] /\ waited \in [Tasks -> Nat]
      /\ due \subseteq Tasks /\ excluded \in [Tasks -> SUBSET Models]
      /\ lease \in [Tasks -> Models \cup {None}] /\ switches \in [Tasks -> Nat]
      /\ tools \in [Tasks -> BOOLEAN] /\ aborted \subseteq Tasks
  BY <1>t, Types
<1>1. PICK m \in Models : TakeLease(t, m) /\ Usable(t, m) /\ (Pinned(t) \/ ~Full(m))
  <2>1. CASE LeasePinned(t)
    <3>1. plan[t].pinned \in Models
      BY <2>1, <1>t, PlanTypes DEF LeasePinned, Pinned
    <3> QED BY <2>1, <3>1 DEF LeasePinned
  <2>2. CASE LeaseFirst(t)
    <3>1. PICK i \in Free(t) : TakeLease(t, Candidates(t)[i])
      BY <2>2 DEF LeaseFirst
    <3>2. i \in DOMAIN Candidates(t) /\ Usable(t, Candidates(t)[i]) /\ ~Full(Candidates(t)[i])
      BY <3>1 DEF Free, Reached
    <3> QED BY <3>1, <3>2, <1>t, RuleTypes
  <2> QED BY <2>1, <2>2
<1>2. /\ pc[t] = "choosing" /\ lease[t] = None
  BY DEF IInv, LeaseWhileRunning, LeasePinned, LeaseFirst, Choosing
<1>3. /\ inFlight' = [inFlight EXCEPT ![m] = @ + 1] /\ lease' = [lease EXCEPT ![t] = m]
      /\ pc' = [pc EXCEPT ![t] = "running"]
      /\ UNCHANGED <<config, cool, groupCool, disabled, excluded, switches, tools, aborted, plan>>
  BY <1>1 DEF TakeLease
<1>4. StateTypes'
  BY <1>t, <1>3 DEF StateTypes
<1>5. TaskTypes'
  <2>1. tier' \in [Tasks -> Tiers] /\ waited' \in [Tasks -> Nat] /\ due' \subseteq Tasks
    BY <1>1, <1>t, ForgetTypes DEF TakeLease
  <2>2. pc' \in [Tasks -> Places] /\ lease' \in [Tasks -> Models \cup {None}]
    BY <1>3, <1>u DEF Places
  <2> QED BY <1>u, <1>3, <2>1, <2>2, ToTypes
<1>6. PlansKept'
  BY <1>t, <1>3 DEF PlansKept
<1>7. LeaseWhileRunning'
  BY <1>3, <1>u, RouterAssumption DEF IInv, LeaseWhileRunning
<1>8. LeasesExact'
  BY <1>t, <1>1, <1>2, <1>3, LeaseTaken DEF IInv
<1>9. FiniteExcluded' /\ TriesEachOnce'
  BY <1>1, <1>3, <1>u DEF IInv, FiniteExcluded, TriesEachOnce, Usable
<1> QED BY <1>4, <1>5, <1>6, <1>7, <1>8, <1>9 DEF IInv

\* The lease of a task that runs.
LEMMA RunningTask ==
  ASSUME IInv, NEW t \in Tasks, pc[t] \in WithLease
  PROVE  lease[t] \in Models
<1>1. lease[t] \in Models \cup {None} /\ lease[t] # None
  BY Types DEF IInv, LeaseWhileRunning, WithLease
<1> QED BY <1>1

\* The model given up is a new one, so the switches are still the models.
LEMMA ModelGivenUp ==
  ASSUME IInv, NEW t \in Tasks, GiveUpModel(t), SwitchesLeft(t), pc[t] = "running"
  PROVE  /\ excluded' \in [Tasks -> SUBSET Models] /\ switches' \in [Tasks -> Nat]
         /\ FiniteExcluded'
         /\ \A s \in Tasks : /\ switches'[s] = Cardinality(excluded'[s])
                             /\ switches'[s] <= MaxSwitches
                             /\ s # t => excluded'[s] = excluded[s]
<1>u. excluded \in [Tasks -> SUBSET Models] /\ switches \in [Tasks -> Nat] /\ lease[t] \in Models
  BY Types, RunningTask DEF IInv, WithLease
<1>1. /\ excluded' = [excluded EXCEPT ![t] = @ \cup {lease[t]}]
      /\ switches' = [switches EXCEPT ![t] = @ + 1]
  BY DEF GiveUpModel
<1>2. /\ IsFiniteSet(excluded[t]) /\ lease[t] \notin excluded[t]
      /\ switches[t] = Cardinality(excluded[t])
  BY DEF IInv, FiniteExcluded, TriesEachOnce
<1>3. /\ IsFiniteSet(excluded[t] \cup {lease[t]})
      /\ Cardinality(excluded[t] \cup {lease[t]}) = switches[t] + 1
  BY <1>2, FS_AddElement
<1>4. switches[t] + 1 <= MaxSwitches
  BY <1>u, RouterAssumption DEF SwitchesLeft
<1>5. excluded' \in [Tasks -> SUBSET Models] /\ switches' \in [Tasks -> Nat]
  BY <1>1, <1>u
<1>6. FiniteExcluded'
  BY <1>1, <1>3, <1>u DEF IInv, FiniteExcluded
<1>7. \A s \in Tasks : /\ switches'[s] = Cardinality(excluded'[s])
                       /\ switches'[s] <= MaxSwitches
                       /\ s # t => excluded'[s] = excluded[s]
  BY <1>1, <1>3, <1>4, <1>u DEF IInv, TriesEachOnce
<1> QED BY <1>5, <1>6, <1>7

\* A task whose lease is given back goes to a place without one.
LEMMA LeaseLeft ==
  ASSUME IInv, NEW t \in Tasks, pc[t] \in WithLease,
         inFlight' = Released(t), lease' = [lease EXCEPT ![t] = None],
         UNCHANGED <<config, plan>>,
         cool' \in [Models -> Nat], groupCool' \in [Groups -> Nat], disabled' \subseteq Models,
         tier' \in [Tasks -> Tiers], waited' \in [Tasks -> Nat], due' \subseteq Tasks,
         tools' \in [Tasks -> BOOLEAN], aborted' \subseteq Tasks,
         NEW p \in Places \ WithLease, pc' = [pc EXCEPT ![t] = p],
         \/ UNCHANGED <<excluded, switches>>
         \/ GiveUpModel(t) /\ SwitchesLeft(t) /\ pc[t] = "running"
  PROVE  IInv'
<1>t. StateTypes /\ TaskTypes /\ PlansKept
  BY DEF IInv
<1>u. /\ pc \in [Tasks -> Places] /\ excluded \in [Tasks -> SUBSET Models]
      /\ lease \in [Tasks -> Models \cup {None}] /\ switches \in [Tasks -> Nat]
  BY <1>t, Types
<1>1. lease[t] \in Models
  BY <1>u DEF IInv, LeaseWhileRunning, WithLease
<1>2. LeasesExact' /\ inFlight' \in [Models -> Nat]
  BY <1>t, <1>1, LeaseGivenBack DEF IInv
<1>3. StateTypes'
  BY <1>t, <1>2 DEF StateTypes
<1>4. pc' \in [Tasks -> Places] /\ lease' \in [Tasks -> Models \cup {None}]
  BY <1>u
<1>5. LeaseWhileRunning'
  BY <1>u DEF IInv, LeaseWhileRunning, WithLease
<1>6. \A s \in Tasks : pc'[s] = "running" => pc[s] = "running" /\ s # t /\ lease'[s] = lease[s]
  BY <1>u DEF WithLease
<1>7. /\ excluded' \in [Tasks -> SUBSET Models] /\ switches' \in [Tasks -> Nat]
      /\ FiniteExcluded' /\ TriesEachOnce'
  <2>1. CASE UNCHANGED <<excluded, switches>>
    BY <2>1, <1>6, <1>u DEF IInv, FiniteExcluded, TriesEachOnce
  <2>2. CASE GiveUpModel(t) /\ SwitchesLeft(t) /\ pc[t] = "running"
    BY <2>2, <1>6, ModelGivenUp DEF IInv, TriesEachOnce
  <2> QED BY <2>1, <2>2
<1>8. TaskTypes'
  BY <1>4, <1>7, ToTypes
<1>9. PlansKept'
  BY <1>t DEF PlansKept
<1> QED BY <1>2, <1>3, <1>5, <1>7, <1>8, <1>9 DEF IInv

LEMMA FinishKeeps ==
  ASSUME IInv, NEW t \in Tasks, pc[t] \in WithLease, Finish(t),
         cool' \in [Models -> Nat], groupCool' \in [Groups -> Nat], disabled' \subseteq Models
  PROVE  IInv'
<1>t. TaskTypes
  BY DEF IInv
<1>u. /\ tier \in [Tasks -> Tiers] /\ waited \in [Tasks -> Nat] /\ due \subseteq Tasks
      /\ tools \in [Tasks -> BOOLEAN] /\ aborted \subseteq Tasks
  BY <1>t, Types
<1>1. /\ tier' \in [Tasks -> Tiers] /\ waited' \in [Tasks -> Nat] /\ due' \subseteq Tasks
      /\ tools' \in [Tasks -> BOOLEAN] /\ aborted' \subseteq Tasks
  BY <1>u DEF Finish, choice
<1>2. "done" \in Places \ WithLease
  BY DEF Places, WithLease
<1>3. /\ pc' = [pc EXCEPT ![t] = "done"]
      /\ inFlight' = Released(t) /\ lease' = [lease EXCEPT ![t] = None]
      /\ UNCHANGED <<config, plan>> /\ UNCHANGED <<excluded, switches>>
  BY DEF Finish
<1> QED BY <1>1, <1>2, <1>3, LeaseLeft

\* The task goes back to acquire without its lease.
LEMMA EnterKeeps ==
  ASSUME IInv, NEW t \in Tasks, pc[t] \in WithLease, EnterAcquire(t),
         inFlight' = Released(t), lease' = [lease EXCEPT ![t] = None],
         UNCHANGED <<config, plan, aborted>>,
         cool' \in [Models -> Nat], groupCool' \in [Groups -> Nat], disabled' \subseteq Models,
         \/ UNCHANGED <<excluded, switches>>
         \/ GiveUpModel(t) /\ SwitchesLeft(t) /\ pc[t] = "running"
  PROVE  IInv'
<1>t. TaskTypes /\ PlansKept
  BY DEF IInv
<1>1. /\ tier' \in [Tasks -> Tiers] /\ waited' \in [Tasks -> Nat] /\ due' \subseteq Tasks
      /\ tools' \in [Tasks -> BOOLEAN]
  BY <1>t, EnterTypes
<1>2. "choosing" \in Places \ WithLease /\ pc' = [pc EXCEPT ![t] = "choosing"]
  BY DEF Places, WithLease, EnterAcquire
<1>3. aborted' \subseteq Tasks
  BY <1>t, Types
<1> QED BY <1>1, <1>2, <1>3, LeaseLeft

LEMMA NothingReported ==
  ASSUME IInv, UNCHANGED <<cool, groupCool, disabled>>
  PROVE  cool' \in [Models -> Nat] /\ groupCool' \in [Groups -> Nat] /\ disabled' \subseteq Models
BY DEF IInv, StateTypes

LEMMA RunEnds ==
  ASSUME IInv, NEW t \in Tasks, NEW class \in Classes,
         Succeed(t) \/ ReturnError(t, class) \/ Throw(t, class) \/ SessionClosed(t)
  PROVE  IInv'
<1>t. StateTypes /\ TaskTypes /\ PlansKept
  BY DEF IInv
<1>p. pc[t] \in WithLease /\ lease[t] \in Models
  <2>1. pc[t] \in WithLease
    BY DEF Succeed, ReturnError, Throw, SessionClosed, Running, WithLease
  <2> QED BY <2>1, RunningTask
<1>1. CASE Succeed(t)
  BY <1>1, <1>p, NothingReported, FinishKeeps DEF Succeed
<1>2. CASE SessionClosed(t)
  BY <1>2, <1>p, NothingReported, EnterKeeps DEF SessionClosed
<1>3. CASE ReturnError(t, class)
  <2>1. cool' \in [Models -> Nat] /\ groupCool' \in [Groups -> Nat] /\ disabled' \subseteq Models
    BY <1>3, <1>p, <1>t, FailureReported DEF ReturnError
  <2>2. CASE ~MaySwitchResult(t, class)
    BY <2>1, <2>2, <1>3, <1>p, FinishKeeps DEF ReturnError
  <2>3. CASE MaySwitchResult(t, class)
    <3>1. /\ GiveUpModel(t) /\ SwitchesLeft(t) /\ pc[t] = "running"
          /\ pc' = [pc EXCEPT ![t] = "closing"]
          /\ UNCHANGED <<config, inFlight, choice, lease, tools, aborted, plan>>
      BY <2>3, <1>3 DEF ReturnError, MaySwitchResult, Running
    <3>u. /\ pc \in [Tasks -> Places] /\ excluded \in [Tasks -> SUBSET Models]
          /\ tier \in [Tasks -> Tiers] /\ waited \in [Tasks -> Nat] /\ due \subseteq Tasks
          /\ lease \in [Tasks -> Models \cup {None}] /\ switches \in [Tasks -> Nat]
          /\ tools \in [Tasks -> BOOLEAN] /\ aborted \subseteq Tasks
      BY <1>t, Types
    <3>2. /\ excluded' \in [Tasks -> SUBSET Models] /\ switches' \in [Tasks -> Nat]
          /\ FiniteExcluded'
          /\ \A s \in Tasks : /\ switches'[s] = Cardinality(excluded'[s])
                              /\ switches'[s] <= MaxSwitches
                              /\ s # t => excluded'[s] = excluded[s]
      BY <3>1, ModelGivenUp
    <3>6. StateTypes'
      BY <1>t, <2>1, <3>1 DEF StateTypes
    <3>7. TaskTypes'
      <4>1. pc' \in [Tasks -> Places]
        BY <3>1, <3>u DEF Places
      <4> QED BY <4>1, <3>1, <3>2, <3>u, ToTypes DEF choice
    <3>8. PlansKept'
      BY <1>t, <3>1 DEF PlansKept
    <3>9. LeaseWhileRunning' /\ LeasesExact'
      <4>1. LeaseWhileRunning'
        BY <3>1, <3>u DEF IInv, LeaseWhileRunning
      <4> QED BY <4>1, <3>1, SameLeases DEF IInv
    <3>11. \A s \in Tasks : pc'[s] = "running" => pc[s] = "running" /\ s # t /\ lease'[s] = lease[s]
      BY <3>1, <3>u
    <3>12. TriesEachOnce'
      BY <3>2, <3>11 DEF IInv, TriesEachOnce
    <3> QED BY <3>2, <3>6, <3>7, <3>8, <3>9, <3>12 DEF IInv
  <2> QED BY <2>2, <2>3
<1>4. CASE Throw(t, class)
  <2>1. cool' \in [Models -> Nat] /\ groupCool' \in [Groups -> Nat] /\ disabled' \subseteq Models
    <3>1. CASE t \in aborted
      BY <3>1, <1>4, NothingReported DEF Throw
    <3>2. CASE t \notin aborted
      BY <3>2, <1>4, <1>p, <1>t, FailureReported DEF Throw
    <3> QED BY <3>1, <3>2
  <2>2. CASE ~(t \notin aborted /\ MaySwitchThrown(t, class))
    BY <2>1, <2>2, <1>4, <1>p, FinishKeeps DEF Throw
  <2>3. CASE t \notin aborted /\ MaySwitchThrown(t, class)
    <3>1. /\ GiveUpModel(t) /\ SwitchesLeft(t) /\ pc[t] = "running"
          /\ EnterAcquire(t)
          /\ inFlight' = Released(t) /\ lease' = [lease EXCEPT ![t] = None]
          /\ UNCHANGED <<config, plan, aborted>>
      BY <2>3, <1>4 DEF Throw, MaySwitchThrown, Running
    <3> QED BY <3>1, <2>1, <1>p, EnterKeeps
  <2> QED BY <2>2, <2>3
<1> QED BY <1>1, <1>2, <1>3, <1>4

LEMMA NextIInv == IInv /\ [Next]_vars => IInv'
<1> SUFFICES ASSUME IInv, [Next]_vars PROVE IInv'
  OBVIOUS
<1>1. CASE UNCHANGED vars
  <2>1. StateTypes' /\ TaskTypes'
    BY <1>1 DEF IInv, StateTypes, TaskTypes, vars, router, choice, attempt
  <2>2. UNCHANGED <<inFlight, plan, excluded, lease, switches, pc>>
    BY <1>1 DEF vars, router, attempt
  <2> QED BY <2>1, <2>2, QuietStep
<1>2. ASSUME NEW t \in Tasks, Progress(t) PROVE IInv'
  <2>1. CASE Begin(t) \/ Wake(t) \/ Sleep(t) \/ Escalate(t) \/ Refuse(t)
    BY <2>1, AcquireGoesOn
  <2>2. CASE LeasePinned(t) \/ LeaseFirst(t)
    BY <2>2, AcquireReturns
  <2>3. CASE End(t) \/ SessionClosed(t)
    BY <2>3, RunEnds DEF End, Classes
  <2> QED BY <1>2, <2>1, <2>2, <2>3 DEF Progress, Choose
<1>3. ASSUME NEW t \in Tasks, RunTool(t) \/ Abort(t) PROVE IInv'
  BY <1>3, AcquireGoesOn
<1>4. CASE Tick \/ (\E c \in Configs : Reload(c)) \/ (\E m \in Models : Enable(m))
  BY <1>4, EnvironmentKeeps
<1> QED BY <1>1, <1>2, <1>3, <1>4 DEF Next

-----------------------------------------------------------------------------
(* The theorems.                                                           *)

\* The invariant holds in every reachable state.
THEOREM RouterInvariance == Spec => []IInv
BY InitIInv, NextIInv, PTL DEF Spec

\* Types hold in every reachable state, and no counter of leases passes the
\* number of tasks.
THEOREM RouterTypeCorrect == Spec => []TypeOK
<1>1. IInv => TypeOK
  <2> SUFFICES ASSUME IInv PROVE TypeOK
    OBVIOUS
  <2>1. \A m \in Models : inFlight[m] \in 0..Cardinality(Tasks)
    <3>1. SUFFICES ASSUME NEW m \in Models PROVE inFlight[m] \in 0..Cardinality(Tasks)
      OBVIOUS
    <3>2. inFlight[m] = Cardinality(Holders(m))
      BY ExactForm DEF IInv
    <3>3. Cardinality(Tasks) \in Nat
      BY RouterAssumption, FS_CardinalityType
    <3> QED BY <3>2, <3>3, HoldersFinite
  <2>2. inFlight \in [Models -> 0..Cardinality(Tasks)]
    BY <2>1 DEF IInv, StateTypes
  <2> QED BY <2>2 DEF IInv, StateTypes, TaskTypes, PlansKept, TypeOK
<1> QED BY <1>1, RouterInvariance, PTL

\* Every path of startRouted gives its lease back: the counters are the leases
\* held, and a task that is not pinned never takes a model past its limit.
THEOREM ExactLeases == Spec => []LeasesExact
<1>1. IInv => LeasesExact
  BY DEF IInv
<1> QED BY <1>1, RouterInvariance, PTL

\* No task tries a model again, or switches more often than it may.
THEOREM NoModelTwice == Spec => []TriesEachOnce
<1>1. IInv => TriesEachOnce
  BY DEF IInv
<1> QED BY <1>1, RouterInvariance, PTL

\* A step that is neither a poll nor the command "enable" shortens no cool-down.
LEMMA OnlyTimeShortens ==
  ASSUME IInv, Next, ~Tick, ~(\E m \in Models : Enable(m))
  PROVE  /\ \A m \in Models : cool'[m] >= cool[m]
         /\ \A g \in Groups : groupCool'[g] >= groupCool[g]
<1>t. /\ StateTypes
      /\ \A m \in Models : cool[m] >= cool[m]
      /\ \A g \in Groups : groupCool[g] >= groupCool[g]
  BY DEF IInv, StateTypes
<1>1. CASE UNCHANGED <<cool, groupCool>>
  BY <1>1, <1>t
<1>2. ASSUME NEW t \in Tasks, End(t), ~UNCHANGED <<cool, groupCool>>
      PROVE  /\ \A m \in Models : cool'[m] >= cool[m]
             /\ \A g \in Groups : groupCool'[g] >= groupCool[g]
  <2>1. PICK class \in Classes : ReportIfSwitchable(lease[t], class) /\ Running(t)
    BY <1>2 DEF End, Succeed, ReturnError, Throw
  <2>2. lease[t] \in Models
    BY <2>1, RunningTask DEF Running, WithLease
  <2> QED BY <2>1, <2>2, <1>t, FailureReported
<1>3. (\E t \in Tasks : End(t)) \/ UNCHANGED <<cool, groupCool>>
  <2>1. ASSUME NEW t \in Tasks, Progress(t) \/ RunTool(t) \/ Abort(t), ~End(t)
        PROVE  UNCHANGED <<cool, groupCool>>
    BY <2>1 DEF Progress, Choose, Begin, Wake, SessionClosed, LeasePinned, LeaseFirst, TakeLease,
                Sleep, Escalate, Refuse, RunTool, Abort, router
  <2>2. ASSUME NEW c \in Configs, Reload(c) PROVE UNCHANGED <<cool, groupCool>>
    BY <2>2 DEF Reload
  <2> QED BY <2>1, <2>2 DEF Next
<1> QED BY <1>1, <1>2, <1>3

\* Two failures of a model, in any order, leave the longer cool-down.
THEOREM NoFailureShortens == Spec => CoolDownNotShortened
<1>1. IInv /\ [Next]_vars =>
        [(\E m \in Models : cool'[m] < cool[m]) \/ (\E g \in Groups : groupCool'[g] < groupCool[g])
           => Tick \/ \E m \in Models : Enable(m)]_vars
  <2> SUFFICES ASSUME IInv, Next, ~Tick, ~(\E m \in Models : Enable(m))
               PROVE  /\ ~(\E m \in Models : cool'[m] < cool[m])
                      /\ ~(\E g \in Groups : groupCool'[g] < groupCool[g])
    OBVIOUS
  <2>1. /\ \A m \in Models : cool'[m] >= cool[m]
        /\ \A g \in Groups : groupCool'[g] >= groupCool[g]
    BY OnlyTimeShortens
  <2>2. StateTypes /\ StateTypes'
    BY NextIInv DEF IInv
  <2>3. /\ \A m \in Models : cool[m] \in Nat /\ cool'[m] \in Nat
        /\ \A g \in Groups : groupCool[g] \in Nat /\ groupCool'[g] \in Nat
    BY <2>2 DEF StateTypes
  <2> QED BY <2>1, <2>3
<1> QED BY <1>1, RouterInvariance, PTL DEF Spec, CoolDownNotShortened
==========================================================================
