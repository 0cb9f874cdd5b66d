------------------------ MODULE UserLifecycle_proofs ------------------------
(***************************************************************************)
(* Proofs about the engines of UserLifecycle: what a run of provisioning,  *)
(* of offboarding and of the retention sweep does to an account, for any   *)
(* number of requests, pollers, sweepers and crashes.  Each section has    *)
(* the inductive invariant of its engine and one lemma per kind of step;   *)
(* the last section is about all three.                                    *)
(***************************************************************************)
EXTENDS UserLifecycle, SequenceTheorems, FiniteSetTheorems, TLAPS

-----------------------------------------------------------------------------
(* Provisioning                                                            *)

Plans == [steps : Seq(StepKeys), skus : SUBSET Skus]
Outcomes == {"succeeded", "skipped", "failed"}
RunRecords == [status : InFlight \cup Ended, plan : Plans, steps : Seq(Outcomes \cup {"pending"}), late : BOOLEAN]
WorkerRecords == [pc : {"idle", "checked", "recorded", "executing", "executed", "outcomes"},
                  plan : Plans, run : Nat, done : Seq(Outcomes)]
AccountRecords == [exists : BOOLEAN, skus : SUBSET Skus, inGroup : BOOLEAN, credential : {"none", "issued", "delivered"}]
PollRecords == [run : Nat, verdict : {"awaiting_cloudpc"} \cup Ended]

ProvTypeOK ==
  /\ runs \in Seq(RunRecords) /\ account \in AccountRecords
  /\ worker \in [ProvRequests -> WorkerRecords] /\ poll \in [ProvPollers -> PollRecords]

(* The Cloud PC group comes after the licences, and only with a licence.   *)
LicensedFirst(steps, skus) ==
  \A i \in DOMAIN steps : steps[i] = "assign_cloudpc" =>
    "cloudpc" \in skus /\ \E j \in 1 .. i - 1 : steps[j] = "assign_licenses"

PlanOK(plan) == LicensedFirst(plan.steps, plan.skus)

(* A run whose steps are all on record as done.                            *)
Complete(r) ==
  /\ DOMAIN r.steps = DOMAIN r.plan.steps
  /\ \A i \in DOMAIN r.steps : r.steps[i] = "succeeded" \/ (r.steps[i] = "skipped" /\ r.plan.steps[i] = "issue_tap")

(* A request that has recorded its run carries it: the run is running, and *)
(* what is done of its plan is done to the account.                        *)
Carrying(w) == w.pc \in {"recorded", "executing", "executed", "outcomes"}

StepsAreDone(w, acc) ==
  /\ Len(w.done) <= Len(w.plan.steps)
  /\ \A i \in DOMAIN w.done : w.done[i] = "skipped" => w.plan.steps[i] = "issue_tap"
  /\ w.pc = "executing" => \A i \in DOMAIN w.done :
       w.done[i] # "failed" /\ (w.plan.steps[i] = "assign_licenses" => w.plan.skus \subseteq acc.skus)
  /\ w.pc \in {"executed", "outcomes"} => (\E i \in DOMAIN w.done : w.done[i] = "failed") \/ Len(w.done) = Len(w.plan.steps)

CarriesItsRun(w, rs) ==
  /\ w.run \in DOMAIN rs /\ rs[w.run].status = "running" /\ rs[w.run].plan = w.plan
  /\ w.pc \in {"executing", "executed", "outcomes"} => DOMAIN rs[w.run].steps = DOMAIN w.plan.steps
  /\ w.pc = "outcomes" => \A i \in DOMAIN w.done : rs[w.run].steps[i] = w.done[i]

WorkerOK(w, rs, acc) ==
  /\ w.pc # "idle" => PlanOK(w.plan)
  /\ w.pc \in {"checked", "recorded"} => w.done = <<>>
  /\ Carrying(w) => StepsAreDone(w, acc) /\ CarriesItsRun(w, rs)

(* A poller has looked up a run that was complete and not running.         *)
PollOK(q, rs) == q.run # 0 => q.run \in DOMAIN rs /\ rs[q.run].status # "running" /\ Complete(rs[q.run])

WorkersOK == \A e \in ProvRequests : WorkerOK(worker[e], runs, account)
OneCarries == \A e, f \in ProvRequests : Carrying(worker[e]) /\ Carrying(worker[f]) => e = f
PollsOK == \A p \in ProvPollers : PollOK(poll[p], runs)

ProvIInv == ProvTypeOK /\ WorkersOK /\ OneCarries /\ PollsOK /\ OneRunInFlight /\ AccountIsAsPlanned

-----------------------------------------------------------------------------

(* A plan that is extended by what may come next stays in order.           *)
LEMMA PlanGrows ==
  ASSUME NEW steps \in Seq(StepKeys), NEW more \in Seq(StepKeys), NEW skus, LicensedFirst(steps, skus),
         \A i \in DOMAIN more : more[i] = "assign_cloudpc" =>
           "cloudpc" \in skus /\ \E j \in DOMAIN steps : steps[j] = "assign_licenses"
  PROVE  /\ steps \o more \in Seq(StepKeys) /\ LicensedFirst(steps \o more, skus)
         /\ \A j \in DOMAIN steps : (steps \o more)[j] = steps[j] /\ j \in DOMAIN (steps \o more)
         /\ \A j \in DOMAIN more : (steps \o more)[Len(steps) + j] = more[j] /\ Len(steps) + j \in DOMAIN (steps \o more)
<1> DEFINE all == steps \o more
<1>1. /\ all \in Seq(StepKeys) /\ Len(all) = Len(steps) + Len(more)
      /\ \A j \in 1 .. Len(steps) : all[j] = steps[j]
      /\ \A j \in 1 .. Len(more) : all[Len(steps) + j] = more[j]
  BY ConcatProperties
<1>2. DOMAIN steps = 1 .. Len(steps) /\ DOMAIN more = 1 .. Len(more) /\ DOMAIN all = 1 .. Len(all)
      /\ Len(steps) \in Nat /\ Len(more) \in Nat
  BY <1>1, LenProperties
<1> HIDE DEF all
<1>3. ASSUME NEW i \in DOMAIN all, all[i] = "assign_cloudpc"
      PROVE  "cloudpc" \in skus /\ \E j \in 1 .. i - 1 : all[j] = "assign_licenses"
  <2>1. CASE i <= Len(steps)
    <3>1. i \in DOMAIN steps /\ steps[i] = "assign_cloudpc"
      BY <1>1, <1>2, <1>3, <2>1
    <3>2. PICK j \in 1 .. i - 1 : steps[j] = "assign_licenses"
      BY <3>1 DEF LicensedFirst
    <3> QED  BY <1>1, <1>2, <3>1, <3>2 DEF LicensedFirst
  <2>2. CASE i > Len(steps)
    <3>1. (i - Len(steps)) \in DOMAIN more /\ more[i - Len(steps)] = "assign_cloudpc"
      BY <1>1, <1>2, <1>3, <2>2
    <3>2. PICK j \in DOMAIN steps : steps[j] = "assign_licenses"
      BY <3>1
    <3> QED  BY <1>1, <1>2, <2>2, <3>1, <3>2
  <2> QED  BY <1>2, <1>3, <2>1, <2>2
<1>4. LicensedFirst(all, skus)
  BY <1>3 DEF LicensedFirst
<1> QED  BY <1>1, <1>2, <1>4 DEF all

(* The planner names the licences before the group they are for.           *)
LEMMA PlannedInOrder ==
  ASSUME NEW in \in ProvInputs
  PROVE  PlanRun(in) \in Plans /\ PlanOK(PlanRun(in))
<1> DEFINE skus == SkusWanted(in)
           manager == When(in.manager = "found", "set_manager")
           group   == When(in.groups # "none", "add_groups")
           cloud   == When(in.cloudPc, "assign_cloudpc")
           wait    == When(in.cloudPc, "await_cloudpc")
           created == <<"create_user">> \o manager
           bought  == created \o <<"assign_licenses">>
           grouped == bought \o group
           placed  == grouped \o cloud
           issued  == placed \o <<in.credential>>
<1>1. in.credential \in {"issue_tap", "set_password"} /\ in.cloudPc \in BOOLEAN
  BY ProvAssumption DEF InputRecords
<1>2. skus \in SUBSET Skus /\ (in.cloudPc => "cloudpc" \in skus)
  BY DEF SkusWanted, Skus
<1>3. \A key \in StepKeys : /\ <<key>> \in Seq(StepKeys) /\ \A i \in DOMAIN <<key>> : <<key>>[i] = key
  OBVIOUS
<1>4. /\ <<"create_user">> \in Seq(StepKeys) /\ <<"assign_licenses">> \in Seq(StepKeys) /\ <<in.credential>> \in Seq(StepKeys)
      /\ manager \in Seq(StepKeys) /\ group \in Seq(StepKeys) /\ cloud \in Seq(StepKeys) /\ wait \in Seq(StepKeys)
  <2>1. in.credential \in StepKeys /\ <<>> \in Seq(StepKeys)
    BY <1>1 DEF StepKeys
  <2>2. \A key \in StepKeys : \A b : When(b, key) \in Seq(StepKeys)
    BY <1>3, <2>1 DEF When
  <2>3. {"create_user", "set_manager", "assign_licenses", "add_groups", "assign_cloudpc", "await_cloudpc"} \subseteq StepKeys
    BY DEF StepKeys
  <2>4. <<"create_user">> \in Seq(StepKeys) /\ <<"assign_licenses">> \in Seq(StepKeys) /\ <<in.credential>> \in Seq(StepKeys)
    BY <1>3, <2>1, <2>3
  <2> QED  BY <2>2, <2>3, <2>4
<1>5. /\ \A i \in DOMAIN manager : manager[i] # "assign_cloudpc"
      /\ \A i \in DOMAIN group : group[i] # "assign_cloudpc"
      /\ \A i \in DOMAIN wait : wait[i] # "assign_cloudpc"
      /\ \A i \in DOMAIN <<in.credential>> : <<in.credential>>[i] # "assign_cloudpc"
      /\ \A i \in DOMAIN cloud : in.cloudPc
  BY <1>1 DEF When
<1>6. LicensedFirst(<<"create_user">>, skus)
  BY DEF LicensedFirst
<1> HIDE DEF skus, manager, group, cloud, wait
<1>7. created \in Seq(StepKeys) /\ LicensedFirst(created, skus)
  BY <1>4, <1>5, <1>6, PlanGrows
<1> HIDE DEF created
<1>8. bought \in Seq(StepKeys) /\ LicensedFirst(bought, skus) /\ \E j \in DOMAIN bought : bought[j] = "assign_licenses"
  <2>1. 1 \in DOMAIN <<"assign_licenses">> /\ <<"assign_licenses">>[1] = "assign_licenses"
        /\ \A i \in DOMAIN <<"assign_licenses">> : <<"assign_licenses">>[i] # "assign_cloudpc"
    OBVIOUS
  <2>2. /\ bought \in Seq(StepKeys) /\ LicensedFirst(bought, skus)
        /\ \A j \in DOMAIN <<"assign_licenses">> :
             bought[Len(created) + j] = <<"assign_licenses">>[j] /\ Len(created) + j \in DOMAIN bought
    BY <1>4, <1>7, <2>1, PlanGrows
  <2> QED  BY <2>1, <2>2
<1> HIDE DEF bought
<1>9. grouped \in Seq(StepKeys) /\ LicensedFirst(grouped, skus) /\ \E j \in DOMAIN grouped : grouped[j] = "assign_licenses"
  BY <1>4, <1>5, <1>8, PlanGrows
<1> HIDE DEF grouped
<1>10. placed \in Seq(StepKeys) /\ LicensedFirst(placed, skus)
  BY <1>2, <1>4, <1>5, <1>9, PlanGrows
<1> HIDE DEF placed
<1>11. issued \in Seq(StepKeys) /\ LicensedFirst(issued, skus)
  BY <1>4, <1>5, <1>10, PlanGrows
<1> HIDE DEF issued
<1>12. issued \o wait \in Seq(StepKeys) /\ LicensedFirst(issued \o wait, skus)
  BY <1>4, <1>5, <1>11, PlanGrows
<1>13. PlanRun(in) = [steps |-> issued \o wait, skus |-> skus]
  BY DEF PlanRun, issued, placed, grouped, bought, created, manager, group, cloud, wait, skus
<1> QED  BY <1>2, <1>12, <1>13 DEF Plans, PlanOK

(* What a plan is to a request does not change when the account gains.     *)
LEMMA WorkerStays ==
  ASSUME NEW w, NEW rs, NEW acc, NEW acc2, WorkerOK(w, rs, acc), acc.skus \subseteq acc2.skus
  PROVE  WorkerOK(w, rs, acc2)
BY DEF WorkerOK, StepsAreDone

(* A request moves and leaves the runs alone.                              *)
LEMMA WorkerMoves ==
  ASSUME ProvIInv, NEW e \in ProvRequests, NEW to \in WorkerRecords, worker' = [worker EXCEPT ![e] = to],
         UNCHANGED <<runs, poll>>, account' \in AccountRecords, account.skus \subseteq account'.skus,
         account'.inGroup => "cloudpc" \in account'.skus, WorkerOK(to, runs, account'),
         Carrying(to) => Carrying(worker[e])
  PROVE  ProvIInv'
<1>1. ProvTypeOK' /\ OneRunInFlight' /\ AccountIsAsPlanned' /\ PollsOK'
  BY DEF ProvIInv, ProvTypeOK, OneRunInFlight, AccountIsAsPlanned, CloudPcOnlyWhenLicensed, SucceededIsComplete, PollsOK
<1>2. worker'[e] = to /\ \A f \in ProvRequests : f # e => worker'[f] = worker[f]
  BY DEF ProvIInv, ProvTypeOK
<1>3. OneCarries'
  BY <1>2 DEF ProvIInv, OneCarries
<1>4. ASSUME NEW f \in ProvRequests PROVE WorkerOK(worker[f], runs, account)'
  <2>1. WorkerOK(worker[f], runs, account')
    BY WorkerStays DEF ProvIInv, WorkersOK
  <2> QED  BY <1>2, <2>1
<1> QED  BY <1>1, <1>3, <1>4 DEF ProvIInv, WorkersOK

(* A run changes: what the others hold of their runs is not of it.         *)
LEMMA RunChanges ==
  ASSUME ProvIInv, NEW k \in DOMAIN runs, NEW new \in RunRecords, runs' = [runs EXCEPT ![k] = new],
         new.plan = runs[k].plan, UNCHANGED account
  PROVE  /\ runs' \in Seq(RunRecords) /\ DOMAIN runs' = DOMAIN runs /\ runs'[k] = new
         /\ \A j \in DOMAIN runs : j # k => runs'[j] = runs[j]
         /\ \A w : (Carrying(w) => w.run # k) /\ WorkerOK(w, runs, account) => WorkerOK(w, runs', account')
         /\ \A q : q.run # k /\ PollOK(q, runs) => PollOK(q, runs')
<1>1. runs \in Seq(RunRecords) /\ DOMAIN runs = 1 .. Len(runs) /\ Len(runs) \in Nat
  BY LenProperties DEF ProvIInv, ProvTypeOK
<1>2. runs' \in Seq(RunRecords) /\ DOMAIN runs' = DOMAIN runs
  BY <1>1, ExceptSeq
<1>3. runs'[k] = new /\ \A j \in DOMAIN runs : j # k => runs'[j] = runs[j]
  BY <1>1
<1> QED  BY <1>2, <1>3 DEF WorkerOK, CarriesItsRun, PollOK

(* The request that carries a run writes to it.                            *)
LEMMA CarrierWrites ==
  ASSUME ProvIInv, NEW e \in ProvRequests, Carrying(worker[e]), NEW new \in RunRecords, NEW to \in WorkerRecords,
         runs' = [runs EXCEPT ![worker[e].run] = new], worker' = [worker EXCEPT ![e] = to], UNCHANGED <<account, poll>>,
         new.plan = worker[e].plan, new.status \in {"succeeded", "awaiting_cloudpc"} => Complete(new),
         WorkerOK(to, runs', account)
  PROVE  ProvIInv'
<1> DEFINE k == worker[e].run
<1>1. /\ k \in DOMAIN runs /\ runs[k].status = "running" /\ runs[k].plan = worker[e].plan
  BY DEF ProvIInv, WorkersOK, WorkerOK, CarriesItsRun
<1>2. worker'[e] = to /\ \A f \in ProvRequests : f # e => worker'[f] = worker[f]
  BY DEF ProvIInv, ProvTypeOK
<1> HIDE DEF k
<1>3. /\ runs' \in Seq(RunRecords) /\ DOMAIN runs' = DOMAIN runs /\ runs'[k] = new
      /\ \A j \in DOMAIN runs : j # k => runs'[j] = runs[j]
      /\ \A w : (Carrying(w) => w.run # k) /\ WorkerOK(w, runs, account) => WorkerOK(w, runs', account')
      /\ \A q : q.run # k /\ PollOK(q, runs) => PollOK(q, runs')
  BY <1>1, RunChanges DEF k
<1>4. \A f \in ProvRequests : f # e => ~Carrying(worker[f])
  BY DEF ProvIInv, OneCarries
<1>5. ProvTypeOK'
  BY <1>3 DEF ProvIInv, ProvTypeOK
<1>6. WorkersOK' /\ OneCarries'
  BY <1>2, <1>3, <1>4 DEF ProvIInv, WorkersOK, OneCarries
<1>7. PollsOK'
  BY <1>1, <1>3 DEF ProvIInv, PollsOK, PollOK
<1>8. OneRunInFlight'
  BY <1>1, <1>3 DEF ProvIInv, OneRunInFlight, InFlight
<1>9. AccountIsAsPlanned'
  <2>1. CloudPcOnlyWhenLicensed' = CloudPcOnlyWhenLicensed
    BY DEF CloudPcOnlyWhenLicensed
  <2>2. SucceededIsComplete'
    BY <1>1, <1>3 DEF ProvIInv, AccountIsAsPlanned, SucceededIsComplete, Complete
  <2> QED  BY <2>1, <2>2 DEF ProvIInv, AccountIsAsPlanned
<1> QED  BY <1>5, <1>6, <1>7, <1>8, <1>9 DEF ProvIInv

(* Somebody else ends a run that is not running, or only lets time pass.   *)
LEMMA OthersWrite ==
  ASSUME ProvIInv, NEW k \in DOMAIN runs, runs[k].status # "running", NEW new \in RunRecords,
         runs' = [runs EXCEPT ![k] = new], UNCHANGED <<account, worker>>, new.plan = runs[k].plan, new.steps = runs[k].steps,
         new.status # "running", new.status \in InFlight => new.status = runs[k].status, Complete(runs[k]),
         poll' \in [ProvPollers -> PollRecords],
         \A p \in ProvPollers : poll'[p] = poll[p] \/ poll'[p].run = 0
  PROVE  ProvIInv'
<1>1. /\ runs' \in Seq(RunRecords) /\ DOMAIN runs' = DOMAIN runs /\ runs'[k] = new
      /\ \A j \in DOMAIN runs : j # k => runs'[j] = runs[j]
      /\ \A w : (Carrying(w) => w.run # k) /\ WorkerOK(w, runs, account) => WorkerOK(w, runs', account')
      /\ \A q : q.run # k /\ PollOK(q, runs) => PollOK(q, runs')
  BY RunChanges
<1>2. \A w : WorkerOK(w, runs, account) /\ Carrying(w) => w.run # k
  BY DEF WorkerOK, CarriesItsRun
<1>3. Complete(new)
  BY DEF Complete
<1>4. ProvTypeOK' /\ WorkersOK' /\ OneCarries'
  BY <1>1, <1>2 DEF ProvIInv, ProvTypeOK, WorkersOK, OneCarries
<1>5. PollsOK'
  BY <1>1, <1>3 DEF ProvIInv, PollsOK, PollOK
<1>6. OneRunInFlight'
  BY <1>1 DEF ProvIInv, OneRunInFlight
<1>7. AccountIsAsPlanned'
  <2>1. CloudPcOnlyWhenLicensed' = CloudPcOnlyWhenLicensed
    BY DEF CloudPcOnlyWhenLicensed
  <2>2. SucceededIsComplete'
    BY <1>1, <1>3 DEF ProvIInv, AccountIsAsPlanned, SucceededIsComplete, Complete
  <2> QED  BY <2>1, <2>2 DEF ProvIInv, AccountIsAsPlanned
<1> QED  BY <1>4, <1>5, <1>6, <1>7 DEF ProvIInv

(* What is known of a request at work.                                     *)
LEMMA CarriedIs ==
  ASSUME ProvIInv, NEW e \in ProvRequests
  PROVE  /\ worker[e] \in WorkerRecords /\ WorkerOK(worker[e], runs, account)
         /\ worker[e].plan \in Plans /\ worker[e].plan.steps \in Seq(StepKeys) /\ worker[e].done \in Seq(Outcomes)
         /\ DOMAIN worker[e].done = 1 .. Len(worker[e].done) /\ Len(worker[e].done) \in Nat
         /\ DOMAIN worker[e].plan.steps = 1 .. Len(worker[e].plan.steps) /\ Len(worker[e].plan.steps) \in Nat
         /\ Carrying(worker[e]) => /\ worker[e].run \in DOMAIN runs /\ runs[worker[e].run] \in RunRecords
                                   /\ runs[worker[e].run].plan = worker[e].plan
<1>1. worker[e] \in WorkerRecords /\ WorkerOK(worker[e], runs, account) /\ runs \in Seq(RunRecords)
  BY DEF ProvIInv, ProvTypeOK, WorkersOK
<1>2. worker[e].plan \in Plans /\ worker[e].plan.steps \in Seq(StepKeys) /\ worker[e].done \in Seq(Outcomes)
  BY <1>1 DEF WorkerRecords, Plans
<1>3. Carrying(worker[e]) => /\ worker[e].run \in DOMAIN runs /\ runs[worker[e].run] \in RunRecords
                             /\ runs[worker[e].run].plan = worker[e].plan
  BY <1>1, ElementOfSeq, LenProperties DEF WorkerOK, CarriesItsRun
<1> QED  BY <1>1, <1>2, <1>3, LenProperties

(* What the next step makes of the account: the Cloud PC group is entered  *)
(* with the licence.                                                       *)
LEMMA EffectOK ==
  ASSUME ProvIInv, NEW e \in ProvRequests, Executing(e)
  PROVE  LET to == Effect(account, NextKey(e), worker[e].plan) IN
         /\ to \in AccountRecords /\ account.skus \subseteq to.skus /\ (to.inGroup => "cloudpc" \in to.skus)
         /\ NextKey(e) = "assign_licenses" => worker[e].plan.skus \subseteq to.skus
<1> DEFINE w == worker[e]  i == Len(worker[e].done) + 1  key == NextKey(e)
<1>1. /\ w.pc = "executing" /\ i \in DOMAIN w.plan.steps /\ w.plan.steps[i] = key /\ Len(w.done) = i - 1 /\ i \in Nat \ {0}
      /\ DOMAIN w.done = 1 .. i - 1 /\ w.plan.skus \in SUBSET Skus
  BY CarriedIs DEF Executing, NextKey, Plans
<1>2. PlanOK(w.plan) /\ StepsAreDone(w, account)
  BY <1>1, CarriedIs DEF WorkerOK, Carrying
<1>3. account \in AccountRecords /\ (account.inGroup => "cloudpc" \in account.skus)
  BY DEF ProvIInv, ProvTypeOK, AccountIsAsPlanned, CloudPcOnlyWhenLicensed
<1>4. key = "assign_cloudpc" => "cloudpc" \in account.skus
  <2> SUFFICES ASSUME key = "assign_cloudpc" PROVE "cloudpc" \in account.skus
    OBVIOUS
  <2>1. PICK j \in 1 .. i - 1 : w.plan.steps[j] = "assign_licenses" /\ "cloudpc" \in w.plan.skus
    BY <1>1, <1>2 DEF PlanOK, LicensedFirst
  <2> QED  BY <1>1, <1>2, <2>1 DEF StepsAreDone
<1> HIDE DEF w, key
<1> QED  BY <1>1, <1>3, <1>4 DEF Effect, AccountRecords, w, key

(* One more outcome.                                                       *)
LEMMA OneMoreDone ==
  ASSUME ProvIInv, NEW e \in ProvRequests, Executing(e), NEW out \in Outcomes, NEW pc \in {"executing", "executed"},
         NEW acc \in AccountRecords, account.skus \subseteq acc.skus,
         out = "failed" <=> pc = "executed", out = "skipped" => NextKey(e) = "issue_tap",
         out = "succeeded" /\ NextKey(e) = "assign_licenses" => worker[e].plan.skus \subseteq acc.skus,
         NEW to \in WorkerRecords, to = [worker[e] EXCEPT !.done = Append(worker[e].done, out), !.pc = pc]
  PROVE  WorkerOK(to, runs, acc) /\ Carrying(to) /\ Carrying(worker[e])
<1> DEFINE w == worker[e]  n == Len(worker[e].done)
<1>1. /\ w.pc = "executing" /\ n + 1 \in DOMAIN w.plan.steps /\ w.plan.steps[n + 1] = NextKey(e) /\ n \in Nat
      /\ DOMAIN w.done = 1 .. n /\ n + 1 <= Len(w.plan.steps) /\ w \in WorkerRecords /\ w.done \in Seq(Outcomes)
  <2>1. w.pc = "executing" /\ n < Len(w.plan.steps) /\ NextKey(e) = w.plan.steps[n + 1]
    BY DEF Executing, NextKey
  <2>2. /\ w \in WorkerRecords /\ w.done \in Seq(Outcomes) /\ DOMAIN w.done = 1 .. n /\ n \in Nat
        /\ DOMAIN w.plan.steps = 1 .. Len(w.plan.steps) /\ Len(w.plan.steps) \in Nat
    BY CarriedIs
  <2> HIDE DEF w, n
  <2> QED  BY <2>1, <2>2
<1>2. PlanOK(w.plan) /\ StepsAreDone(w, account) /\ CarriesItsRun(w, runs)
  BY <1>1, CarriedIs DEF WorkerOK, Carrying
<1>3. to.plan = w.plan /\ to.run = w.run /\ to.pc = pc /\ to.done = Append(w.done, out)
  BY <1>1 DEF WorkerRecords
<1>4. /\ Len(to.done) = n + 1 /\ DOMAIN to.done = 1 .. n + 1 /\ to.done[n + 1] = out
      /\ \A i \in 1 .. n : to.done[i] = w.done[i]
  BY <1>1, <1>3, AppendProperties
<1> HIDE DEF w, n
<1>5. StepsAreDone(to, acc)
  <2>1. /\ Len(w.done) <= Len(w.plan.steps)
        /\ \A i \in 1 .. n : w.done[i] = "skipped" => w.plan.steps[i] = "issue_tap"
        /\ \A i \in 1 .. n : w.done[i] # "failed" /\ (w.plan.steps[i] = "assign_licenses" => w.plan.skus \subseteq account.skus)
    BY <1>1, <1>2 DEF StepsAreDone
  <2>2. Len(to.done) <= Len(to.plan.steps)
    BY <1>1, <1>3, <1>4
  <2>3. \A i \in DOMAIN to.done : to.done[i] = "skipped" => to.plan.steps[i] = "issue_tap"
    BY <1>1, <1>3, <1>4, <2>1
  <2>4. to.pc = "executing" => \A i \in DOMAIN to.done :
          to.done[i] # "failed" /\ (to.plan.steps[i] = "assign_licenses" => to.plan.skus \subseteq acc.skus)
    <3> SUFFICES ASSUME to.pc = "executing", NEW i \in DOMAIN to.done
                 PROVE  to.done[i] # "failed" /\ (to.plan.steps[i] = "assign_licenses" => to.plan.skus \subseteq acc.skus)
      OBVIOUS
    <3>1. out # "failed"
      BY <1>3
    <3>2. CASE i = n + 1
      BY <1>1, <1>3, <1>4, <3>1, <3>2 DEF Outcomes, w
    <3>3. CASE i \in 1 .. n
      BY <1>3, <1>4, <2>1, <3>3
    <3> QED  BY <1>1, <1>4, <3>2, <3>3
  <2>5. to.pc = "executed" => \E i \in DOMAIN to.done : to.done[i] = "failed"
    BY <1>1, <1>3, <1>4
  <2> QED  BY <1>3, <2>2, <2>3, <2>4, <2>5 DEF StepsAreDone
<1>6. CarriesItsRun(to, runs)
  BY <1>1, <1>2, <1>3 DEF CarriesItsRun
<1> QED  BY <1>1, <1>2, <1>3, <1>5, <1>6 DEF WorkerOK, Carrying, w

LEMMA StepOfRequest ==
  ASSUME ProvIInv, NEW e \in ProvRequests, StepSucceeds(e) \/ StepFails(e)
  PROVE  ProvIInv'
<1> DEFINE eff == Effect(account, NextKey(e), worker[e].plan)
<1>1. /\ Executing(e) /\ UNCHANGED <<runs, poll>>
  BY DEF StepSucceeds, StepFails
<1>2. /\ eff \in AccountRecords /\ account.skus \subseteq eff.skus /\ (eff.inGroup => "cloudpc" \in eff.skus)
      /\ NextKey(e) = "assign_licenses" => worker[e].plan.skus \subseteq eff.skus
  BY <1>1, EffectOK
<1>3. /\ account \in AccountRecords /\ (account.inGroup => "cloudpc" \in account.skus)
      /\ worker[e] \in WorkerRecords /\ worker[e].done \in Seq(Outcomes) /\ worker[e].pc = "executing"
  BY <1>1, CarriedIs DEF ProvIInv, ProvTypeOK, AccountIsAsPlanned, CloudPcOnlyWhenLicensed, Executing
<1>4. PICK out \in Outcomes, pc \in {"executing", "executed"} :
        /\ worker' = [worker EXCEPT ![e] = [worker[e] EXCEPT !.done = Append(worker[e].done, out), !.pc = pc]]
        /\ out = "failed" <=> pc = "executed"
        /\ out = "skipped" => NextKey(e) = "issue_tap"
        /\ account' \in {account, eff, [eff EXCEPT !.credential = "delivered"]}
        /\ out = "succeeded" => account' \in {eff, [eff EXCEPT !.credential = "delivered"]}
  <2>1. CASE StepFails(e)
    <3>1. worker' = [worker EXCEPT ![e] = [worker[e] EXCEPT !.done = Append(worker[e].done, "failed"), !.pc = "executed"]]
      BY <2>1 DEF StepFails, ProvIInv, ProvTypeOK
    <3> QED  BY <2>1, <3>1 DEF StepFails, Outcomes
  <2>2. CASE StepSucceeds(e)
    <3>1. \A out : [worker[e] EXCEPT !.done = Append(worker[e].done, out)]
                 = [worker[e] EXCEPT !.done = Append(worker[e].done, out), !.pc = "executing"]
      BY <1>3 DEF WorkerRecords
    <3>2. PICK out \in {"succeeded", "skipped"} :
            /\ worker' = [worker EXCEPT ![e] = [worker[e] EXCEPT !.done = Append(worker[e].done, out)]]
            /\ out = "skipped" => NextKey(e) = "issue_tap" /\ account' = account
            /\ out = "succeeded" => account' \in {eff, [eff EXCEPT !.credential = "delivered"]}
      BY <2>2 DEF StepSucceeds
    <3> QED  BY <3>1, <3>2 DEF Outcomes
  <2> QED  BY <2>1, <2>2
<1> DEFINE to == [worker[e] EXCEPT !.done = Append(worker[e].done, out), !.pc = pc]
<1>5. to \in WorkerRecords
  BY <1>3, AppendProperties DEF WorkerRecords
<1> HIDE DEF eff
<1>6. /\ account' \in AccountRecords /\ account.skus \subseteq account'.skus /\ (account'.inGroup => "cloudpc" \in account'.skus)
      /\ out = "succeeded" /\ NextKey(e) = "assign_licenses" => worker[e].plan.skus \subseteq account'.skus
  BY <1>2, <1>3, <1>4 DEF AccountRecords
<1>7. WorkerOK(to, runs, account') /\ Carrying(worker[e])
  BY <1>1, <1>4, <1>5, <1>6, OneMoreDone
<1> HIDE DEF to
<1> QED  BY <1>1, <1>4, <1>5, <1>6, <1>7, WorkerMoves DEF to

LEMMA RestIsOK == Resting \in WorkerRecords /\ Resting.pc = "idle" /\ \A rs, acc : WorkerOK(Resting, rs, acc)
BY EmptySeq DEF Resting, NoPlan, WorkerRecords, Plans, WorkerOK, Carrying

(* A run is recorded: none is in flight, so that no request carries one.   *)
LEMMA RunIsRecorded ==
  ASSUME ProvIInv, NEW e \in ProvRequests, RecordRun(e)
  PROVE  ProvIInv'
<1> DEFINE w == worker[e]  n == Len(runs)
<1>1. /\ w \in WorkerRecords /\ WorkerOK(w, runs, account) /\ w.pc = "checked" /\ w.plan \in Plans
      /\ runs \in Seq(RunRecords) /\ n \in Nat /\ DOMAIN runs = 1 .. n
  BY CarriedIs, LenProperties DEF RecordRun, ProvIInv, ProvTypeOK
<1>2. CASE worker' = [worker EXCEPT ![e] = Resting] /\ UNCHANGED runs
  BY <1>2, RestIsOK, WorkerMoves DEF RecordRun, ProvIInv, ProvTypeOK, Carrying, AccountIsAsPlanned, CloudPcOnlyWhenLicensed
<1>3. CASE ~(Len(runs) = MaxRuns \/ \E k \in DOMAIN runs : runs[k].status \in InFlight)
  <2> DEFINE new == [status |-> "running", plan |-> w.plan, steps |-> <<>>, late |-> FALSE]
             to  == [w EXCEPT !.pc = "recorded", !.run = n + 1]
  <2>1. runs' = Append(runs, new) /\ worker' = [worker EXCEPT ![e] = to] /\ UNCHANGED <<account, poll>>
    BY <1>3 DEF RecordRun
  <2>2. new \in RunRecords /\ new.status = "running" /\ new.plan = w.plan
    BY <1>1, EmptySeq DEF RunRecords, InFlight
  <2>3. to \in WorkerRecords /\ to.pc = "recorded" /\ to.run = n + 1 /\ to.plan = w.plan /\ to.done = w.done
    <3>1. n + 1 \in Nat /\ w \in WorkerRecords
      BY <1>1
    <3> HIDE DEF w, n
    <3> QED  BY <3>1 DEF WorkerRecords
  <2>4. PlanOK(w.plan) /\ w.done = <<>>
    BY <1>1 DEF WorkerOK
  <2>5. \A k \in DOMAIN runs : runs[k].status \notin InFlight
    BY <1>3
  <2>6. \A f \in ProvRequests : ~Carrying(worker[f])
    BY <2>5 DEF ProvIInv, WorkersOK, WorkerOK, CarriesItsRun, InFlight
  <2> HIDE DEF new, to, w, n
  <2>7. /\ runs' \in Seq(RunRecords) /\ DOMAIN runs' = 1 .. n + 1 /\ runs'[n + 1] = new
        /\ \A k \in DOMAIN runs : k \in DOMAIN runs' /\ runs'[k] = runs[k]
    <3>1. /\ Append(runs, new) \in Seq(RunRecords) /\ Len(Append(runs, new)) = n + 1
          /\ \A k \in 1 .. n : Append(runs, new)[k] = runs[k]
          /\ Append(runs, new)[n + 1] = new
      BY <1>1, <2>2, AppendProperties DEF n
    <3> QED  BY <1>1, <2>1, <3>1, LenProperties
  <2>8. worker'[e] = to /\ \A f \in ProvRequests : f # e => worker'[f] = worker[f]
    BY <2>1 DEF ProvIInv, ProvTypeOK
  <2>9. ProvTypeOK'
    BY <2>1, <2>3, <2>7 DEF ProvIInv, ProvTypeOK
  <2>10. WorkersOK'
    <3>1. WorkerOK(to, runs', account')
      <4>1. Len(w.plan.steps) \in Nat
        BY <1>1, LenProperties DEF Plans
      <4>2. StepsAreDone(to, account')
        BY <2>3, <2>4, <4>1 DEF StepsAreDone
      <4>3. CarriesItsRun(to, runs')
        BY <1>1, <2>2, <2>3, <2>7 DEF CarriesItsRun
      <4> QED  BY <2>3, <2>4, <4>2, <4>3 DEF WorkerOK
    <3>2. \A f \in ProvRequests : f # e => WorkerOK(worker[f], runs', account')
      BY <2>6 DEF ProvIInv, WorkersOK, WorkerOK
    <3> QED  BY <2>8, <3>1, <3>2 DEF WorkersOK
  <2>11. OneCarries'
    BY <2>6, <2>8 DEF OneCarries
  <2>12. PollsOK'
    BY <2>1, <2>7 DEF ProvIInv, PollsOK, PollOK
  <2>13. OneRunInFlight'
    BY <1>1, <2>5, <2>7 DEF OneRunInFlight
  <2>14. AccountIsAsPlanned'
    <3>1. CloudPcOnlyWhenLicensed' = CloudPcOnlyWhenLicensed
      BY <2>1 DEF CloudPcOnlyWhenLicensed
    <3>2. SucceededIsComplete'
      BY <1>1, <2>2, <2>7 DEF ProvIInv, AccountIsAsPlanned, SucceededIsComplete
    <3> QED  BY <3>1, <3>2 DEF ProvIInv, AccountIsAsPlanned
  <2> QED  BY <2>9, <2>10, <2>11, <2>12, <2>13, <2>14 DEF ProvIInv
<1> QED  BY <1>2, <1>3 DEF RecordRun

(* The rest of what a request writes of its run.                           *)
LEMMA RequestRecords ==
  ASSUME ProvIInv, NEW e \in ProvRequests, RecordSteps(e) \/ RecordOutcomes(e) \/ RecordStatus(e)
  PROVE  ProvIInv'
<1> DEFINE w == worker[e]  k == worker[e].run
<1>1. Carrying(w)
  BY DEF RecordSteps, RecordOutcomes, RecordStatus, Carrying
<1>2. /\ w \in WorkerRecords /\ k \in DOMAIN runs /\ runs[k] \in RunRecords /\ runs[k].plan = w.plan
      /\ w.plan \in Plans /\ w.plan.steps \in Seq(StepKeys) /\ w.done \in Seq(Outcomes)
      /\ DOMAIN w.done = 1 .. Len(w.done) /\ DOMAIN w.plan.steps = 1 .. Len(w.plan.steps)
      /\ Len(w.done) \in Nat /\ Len(w.plan.steps) \in Nat
      /\ StepsAreDone(w, account) /\ CarriesItsRun(w, runs) /\ PlanOK(w.plan)
  BY <1>1, CarriedIs DEF WorkerOK, Carrying
<1>3. \A r \in RunRecords : runs' = [runs EXCEPT ![k] = r] => k \in DOMAIN runs' /\ runs'[k] = r
  BY <1>2
<1>4. CASE RecordSteps(e)
  <2> DEFINE new == [runs[k] EXCEPT !.steps = [i \in DOMAIN w.plan.steps |-> "pending"]]
             to  == [w EXCEPT !.pc = "executing"]
  <2>1. runs' = [runs EXCEPT ![k] = new] /\ worker' = [worker EXCEPT ![e] = to] /\ UNCHANGED <<account, poll>> /\ w.pc = "recorded"
    BY <1>4 DEF RecordSteps
  <2>2. [i \in DOMAIN w.plan.steps |-> "pending"] \in Seq(Outcomes \cup {"pending"})
    BY <1>2, IsASeq
  <2>3. new \in RunRecords /\ new.plan = w.plan /\ new.status = runs[k].status /\ DOMAIN new.steps = DOMAIN w.plan.steps
    BY <1>2, <2>2 DEF RunRecords
  <2>4. to \in WorkerRecords /\ to.pc = "executing" /\ to.run = k /\ to.plan = w.plan /\ to.done = <<>>
    BY <1>2, <2>1, CarriedIs DEF WorkerRecords, WorkerOK
  <2>5. runs[k].status = "running"
    BY <1>2 DEF CarriesItsRun
  <2> HIDE DEF new, to, w, k
  <2>6. WorkerOK(to, runs', account)
    <3>1. StepsAreDone(to, account)
      BY <1>2, <2>4 DEF StepsAreDone
    <3>2. CarriesItsRun(to, runs')
      BY <1>3, <2>1, <2>3, <2>4, <2>5 DEF CarriesItsRun
    <3> QED  BY <1>2, <2>4, <3>1, <3>2 DEF WorkerOK
  <2> QED  BY <1>1, <2>1, <2>3, <2>4, <2>5, <2>6, CarrierWrites DEF w, k
<1>5. CASE RecordOutcomes(e)
  <2> DEFINE steps == [i \in DOMAIN runs[k].steps |-> IF i \in DOMAIN w.done THEN w.done[i] ELSE "skipped"]
             new == [runs[k] EXCEPT !.steps = steps]
             to  == [w EXCEPT !.pc = "outcomes"]
  <2>1. runs' = [runs EXCEPT ![k] = new] /\ worker' = [worker EXCEPT ![e] = to] /\ UNCHANGED <<account, poll>> /\ w.pc = "executed"
    BY <1>5 DEF RecordOutcomes
  <2>2. DOMAIN runs[k].steps = DOMAIN w.plan.steps /\ runs[k].status = "running"
    BY <1>2, <2>1 DEF CarriesItsRun
  <2>3. steps \in Seq(Outcomes \cup {"pending"})
    <3>1. \A i \in DOMAIN w.done : w.done[i] \in Outcomes
      BY <1>2, ElementOfSeq
    <3> QED  BY <1>2, <2>2, <3>1, IsASeq DEF Outcomes
  <2>4. new \in RunRecords /\ new.plan = w.plan /\ new.status = runs[k].status /\ new.steps = steps
    BY <1>2, <2>3 DEF RunRecords
  <2>5. to \in WorkerRecords /\ to.pc = "outcomes" /\ to.run = k /\ to.plan = w.plan /\ to.done = w.done
    BY <1>2 DEF WorkerRecords
  <2>6. \A i \in DOMAIN w.done : steps[i] = w.done[i]
    BY <1>2, <2>2 DEF StepsAreDone
  <2>7. DOMAIN steps = DOMAIN w.plan.steps
    BY <2>2
  <2> HIDE DEF new, to, w, k, steps
  <2>8. WorkerOK(to, runs', account)
    <3>1. StepsAreDone(to, account)
      BY <1>2, <2>1, <2>5 DEF StepsAreDone
    <3>2. CarriesItsRun(to, runs')
      BY <1>3, <2>1, <2>2, <2>4, <2>5, <2>6, <2>7 DEF CarriesItsRun
    <3> QED  BY <1>2, <2>5, <3>1, <3>2 DEF WorkerOK
  <2> QED  BY <1>1, <2>1, <2>2, <2>4, <2>5, <2>8, CarrierWrites DEF w, k
<1>6. CASE RecordStatus(e)
  <2> DEFINE new == [runs[k] EXCEPT !.status = RunStatus(w.done, w.plan)]
  <2>1. runs' = [runs EXCEPT ![k] = new] /\ worker' = [worker EXCEPT ![e] = Resting] /\ UNCHANGED <<account, poll>> /\ w.pc = "outcomes"
    BY <1>6 DEF RecordStatus
  <2>2. /\ new \in RunRecords /\ new.plan = w.plan /\ new.status = RunStatus(w.done, w.plan) /\ new.steps = runs[k].steps
    BY <1>2 DEF RunRecords, RunStatus, InFlight, Ended
  <2>3. RunStatus(w.done, w.plan) # "failed" => Complete(new)
    <3> SUFFICES ASSUME RunStatus(w.done, w.plan) # "failed" PROVE Complete(new)
      OBVIOUS
    <3>1. \A i \in DOMAIN w.done : w.done[i] # "failed"
      BY DEF RunStatus
    <3>2. Len(w.done) = Len(w.plan.steps)
      BY <1>2, <2>1, <3>1 DEF StepsAreDone
    <3>3. DOMAIN runs[k].steps = DOMAIN w.plan.steps /\ \A i \in DOMAIN w.done : runs[k].steps[i] = w.done[i]
      BY <1>2, <2>1 DEF CarriesItsRun
    <3>4. \A i \in DOMAIN w.done : w.done[i] \in Outcomes /\ (w.done[i] = "skipped" => w.plan.steps[i] = "issue_tap")
      BY <1>2, ElementOfSeq DEF StepsAreDone
    <3> HIDE DEF new, w, k
    <3> QED  BY <1>2, <2>2, <3>1, <3>2, <3>3, <3>4 DEF Complete, Outcomes
  <2> HIDE DEF new, w, k
  <2> QED  BY <1>1, <2>1, <2>2, <2>3, RestIsOK, CarrierWrites DEF w, k
<1> QED  BY <1>4, <1>5, <1>6

LEMMA ProvInitOK == ProvInit => ProvIInv
<1> SUFFICES ASSUME ProvInit PROVE ProvIInv
  OBVIOUS
<1>1. runs = <<>> /\ runs \in Seq(RunRecords) /\ DOMAIN runs = {}
  BY EmptySeq DEF ProvInit
<1>2. ProvTypeOK
  BY <1>1, RestIsOK DEF ProvInit, ProvTypeOK, AccountRecords, PollRecords, NotPolled
<1>3. WorkersOK /\ OneCarries /\ PollsOK
  BY RestIsOK DEF ProvInit, WorkersOK, OneCarries, PollsOK, PollOK, NotPolled, Carrying
<1>4. OneRunInFlight /\ AccountIsAsPlanned
  BY <1>1 DEF ProvInit, OneRunInFlight, AccountIsAsPlanned, CloudPcOnlyWhenLicensed, SucceededIsComplete
<1> QED  BY <1>2, <1>3, <1>4 DEF ProvIInv

LEMMA PollerKeeps ==
  ASSUME ProvIInv, NEW p \in ProvPollers, PollerStep(p)
  PROVE  ProvIInv'
<1>0. ProvTypeOK /\ DOMAIN runs = 1 .. Len(runs) /\ poll[p] \in PollRecords
      /\ \A k \in DOMAIN runs : runs[k] \in RunRecords /\ k \in Nat
  BY LenProperties, ElementOfSeq DEF ProvIInv, ProvTypeOK
<1>1. ASSUME NEW k \in DOMAIN runs, PollLookup(p, k) PROVE ProvIInv'
  <2>1. PICK verdict \in {"awaiting_cloudpc"} \cup Ended : poll' = [poll EXCEPT ![p] = [run |-> k, verdict |-> verdict]]
    BY <1>1 DEF PollLookup, NextRunState, Ended
  <2> DEFINE q == [run |-> k, verdict |-> verdict]
  <2>2. q \in PollRecords /\ q.run = k
    BY <1>0 DEF PollRecords
  <2>3. runs[k].status = "awaiting_cloudpc" /\ Complete(runs[k])
    BY <1>1 DEF PollLookup, ProvIInv, AccountIsAsPlanned, SucceededIsComplete, Complete
  <2> HIDE DEF q
  <2>4. poll' \in [ProvPollers -> PollRecords] /\ poll'[p] = q /\ \A o \in ProvPollers : o # p => poll'[o] = poll[o]
    BY <1>0, <2>1, <2>2 DEF ProvTypeOK, q
  <2>5. PollsOK'
    BY <1>1, <2>2, <2>3, <2>4 DEF PollLookup, ProvIInv, PollsOK, PollOK
  <2> QED  BY <1>0, <1>1, <2>4, <2>5 DEF PollLookup, ProvIInv, ProvTypeOK, WorkersOK, OneCarries, OneRunInFlight,
              AccountIsAsPlanned, CloudPcOnlyWhenLicensed, SucceededIsComplete
<1>2. CASE PollWrite(p)
  <2> DEFINE k == poll[p].run  verdict == poll[p].verdict
  <2>1. /\ poll[p].run # 0 /\ UNCHANGED <<account, worker, deaths>> /\ poll' = [poll EXCEPT ![p] = NotPolled]
        /\ NotPolled \in PollRecords /\ NotPolled.run = 0
    BY <1>2 DEF PollWrite, NotPolled, PollRecords
  <2>2. poll' \in [ProvPollers -> PollRecords] /\ \A o \in ProvPollers : poll'[o] = poll[o] \/ poll'[o].run = 0
    BY <1>0, <2>1 DEF ProvTypeOK
  <2>3. k \in DOMAIN runs /\ runs[k].status # "running" /\ Complete(runs[k]) /\ verdict \in {"awaiting_cloudpc"} \cup Ended
    BY <1>0, <2>1 DEF ProvIInv, PollsOK, PollOK, PollRecords
  <2>4. CASE verdict = "awaiting_cloudpc"
    <3>1. runs' = runs
      BY <1>2, <2>4 DEF PollWrite
    <3>2. PollsOK'
      BY <2>2, <3>1 DEF ProvIInv, PollsOK, PollOK
    <3> QED  BY <1>0, <2>1, <2>2, <3>1, <3>2 DEF ProvIInv, ProvTypeOK, WorkersOK, OneCarries, OneRunInFlight,
                AccountIsAsPlanned, CloudPcOnlyWhenLicensed, SucceededIsComplete
  <2>5. CASE verdict # "awaiting_cloudpc"
    <3> DEFINE new == [runs[k] EXCEPT !.status = verdict]
    <3>1. runs' = [runs EXCEPT ![k] = new]
      BY <1>2, <2>5 DEF PollWrite
    <3>2. new \in RunRecords /\ new.plan = runs[k].plan /\ new.steps = runs[k].steps /\ new.status = verdict
      BY <1>0, <2>3, <2>5 DEF RunRecords
    <3>3. verdict \in Ended /\ verdict # "running" /\ verdict \notin InFlight
      BY <2>3, <2>5 DEF Ended, InFlight
    <3> HIDE DEF new, k, verdict
    <3> QED  BY <2>1, <2>2, <2>3, <3>1, <3>2, <3>3, OthersWrite
  <2> QED  BY <2>4, <2>5
<1> QED  BY <1>1, <1>2 DEF PollerStep

LEMMA ProvStep == ProvIInv /\ [ProvNext]_provVars => ProvIInv'
<1> SUFFICES ASSUME ProvIInv, [ProvNext]_provVars PROVE ProvIInv'
  OBVIOUS
<1>0. /\ ProvTypeOK /\ (account.inGroup => "cloudpc" \in account.skus) /\ account \in AccountRecords
      /\ DOMAIN runs = 1 .. Len(runs) /\ \A k \in DOMAIN runs : runs[k] \in RunRecords
  BY LenProperties, ElementOfSeq DEF ProvIInv, ProvTypeOK, AccountIsAsPlanned, CloudPcOnlyWhenLicensed
<1>1. ASSUME NEW e \in ProvRequests, ProvisionCheck(e) PROVE ProvIInv'
  <2>1. PICK in \in ProvInputs : worker' = [worker EXCEPT ![e] = [Resting EXCEPT !.pc = "checked", !.plan = PlanRun(in)]]
    BY <1>1 DEF ProvisionCheck
  <2> DEFINE to == [Resting EXCEPT !.pc = "checked", !.plan = PlanRun(in)]
  <2>2. PlanRun(in) \in Plans /\ PlanOK(PlanRun(in))
    BY PlannedInOrder
  <2>3. to \in WorkerRecords /\ to.pc = "checked" /\ to.plan = PlanRun(in) /\ to.done = <<>>
    BY <2>2, RestIsOK DEF WorkerRecords, Resting
  <2> HIDE DEF to
  <2>4. WorkerOK(to, runs, account') /\ ~Carrying(to)
    BY <2>2, <2>3 DEF WorkerOK, Carrying
  <2> QED  BY <1>0, <1>1, <2>1, <2>3, <2>4, WorkerMoves DEF ProvisionCheck, to
<1>2. ASSUME NEW e \in ProvRequests, WorkerDies(e) PROVE ProvIInv'
  BY <1>0, <1>2, RestIsOK, WorkerMoves DEF WorkerDies, Carrying
<1>3. ASSUME NEW e \in ProvRequests, ExecuteEnds(e) PROVE ProvIInv'
  <2> DEFINE w == worker[e]  to == [worker[e] EXCEPT !.pc = "executed"]
  <2>1. /\ w.pc = "executing" /\ Len(w.done) = Len(w.plan.steps) /\ worker' = [worker EXCEPT ![e] = to]
        /\ UNCHANGED <<runs, account, poll>>
    BY <1>3 DEF ExecuteEnds
  <2>2. w \in WorkerRecords /\ WorkerOK(w, runs, account)
    BY CarriedIs
  <2>3. to \in WorkerRecords /\ to.pc = "executed" /\ to.plan = w.plan /\ to.done = w.done /\ to.run = w.run
    BY <2>2 DEF WorkerRecords
  <2> HIDE DEF to
  <2>4. WorkerOK(to, runs, account') /\ Carrying(w)
    BY <2>1, <2>2, <2>3 DEF WorkerOK, Carrying, StepsAreDone, CarriesItsRun
  <2> QED  BY <1>0, <2>1, <2>3, <2>4, WorkerMoves
<1>4. CASE ResendCredentials
  <2>1. account' \in AccountRecords /\ account'.skus = account.skus /\ account'.inGroup = account.inGroup
    BY <1>0, <1>4 DEF ResendCredentials, AccountRecords
  <2>2. \A e \in ProvRequests : WorkerOK(worker[e], runs, account')
    BY <2>1, WorkerStays DEF ProvIInv, WorkersOK
  <2> QED  BY <1>4, <2>1, <2>2 DEF ResendCredentials, ProvIInv, ProvTypeOK, WorkersOK, OneCarries, PollsOK, OneRunInFlight,
              AccountIsAsPlanned, CloudPcOnlyWhenLicensed, SucceededIsComplete
<1>5. ASSUME NEW k \in DOMAIN runs, DeadlinePasses(k) PROVE ProvIInv'
  <2> DEFINE new == [runs[k] EXCEPT !.late = TRUE]
  <2>1. runs' = [runs EXCEPT ![k] = new] /\ runs[k].status = "awaiting_cloudpc" /\ UNCHANGED <<account, worker, poll>>
    BY <1>5 DEF DeadlinePasses
  <2>2. new \in RunRecords /\ new.plan = runs[k].plan /\ new.steps = runs[k].steps /\ new.status = runs[k].status
    BY <1>0 DEF RunRecords
  <2>3. Complete(runs[k])
    BY <2>1 DEF ProvIInv, AccountIsAsPlanned, SucceededIsComplete, Complete
  <2> HIDE DEF new
  <2> QED  BY <1>0, <2>1, <2>2, <2>3, OthersWrite DEF ProvTypeOK
<1>6. CASE UNCHANGED provVars
  BY <1>6 DEF provVars, ProvIInv, ProvTypeOK, WorkersOK, OneCarries, PollsOK, OneRunInFlight,
     AccountIsAsPlanned, CloudPcOnlyWhenLicensed, SucceededIsComplete
<1> QED
  BY <1>1, <1>2, <1>3, <1>4, <1>5, <1>6, StepOfRequest, RunIsRecorded, RequestRecords, PollerKeeps DEF ProvNext, WorkerStep

(* At most one run of a ticket is in flight, for any number of requests,   *)
(* pollers, deaths and plans.                                              *)
THEOREM RunsAreAlone == ProvSpec => []OneRunInFlight
<1>1. ProvIInv => OneRunInFlight
  BY DEF ProvIInv
<1> QED  BY <1>1, ProvInitOK, ProvStep, PTL DEF ProvSpec

(* What the runs say of the account is done to it, and no account waits    *)
(* for a Cloud PC it has no licence for.                                   *)
THEOREM AccountsAreAsPlanned == ProvSpec => []AccountIsAsPlanned
<1>1. ProvIInv => AccountIsAsPlanned
  BY DEF ProvIInv
<1> QED  BY <1>1, ProvInitOK, ProvStep, PTL DEF ProvSpec

(* A run that has ended is not in flight again, however late a poller      *)
(* writes what it looked up.                                               *)
THEOREM EndedRunsStayEnded == ProvSpec => EndedStaysEnded
<1> DEFINE Stays == \A k \in DOMAIN runs : runs[k].status \in Ended => runs'[k].status \in Ended
<1>1. ProvIInv /\ [ProvNext]_provVars => [Stays]_provVars
  <2> SUFFICES ASSUME ProvIInv, ProvNext, NEW k \in DOMAIN runs, runs[k].status \in Ended PROVE runs'[k].status \in Ended
    OBVIOUS
  <2>0. runs \in Seq(RunRecords) /\ DOMAIN runs = 1 .. Len(runs) /\ Len(runs) \in Nat
    BY LenProperties DEF ProvIInv, ProvTypeOK
  <2>1. CASE UNCHANGED runs
    BY <2>1
  <2>2. ASSUME NEW j \in DOMAIN runs, NEW r, runs' = [runs EXCEPT ![j] = r], j = k => r.status \in Ended
        PROVE  runs'[k].status \in Ended
    BY <2>2
  <2>3. ASSUME NEW e \in ProvRequests, WorkerStep(e) PROVE runs'[k].status \in Ended
    <3>1. CASE RecordRun(e)
      BY <2>0, <3>1, AppendProperties DEF RecordRun
    <3>2. CASE RecordSteps(e) \/ RecordOutcomes(e) \/ RecordStatus(e)
      <4>1. /\ worker[e].run \in DOMAIN runs /\ runs[worker[e].run].status = "running"
        BY <3>2 DEF ProvIInv, WorkersOK, WorkerOK, CarriesItsRun, Carrying, RecordSteps, RecordOutcomes, RecordStatus
      <4>2. worker[e].run # k
        BY <4>1 DEF Ended
      <4> QED  BY <3>2, <4>2 DEF RecordSteps, RecordOutcomes, RecordStatus
    <3> QED  BY <2>3, <3>1, <3>2 DEF WorkerStep, StepSucceeds, StepFails, ExecuteEnds
  <2>4. ASSUME NEW p \in ProvPollers, PollWrite(p) PROVE runs'[k].status \in Ended
    <3>1. poll[p].verdict \in {"awaiting_cloudpc"} \cup Ended
      BY DEF ProvIInv, ProvTypeOK, PollRecords
    <3>2. runs[k] \in RunRecords
      BY <2>0, ElementOfSeq
    <3> QED  BY <2>4, <3>1, <3>2 DEF PollWrite, RunRecords
  <2>5. ASSUME NEW j \in DOMAIN runs, DeadlinePasses(j) PROVE runs'[k].status \in Ended
    BY <2>5 DEF DeadlinePasses, Ended
  <2> QED  BY <2>1, <2>3, <2>4, <2>5 DEF ProvNext, ProvisionCheck, WorkerDies, ResendCredentials, PollerStep, PollLookup
<1> QED  BY <1>1, ProvInitOK, ProvStep, PTL DEF ProvSpec, EndedStaysEnded

-----------------------------------------------------------------------------
(* Offboarding                                                             *)

OffOutcomes == {"succeeded", "skipped", "failed", "awaiting_manual"}
OffDays == {"approved", "edited", "bad", "none"}
OffPlans == [steps : {<<>>, OffSteps(TRUE), OffSteps(FALSE)}, lastDay : OffDays, licensed : BOOLEAN]
ArmedRecords == [status : InFlightStatuses \cup {"cancelled", "succeeded", "failed", "needs_review"},
                 plan : OffPlans, due : BOOLEAN, why : {"none", "interrupted", "error", "drift", "manual"},
                 claims : Nat, blocked : BOOLEAN, lost : BOOLEAN]
FireRecords == [pc : {"idle", "claimed", "steps", "hold", "finish"}, run : Nat, plan : OffPlans,
                drifted : BOOLEAN, done : Seq(OffOutcomes)]
AnswerRecords == [lastDay : OffDays, legalHold : BOOLEAN]
PersonRecords == [exists : BOOLEAN, enabled : BOOLEAN, renamed : BOOLEAN, licensed : BOOLEAN,
                  mailbox : {"none", "user", "shared"}]

OffTypeOK ==
  /\ answers \in AnswerRecords /\ draft \in AnswerRecords /\ person \in PersonRecords
  /\ armed \in Seq(ArmedRecords) /\ armer \in [Armers -> OffPlans]
  /\ fire \in [OffSweepers -> FireRecords] /\ held \in BOOLEAN

(* A run is claimed once, and not while it can still be cancelled.         *)
ClaimedOnce(r) == r.claims <= 1 /\ (r.status \in {"scheduled", "cancelled"} => r.claims = 0)

(* What is done of a plan: sign-in is blocked first, whose failure ends    *)
(* the run; a conversion is passed only by skipping the rest with it.      *)
Done(f) ==
  /\ f.plan.steps = OffSteps(f.plan.licensed) /\ Len(f.done) <= Len(f.plan.steps)
  /\ f.done # <<>> => f.done[1] \in {"succeeded", "failed"}
  /\ f.pc = "steps" => \A i \in DOMAIN f.done :
       /\ f.done[i] \in {"succeeded", "skipped"}
       /\ f.plan.steps[i] = "convert_shared_mailbox" => f.drifted
  /\ f.pc # "steps" => f.done # <<>>

(* What is on record of it with the run, and of the hold it owes.          *)
OnRecord(f, rs, h) ==
  /\ f.done # <<>> /\ f.done[1] = "succeeded" => rs[f.run].blocked
  /\ f.pc = "finish" /\ f.done[1] = "succeeded" => h \/ rs[f.run].lost

FireOK(f, rs, h) ==
  /\ f.pc # "idle" => f.run \in DOMAIN rs /\ rs[f.run].claims = 1
  /\ f.pc = "claimed" => f.done = <<>>
  /\ f.pc \in {"steps", "hold", "finish"} => Done(f) /\ OnRecord(f, rs, h)

Secured(r, h) ==
  r.status = "succeeded" \/ (r.status = "needs_review" /\ r.why # "interrupted") => r.blocked /\ (h \/ r.lost)

ArmedOK(rs, h) == \A k \in DOMAIN rs : ClaimedOnce(rs[k]) /\ Secured(rs[k], h)
FiresOK == \A s \in OffSweepers : FireOK(fire[s], armed, held)
MailboxSafe(p) == (p.exists /\ p.mailbox = "user" => p.licensed) /\ (p.licensed => p.mailbox # "none")

OffIInv == OffTypeOK /\ ArmedOK(armed, held) /\ FiresOK /\ MailboxSafe(person)

-----------------------------------------------------------------------------

(* The steps of a plan.                                                    *)
LEMMA StepsOfPlan ==
  ASSUME NEW b \in BOOLEAN
  PROVE  /\ OffSteps(b) # <<>> /\ Len(OffSteps(b)) \in Nat /\ Len(OffSteps(b)) >= 1
         /\ DOMAIN OffSteps(b) = 1 .. Len(OffSteps(b)) /\ OffSteps(b)[1] = "block_signin"
         /\ \A i \in DOMAIN OffSteps(b) : /\ OffSteps(b)[i] = "block_signin" => i = 1
                                          /\ b /\ OffSteps(b)[i] = "remove_licenses" =>
                                               \E j \in 1 .. i - 1 : OffSteps(b)[j] = "convert_shared_mailbox"
<1>1. CASE b
  <2> DEFINE t == <<"block_signin", "revoke_sessions", "rename_account",
                    "convert_shared_mailbox", "remove_licenses", "remove_groups_dls_roles">>
  <2>1. OffSteps(b) = t /\ Len(t) = 6 /\ DOMAIN t = 1 .. 6 /\ t # <<>>
    BY <1>1 DEF OffSteps
  <2>2. t[1] = "block_signin" /\ t[4] = "convert_shared_mailbox"
        /\ \A i \in 1 .. 6 : (t[i] = "block_signin" => i = 1) /\ (t[i] = "remove_licenses" => i = 5)
    OBVIOUS
  <2> HIDE DEF t
  <2> QED  BY <2>1, <2>2
<1>2. CASE ~b
  BY <1>2 DEF OffSteps
<1> QED  BY <1>1, <1>2

(* A plan that is built now.                                               *)
LEMMA PlanIs ==
  ASSUME OffTypeOK
  PROVE  OffPlan \in OffPlans /\ OffPlan.steps = OffSteps(OffPlan.licensed) /\ EmptyPlan \in OffPlans
         /\ Quiet \in FireRecords /\ Quiet.pc = "idle"
<1>1. EmptyPlan \in OffPlans /\ Quiet \in FireRecords /\ Quiet.pc = "idle"
  BY EmptySeq DEF EmptyPlan, OffPlans, OffDays, Quiet, FireRecords
<1>2. \A b \in BOOLEAN, d \in OffDays : [steps |-> OffSteps(b), lastDay |-> d, licensed |-> b] \in OffPlans
  <2> TAKE b \in BOOLEAN, d \in OffDays
  <2>1. CASE b = TRUE
    BY <2>1 DEF OffPlans
  <2>2. CASE b = FALSE
    BY <2>2 DEF OffPlans
  <2> QED  BY <2>1, <2>2
<1>3. (person.exists /\ person.licensed) \in BOOLEAN /\ answers.lastDay \in OffDays
  BY DEF OffTypeOK, PersonRecords, AnswerRecords
<1> QED  BY <1>1, <1>2, <1>3 DEF OffPlan

(* What a sweeper knows of its run holds on while runs only gain.          *)
LEMMA FireStays ==
  ASSUME NEW f, NEW rs, NEW ns, NEW h \in BOOLEAN, NEW nh \in BOOLEAN, FireOK(f, rs, h), h => nh,
         DOMAIN rs \subseteq DOMAIN ns,
         \A k \in DOMAIN rs : /\ rs[k].claims = 1 => ns[k].claims = 1
                              /\ rs[k].blocked => ns[k].blocked
                              /\ rs[k].lost => ns[k].lost
  PROVE  FireOK(f, ns, nh)
BY DEF FireOK, OnRecord

(* Run k becomes new, and a sweeper moves, or none.                        *)
LEMMA RunBecomes ==
  ASSUME OffIInv, NEW k \in DOMAIN armed, NEW new \in ArmedRecords, armed' = [armed EXCEPT ![k] = new],
         held' \in BOOLEAN, held => held', ClaimedOnce(new), Secured(new, held'),
         armed[k].claims = 1 => new.claims = 1, armed[k].blocked => new.blocked, armed[k].lost => new.lost,
         answers' \in AnswerRecords, draft' \in AnswerRecords, person' \in PersonRecords, MailboxSafe(person'),
         armer' \in [Armers -> OffPlans], fire' \in [OffSweepers -> FireRecords],
         \A s \in OffSweepers : fire'[s] = fire[s] \/ FireOK(fire'[s], armed', held')
  PROVE  OffIInv' /\ armed'[k] = new
<1>1. armed \in Seq(ArmedRecords) /\ DOMAIN armed = 1 .. Len(armed) /\ Len(armed) \in Nat /\ held \in BOOLEAN
  BY LenProperties DEF OffIInv, OffTypeOK
<1>2. armed' \in Seq(ArmedRecords) /\ DOMAIN armed' = DOMAIN armed
  BY <1>1, ExceptSeq
<1>3. armed'[k] = new /\ \A j \in DOMAIN armed : j # k => armed'[j] = armed[j]
  BY <1>1
<1>4. OffTypeOK'
  BY <1>2 DEF OffTypeOK
<1>5. ArmedOK(armed', held')
  BY <1>2, <1>3 DEF OffIInv, ArmedOK, Secured
<1>6. ASSUME NEW s \in OffSweepers PROVE FireOK(fire'[s], armed', held')
  <2>1. \A j \in DOMAIN armed : /\ armed[j].claims = 1 => armed'[j].claims = 1
                                /\ armed[j].blocked => armed'[j].blocked
                                /\ armed[j].lost => armed'[j].lost
    BY <1>3
  <2>2. FireOK(fire[s], armed, held)
    BY DEF OffIInv, FiresOK
  <2>3. FireOK(fire[s], armed', held')
    BY <1>2, <2>1, <2>2 DEF FireOK, OnRecord
  <2> QED  BY <2>3
<1> QED  BY <1>3, <1>4, <1>5, <1>6 DEF OffIInv, FiresOK

(* The runs stay as they are.                                              *)
LEMMA RunsStay ==
  ASSUME OffIInv, armed' = armed, held' \in BOOLEAN, held => held',
         answers' \in AnswerRecords, draft' \in AnswerRecords, person' \in PersonRecords, MailboxSafe(person'),
         armer' \in [Armers -> OffPlans], fire' \in [OffSweepers -> FireRecords],
         \A s \in OffSweepers : fire'[s] = fire[s] \/ FireOK(fire'[s], armed, held')
  PROVE  OffIInv'
<1>1. ArmedOK(armed', held')
  BY DEF OffIInv, ArmedOK, Secured
<1>2. ASSUME NEW s \in OffSweepers PROVE FireOK(fire'[s], armed', held')
  <2>1. FireOK(fire[s], armed, held) /\ held \in BOOLEAN
    BY DEF OffIInv, FiresOK, OffTypeOK
  <2>2. FireOK(fire[s], armed, held')
    BY <2>1, FireStays
  <2> QED  BY <2>2
<1> QED  BY <1>1, <1>2 DEF OffIInv, OffTypeOK, FiresOK

(* What is known of the run a sweeper works on.                            *)
LEMMA FireIs ==
  ASSUME OffIInv, NEW s \in OffSweepers
  PROVE  /\ fire[s] \in FireRecords /\ FireOK(fire[s], armed, held) /\ fire[s].plan \in OffPlans
         /\ fire[s].done \in Seq(OffOutcomes) /\ Len(fire[s].done) \in Nat /\ DOMAIN fire[s].done = 1 .. Len(fire[s].done)
         /\ fire[s].pc # "idle" => /\ fire[s].run \in DOMAIN armed /\ armed[fire[s].run] \in ArmedRecords
                                   /\ armed[fire[s].run].claims = 1
<1>1. fire[s] \in FireRecords /\ FireOK(fire[s], armed, held) /\ armed \in Seq(ArmedRecords)
  BY DEF OffIInv, OffTypeOK, FiresOK
<1>2. fire[s].plan \in OffPlans /\ fire[s].done \in Seq(OffOutcomes)
  BY <1>1 DEF FireRecords
<1>3. fire[s].pc # "idle" => /\ fire[s].run \in DOMAIN armed /\ armed[fire[s].run] \in ArmedRecords
                             /\ armed[fire[s].run].claims = 1
  BY <1>1, ElementOfSeq, LenProperties DEF FireOK
<1> QED  BY <1>1, <1>2, <1>3, LenProperties(* One more outcome of a plan.                                             *)
LEMMA OneMoreOutcome ==
  ASSUME OffIInv, NEW s \in OffSweepers, AtStep(s), NEW out \in OffOutcomes, NEW pc \in {"steps", "hold"},
         pc = "steps" <=> out \in {"succeeded", "skipped"},
         fire[s].done = <<>> => out \in {"succeeded", "failed"},
         pc = "steps" /\ OffKey(s) = "convert_shared_mailbox" => fire[s].drifted,
         NEW to \in FireRecords, to = [fire[s] EXCEPT !.done = Append(fire[s].done, out), !.pc = pc],
         NEW rs, DOMAIN rs = DOMAIN armed, rs[fire[s].run].claims = 1,
         armed[fire[s].run].blocked => rs[fire[s].run].blocked,
         out = "succeeded" /\ OffKey(s) = "block_signin" => rs[fire[s].run].blocked
  PROVE  FireOK(to, rs, held)
<1> DEFINE f == fire[s]  n == Len(fire[s].done)
<1>1. /\ f \in FireRecords /\ f.done \in Seq(OffOutcomes) /\ n \in Nat /\ DOMAIN f.done = 1 .. n
      /\ f.pc = "steps" /\ n < Len(f.plan.steps) /\ f.plan.steps[n + 1] = OffKey(s)
      /\ f.run \in DOMAIN armed /\ Done(f) /\ OnRecord(f, armed, held) /\ f.plan \in OffPlans
  BY FireIs DEF AtStep, OffKey, FireOK
<1>2. to.plan = f.plan /\ to.run = f.run /\ to.pc = pc /\ to.done = Append(f.done, out) /\ to.drifted = f.drifted
  BY <1>1 DEF FireRecords
<1>3. f.plan.licensed \in BOOLEAN /\ f.plan.steps = OffSteps(f.plan.licensed)
  BY <1>1 DEF OffPlans, Done
<1>4. /\ Len(f.plan.steps) \in Nat /\ DOMAIN f.plan.steps = 1 .. Len(f.plan.steps) /\ f.plan.steps[1] = "block_signin"
  BY <1>3, StepsOfPlan
<1>5. /\ Len(to.done) = n + 1 /\ DOMAIN to.done = 1 .. n + 1 /\ to.done[n + 1] = out /\ to.done # <<>>
      /\ \A i \in 1 .. n : to.done[i] = f.done[i]
  BY <1>1, <1>2, AppendProperties
<1>6. f.done = <<>> <=> n = 0
  BY <1>1, EmptySeq
<1> HIDE DEF f, n
<1>7. Done(to)
  <2>1. Len(to.done) <= Len(to.plan.steps)
    BY <1>1, <1>2, <1>4, <1>5
  <2>2. to.done[1] \in {"succeeded", "failed"}
    <3>1. CASE n = 0
      BY <1>5, <1>6, <3>1 DEF f
    <3>2. CASE n # 0
      <4>1. f.done[1] \in {"succeeded", "failed"}
        BY <1>1, <1>6, <3>2 DEF Done
      <4>2. to.done[1] = f.done[1]
        BY <1>1, <1>5, <3>2
      <4> QED  BY <4>1, <4>2
    <3> QED  BY <3>1, <3>2
  <2>3. ASSUME to.pc = "steps", NEW i \in DOMAIN to.done
        PROVE  to.done[i] \in {"succeeded", "skipped"} /\ (to.plan.steps[i] = "convert_shared_mailbox" => to.drifted)
    <3>1. CASE i = n + 1
      BY <1>1, <1>2, <1>5, <2>3, <3>1 DEF f
    <3>2. CASE i \in 1 .. n
      BY <1>1, <1>2, <1>5, <2>3, <3>2 DEF Done
    <3> QED  BY <1>1, <1>5, <2>3, <3>1, <3>2
  <2> QED  BY <1>2, <1>3, <1>5, <2>1, <2>2, <2>3 DEF Done
<1>8. OnRecord(to, rs, held)
  <2>1. CASE n = 0
    BY <1>1, <1>2, <1>4, <1>5, <2>1 DEF OnRecord, f
  <2>2. CASE n # 0
    BY <1>1, <1>2, <1>5, <1>6, <2>2 DEF OnRecord, f
  <2> QED  BY <2>1, <2>2
<1>9. rs[to.run].claims = 1 /\ to.run \in DOMAIN rs
  BY <1>1, <1>2 DEF f
<1> QED  BY <1>2, <1>7, <1>8, <1>9 DEF FireOK

(* The directory takes a step: the licence goes only with no user mailbox  *)
(* left, as the conversion was not passed over.                            *)
LEMMA DirectoryKeepsMailbox ==
  ASSUME OffIInv, NEW s \in OffSweepers, AtStep(s), fire[s].drifted => OffKey(s) \in SecuritySteps
  PROVE  Applied(OffKey(s), fire[s].plan) \in PersonRecords /\ MailboxSafe(Applied(OffKey(s), fire[s].plan))
<1> DEFINE f == fire[s]  n == Len(fire[s].done)
<1>1. /\ f.done \in Seq(OffOutcomes) /\ n \in Nat /\ DOMAIN f.done = 1 .. n
      /\ f.pc = "steps" /\ n < Len(f.plan.steps) /\ f.plan.steps[n + 1] = OffKey(s)
      /\ Done(f) /\ f.plan \in OffPlans
  BY FireIs DEF AtStep, OffKey, FireOK
<1>2. f.plan.licensed \in BOOLEAN /\ f.plan.steps = OffSteps(f.plan.licensed)
  BY <1>1 DEF OffPlans, Done
<1>3. ~(OffKey(s) = "remove_licenses" /\ f.plan.licensed)
  <2> SUFFICES ASSUME OffKey(s) = "remove_licenses", f.plan.licensed PROVE FALSE
    OBVIOUS
  <2>1. ~f.drifted
    BY DEF SecuritySteps
  <2>2. n + 1 \in DOMAIN f.plan.steps
    <3>1. DOMAIN f.plan.steps = 1 .. Len(f.plan.steps) /\ Len(f.plan.steps) \in Nat
      BY <1>2, StepsOfPlan
    <3> HIDE DEF f, n
    <3> QED  BY <1>1, <3>1
  <2>3. PICK j \in 1 .. (n + 1) - 1 : f.plan.steps[j] = "convert_shared_mailbox"
    BY <1>1, <1>2, <2>2, StepsOfPlan
  <2>4. j \in DOMAIN f.done
    BY <1>1
  <2> HIDE DEF f, n
  <2> QED  BY <1>1, <2>1, <2>3, <2>4 DEF Done
<1>4. person \in PersonRecords /\ MailboxSafe(person)
  BY DEF OffIInv, OffTypeOK
<1> HIDE DEF f
<1>5. Applied(OffKey(s), f.plan) = [person EXCEPT !.enabled = person.enabled /\ OffKey(s) # "block_signin",
                                                  !.renamed = person.renamed \/ OffKey(s) = "rename_account"]
  <2>1. (person.licensed /\ ~(OffKey(s) = "remove_licenses" /\ f.plan.licensed)) = person.licensed
    BY <1>3, <1>4 DEF PersonRecords
  <2> QED  BY <1>4, <2>1 DEF Applied, PersonRecords
<1> QED  BY <1>4, <1>5 DEF PersonRecords, MailboxSafe, f

(* The steps of a sweeper that leave the runs as they are.                 *)
LEMMA StepOfPlan ==
  ASSUME OffIInv, NEW s \in OffSweepers,
         StepDone(s) \/ StepSkipped(s) \/ StepManual(s) \/ StepFailed(s)
  PROVE  OffIInv'
<1> DEFINE f == fire[s]  k == fire[s].run
           to(out, pc) == [f EXCEPT !.done = Append(f.done, out), !.pc = pc]
<1>1. /\ AtStep(s) /\ f.pc = "steps" /\ UNCHANGED <<answers, draft, armer, held>>
      /\ f \in FireRecords /\ f.done \in Seq(OffOutcomes) /\ f.plan \in OffPlans
      /\ k \in DOMAIN armed /\ armed[k] \in ArmedRecords /\ armed[k].claims = 1
  BY FireIs DEF StepDone, StepSkipped, StepManual, StepFailed, AtStep, requestVars
<1>2. /\ answers \in AnswerRecords /\ draft \in AnswerRecords /\ person \in PersonRecords /\ MailboxSafe(person)
      /\ armer \in [Armers -> OffPlans] /\ held \in BOOLEAN /\ fire \in [OffSweepers -> FireRecords]
  BY DEF OffIInv, OffTypeOK
<1>3. f.plan.steps = OffSteps(f.plan.licensed) /\ f.plan.licensed \in BOOLEAN /\ f.plan.steps[1] = "block_signin"
  BY <1>1, FireIs, StepsOfPlan DEF FireOK, Done, OffPlans
<1>4. f.done = <<>> => OffKey(s) = "block_signin"
  BY <1>3 DEF OffKey
<1>5. \A out \in OffOutcomes, pc \in {"steps", "hold"} : to(out, pc) \in FireRecords
  BY <1>1, AppendProperties DEF FireRecords
<1>6. \A out : to(out, "steps") = [f EXCEPT !.done = Append(f.done, out)]
  BY <1>1 DEF FireRecords
<1>7. \A g \in FireRecords : fire' = [fire EXCEPT ![s] = g] =>
        /\ fire' \in [OffSweepers -> FireRecords] /\ fire'[s] = g
        /\ \A o \in OffSweepers : o # s => fire'[o] = fire[o]
  BY <1>2
<1>8. CASE StepDone(s)
  <2> DEFINE new == [armed[k] EXCEPT !.blocked = armed[k].blocked \/ OffKey(s) = "block_signin"]
  <2>1. /\ fire' = [fire EXCEPT ![s] = to("succeeded", "steps")] /\ armed' = [armed EXCEPT ![k] = new]
        /\ ~Manual(OffKey(s)) /\ (f.drifted => OffKey(s) \in SecuritySteps)
        /\ person' = Applied(OffKey(s), f.plan)
    BY <1>1, <1>6, <1>8 DEF StepDone
  <2>2. new \in ArmedRecords /\ new.claims = armed[k].claims /\ new.status = armed[k].status /\ new.why = armed[k].why
        /\ (armed[k].blocked => new.blocked) /\ new.lost = armed[k].lost /\ (OffKey(s) = "block_signin" => new.blocked)
    BY <1>1 DEF ArmedRecords
  <2>3. ClaimedOnce(new) /\ Secured(new, held)
    BY <1>1, <2>2 DEF OffIInv, ArmedOK, ClaimedOnce, Secured
  <2>4. person' \in PersonRecords /\ MailboxSafe(person')
    BY <1>1, <2>1, DirectoryKeepsMailbox
  <2> HIDE DEF new, to
  <2>5. DOMAIN armed' = DOMAIN armed /\ armed'[k] = new
    BY <1>1, <2>1
  <2>6. FireOK(to("succeeded", "steps"), armed', held)
    BY <1>1, <1>5, <2>1, <2>2, <2>5, OneMoreOutcome DEF to, OffOutcomes, Manual
  <2>7. to("succeeded", "steps") \in FireRecords
    BY <1>5 DEF OffOutcomes
  <2> QED  BY <1>1, <1>2, <1>7, <2>1, <2>2, <2>3, <2>4, <2>6, <2>7, RunBecomes
<1>9. CASE StepSkipped(s) \/ StepManual(s) \/ StepFailed(s)
  <2>1. PICK out \in OffOutcomes, pc \in {"steps", "hold"} :
          /\ fire' = [fire EXCEPT ![s] = to(out, pc)]
          /\ pc = "steps" <=> out \in {"succeeded", "skipped"}
          /\ fire[s].done = <<>> => out \in {"succeeded", "failed"}
          /\ pc = "steps" => f.drifted
          /\ out # "succeeded"
    <3>1. CASE StepSkipped(s)
      <4>1. fire' = [fire EXCEPT ![s] = to("skipped", "steps")] /\ f.drifted /\ f.done # <<>>
        BY <1>4, <1>6, <3>1 DEF StepSkipped, SecuritySteps
      <4> QED  BY <4>1 DEF OffOutcomes
    <3>2. CASE StepManual(s)
      BY <1>2, <1>4, <3>2 DEF StepManual, Manual, OffOutcomes
    <3>3. CASE StepFailed(s)
      BY <1>2, <3>3 DEF StepFailed, OffOutcomes
    <3> QED  BY <1>9, <3>1, <3>2, <3>3
  <2>2. armed' = armed
    BY <1>9 DEF StepSkipped, StepManual, StepFailed
  <2>3. person' = person \/ (person' = Applied(OffKey(s), f.plan) /\ (f.drifted => OffKey(s) \in SecuritySteps))
    BY <1>9 DEF StepSkipped, StepManual, StepFailed
  <2>4. person' \in PersonRecords /\ MailboxSafe(person')
    BY <1>1, <1>2, <2>3, DirectoryKeepsMailbox
  <2> HIDE DEF to
  <2>5. FireOK(to(out, pc), armed, held)
    BY <1>1, <1>5, <2>1, OneMoreOutcome DEF to
  <2> QED  BY <1>1, <1>2, <1>5, <1>7, <2>1, <2>2, <2>4, <2>5, RunsStay
<1> QED  BY <1>8, <1>9(* The end of a run, as a human learns of it.                              *)
LEMMA VerdictIs ==
  ASSUME NEW f \in FireRecords, Done(f), f.done # <<>>
  PROVE  LET verdict == Verdict(f.done, f.drifted) IN
         /\ verdict[1] \in {"succeeded", "failed", "needs_review"} /\ verdict[2] \in {"none", "error", "drift", "manual"}
         /\ verdict[1] # "failed" => f.done[1] = "succeeded"
<1>1. f.done[1] \in {"succeeded", "failed"}
  BY DEF Done
<1>2. 1 \in DOMAIN f.done
  <2>1. f.done \in Seq(OffOutcomes)
    BY DEF FireRecords
  <2> QED  BY <2>1, EmptySeq, LenProperties
<1> QED  BY <1>1, <1>2 DEF Verdict

(* A sweeper takes, or leaves, a run, or records what becomes of it.       *)
LEMMA RunEndsOrBegins ==
  ASSUME OffIInv, NEW s \in OffSweepers,
         Strand(s) \/ ClaimDue(s) \/ Rebuild(s) \/ RecordHold(s) \/ Finish(s) \/ RunThrows(s)
  PROVE  OffIInv'
<1> DEFINE f == fire[s]  k == fire[s].run
           ended(j, status, why) == [armed[j] EXCEPT !.status = status, !.why = why]
<1>1. /\ answers \in AnswerRecords /\ draft \in AnswerRecords /\ person \in PersonRecords /\ MailboxSafe(person)
      /\ armer \in [Armers -> OffPlans] /\ held \in BOOLEAN /\ fire \in [OffSweepers -> FireRecords]
      /\ OffTypeOK /\ armed \in Seq(ArmedRecords)
      /\ \A j \in DOMAIN armed : ClaimedOnce(armed[j]) /\ Secured(armed[j], held)
  BY DEF OffIInv, OffTypeOK, ArmedOK
<1>2. /\ UNCHANGED <<answers, draft, person, armer>>
  BY DEF Strand, ClaimDue, Rebuild, RecordHold, Finish, RunThrows, requestVars
<1>3. /\ f \in FireRecords /\ FireOK(f, armed, held)
      /\ f.pc # "idle" => k \in DOMAIN armed /\ armed[k].claims = 1
      /\ \A j \in DOMAIN armed : armed[j] \in ArmedRecords
  BY <1>1, FireIs, ElementOfSeq, LenProperties
<1>4. Quiet \in FireRecords /\ \A rs, h : FireOK(Quiet, rs, h)
  BY <1>1, PlanIs DEF FireOK, Quiet
<1>5. \A g \in FireRecords : fire' = [fire EXCEPT ![s] = g] =>
        /\ fire' \in [OffSweepers -> FireRecords] /\ fire'[s] = g
        /\ \A o \in OffSweepers : o # s => fire'[o] = fire[o]
  BY <1>1
<1>6. ASSUME NEW j \in DOMAIN armed, armed[j].claims = 1 \/ armed[j].status = "running",
             NEW status \in {"succeeded", "failed", "needs_review"},
             NEW why \in {"none", "interrupted", "error", "drift", "manual"},
             status # "failed" /\ why # "interrupted" => armed[j].blocked /\ (held \/ armed[j].lost),
             status = "succeeded" => why # "interrupted",
             armed' = End(j, status, why), held' = held,
             fire' \in [OffSweepers -> FireRecords],
             \A o \in OffSweepers : fire'[o] = fire[o] \/ fire'[o] = Quiet
      PROVE  OffIInv'
  <2> DEFINE new == ended(j, status, why)
  <2>1. armed' = [armed EXCEPT ![j] = new]
    BY <1>6 DEF End
  <2>2. new \in ArmedRecords /\ new.claims = armed[j].claims /\ new.status = status /\ new.why = why
        /\ new.blocked = armed[j].blocked /\ new.lost = armed[j].lost
    BY <1>3 DEF ArmedRecords
  <2>3. ClaimedOnce(new) /\ Secured(new, held)
    BY <1>1, <1>6, <2>2 DEF ClaimedOnce, Secured
  <2> HIDE DEF new, f, k
  <2>4. \A o \in OffSweepers : fire'[o] = fire[o] \/ FireOK(fire'[o], armed', held')
    BY <1>4, <1>6
  <2>5. held' \in BOOLEAN /\ (held => held') /\ Secured(new, held')
    BY <1>1, <1>6, <2>3
  <2> QED  BY <1>1, <1>2, <1>6, <2>1, <2>2, <2>3, <2>4, <2>5, RunBecomes
<1>7. CASE Strand(s)
  <2>1. PICK j \in DOMAIN armed : armed[j].status = "running" /\ armed' = End(j, "needs_review", "interrupted")
    BY <1>7 DEF Strand
  <2>2. held' = held /\ fire' = fire
    BY <1>7 DEF Strand
  <2> QED  BY <1>1, <1>6, <2>1, <2>2
<1>8. CASE ClaimDue(s)
  <2>1. PICK j \in DOMAIN armed : /\ armed[j].status = "scheduled"
                                  /\ armed' = [armed EXCEPT ![j].status = "running", ![j].claims = @ + 1]
                                  /\ fire' = [fire EXCEPT ![s] = [Quiet EXCEPT !.pc = "claimed", !.run = j]]
                                  /\ held' = held
    BY <1>8 DEF ClaimDue
  <2> DEFINE new == [armed[j] EXCEPT !.status = "running", !.claims = 1]
             to == [Quiet EXCEPT !.pc = "claimed", !.run = j]
  <2>2. armed[j].claims = 0 /\ armed[j] \in ArmedRecords /\ j \in Nat
    BY <1>1, <1>3, <2>1, LenProperties DEF ClaimedOnce
  <2>3. armed' = [armed EXCEPT ![j] = new]
    <3>1. armed' = [armed EXCEPT ![j] = [armed[j] EXCEPT !.status = "running", !.claims = armed[j].claims + 1]]
      BY <2>1
    <3> QED  BY <2>2, <3>1
  <2>4. new \in ArmedRecords /\ new.claims = 1 /\ new.status = "running" /\ new.blocked = armed[j].blocked /\ new.lost = armed[j].lost
    BY <2>2 DEF ArmedRecords, InFlightStatuses
  <2>5. to \in FireRecords /\ to.pc = "claimed" /\ to.run = j /\ to.done = <<>>
    BY <1>4, <2>2 DEF FireRecords, Quiet
  <2>6. ClaimedOnce(new) /\ Secured(new, held)
    BY <2>4 DEF ClaimedOnce, Secured
  <2> HIDE DEF new, to, f, k
  <2>7. DOMAIN armed' = DOMAIN armed /\ armed'[j] = new
    BY <1>1, <2>3
  <2>8. FireOK(to, armed', held')
    BY <2>4, <2>5, <2>7 DEF FireOK
  <2>9. fire' = [fire EXCEPT ![s] = to]
    BY <2>1 DEF to
  <2>10. /\ fire' \in [OffSweepers -> FireRecords]
         /\ \A o \in OffSweepers : fire'[o] = fire[o] \/ FireOK(fire'[o], armed', held')
    BY <1>5, <2>5, <2>8, <2>9
  <2>11. held' = held /\ armed[j].claims # 1
    BY <2>1, <2>2
  <2> QED  BY <1>1, <1>2, <2>2, <2>3, <2>4, <2>6, <2>10, <2>11, RunBecomes
<1>9. CASE Rebuild(s)
  <2>1. f.pc = "claimed" /\ f.done = <<>> /\ held' = held
    BY <1>3, <1>9 DEF Rebuild, FireOK
  <2>2. CASE armed' = End(k, "failed", "error") /\ fire' = [fire EXCEPT ![s] = Quiet]
    BY <1>3, <1>4, <1>5, <1>6, <2>1, <2>2
  <2>3. CASE ~(armed' = End(k, "failed", "error") /\ fire' = [fire EXCEPT ![s] = Quiet])
    <3> DEFINE to == [f EXCEPT !.pc = "steps", !.plan = OffPlan, !.drifted = (OffPlan # armed[k].plan \/ OffBlockers # {})]
    <3>1. fire' = [fire EXCEPT ![s] = to] /\ armed' = armed
      BY <1>9, <2>3 DEF Rebuild
    <3>2. OffPlan \in OffPlans /\ OffPlan.steps = OffSteps(OffPlan.licensed) /\ OffPlan.licensed \in BOOLEAN
      BY <1>1, PlanIs DEF OffPlans
    <3>3. /\ to \in FireRecords /\ to.pc = "steps" /\ to.plan = OffPlan /\ to.run = k /\ to.done = <<>>
      BY <1>3, <2>1, <3>2 DEF FireRecords
    <3>4. Len(to.done) <= Len(to.plan.steps)
      BY <3>2, <3>3, StepsOfPlan
    <3> HIDE DEF to, f, k
    <3>5. FireOK(to, armed, held)
      BY <1>3, <2>1, <3>2, <3>3, <3>4 DEF FireOK, Done, OnRecord
    <3> QED  BY <1>1, <1>2, <1>5, <2>1, <3>1, <3>3, <3>5, RunsStay
  <2> QED  BY <2>2, <2>3
<1>10. CASE RecordHold(s)
  <2> DEFINE to == [f EXCEPT !.pc = "finish"]
             new == [armed[k] EXCEPT !.lost = TRUE]
  <2>1. f.pc = "hold" /\ fire' = [fire EXCEPT ![s] = to] /\ Done(f) /\ OnRecord(f, armed, held) /\ f.done # <<>>
    BY <1>3, <1>10 DEF RecordHold, FireOK, Done
  <2>2. \/ armed' = armed /\ ((held' = held /\ f.done[1] # "succeeded") \/ held' = TRUE)
        \/ held' = held /\ armed' = [armed EXCEPT ![k] = new]
    BY <1>10 DEF RecordHold, HoldOwed
  <2>3. to \in FireRecords /\ to.pc = "finish" /\ to.run = k /\ to.done = f.done /\ to.plan = f.plan
    BY <1>3 DEF FireRecords
  <2>4. Done(to)
    BY <2>1, <2>3 DEF Done
  <2> HIDE DEF to, f
  <2>5. CASE armed' = armed /\ ((held' = held /\ f.done[1] # "succeeded") \/ held' = TRUE)
    <3>1. FireOK(to, armed, held')
      <4>1. to.done[1] = "succeeded" => armed[to.run].blocked /\ held'
        BY <2>1, <2>3, <2>5 DEF OnRecord, f
      <4>2. OnRecord(to, armed, held')
        BY <4>1 DEF OnRecord
      <4>3. to.run \in DOMAIN armed /\ armed[to.run].claims = 1
        BY <1>3, <2>1, <2>3 DEF f
      <4> QED  BY <2>3, <2>4, <4>2, <4>3 DEF FireOK
    <3> HIDE DEF k
    <3> QED  BY <1>1, <1>2, <1>5, <2>1, <2>2, <2>3, <2>5, <3>1, RunsStay
  <2>6. CASE held' = held /\ armed' = [armed EXCEPT ![k] = new]
    <3>1. k \in DOMAIN armed /\ armed[k].claims = 1 /\ armed[k] \in ArmedRecords
      BY <1>3, <2>1 DEF f
    <3>2. /\ new \in ArmedRecords /\ new.claims = 1 /\ new.status = armed[k].status /\ new.why = armed[k].why
          /\ new.blocked = armed[k].blocked /\ new.lost
      BY <3>1 DEF ArmedRecords
    <3>3. ClaimedOnce(new) /\ Secured(new, held)
      BY <1>1, <3>1, <3>2 DEF ClaimedOnce, Secured
    <3> HIDE DEF k, new
    <3>4. armed'[k] = new /\ DOMAIN armed' = DOMAIN armed
      BY <1>1, <2>6, <3>1
    <3>5. FireOK(to, armed', held')
      BY <2>1, <2>3, <2>4, <3>1, <3>2, <3>4 DEF FireOK, OnRecord, f, k
    <3> QED  BY <1>1, <1>2, <1>5, <2>1, <2>3, <2>6, <3>1, <3>2, <3>3, <3>5, RunBecomes
  <2> QED  BY <2>2, <2>5, <2>6
<1>11. CASE Finish(s)
  <2> DEFINE verdict == Verdict(f.done, f.drifted)
  <2>1. /\ f.pc = "finish" /\ armed' = End(k, verdict[1], verdict[2]) /\ fire' = [fire EXCEPT ![s] = Quiet] /\ held' = held
        /\ Done(f) /\ OnRecord(f, armed, held) /\ f.done # <<>>
    BY <1>3, <1>11 DEF Finish, FireOK, Done
  <2>2. /\ verdict[1] \in {"succeeded", "failed", "needs_review"} /\ verdict[2] \in {"none", "error", "drift", "manual"}
        /\ verdict[1] # "failed" => f.done[1] = "succeeded"
    BY <1>3, <2>1, VerdictIs
  <2>3. verdict[1] # "failed" => armed[k].blocked /\ (held \/ armed[k].lost)
    BY <2>1, <2>2 DEF OnRecord
  <2> HIDE DEF verdict
  <2> QED  BY <1>3, <1>4, <1>5, <1>6, <2>1, <2>2, <2>3
<1>12. CASE RunThrows(s)
  <2>1. f.pc = "steps" /\ armed' = End(k, "failed", "error") /\ fire' = [fire EXCEPT ![s] = Quiet] /\ held' = held
    BY <1>12 DEF RunThrows
  <2> QED  BY <1>3, <1>4, <1>5, <1>6, <2>1
<1> QED  BY <1>7, <1>8, <1>9, <1>10, <1>11, <1>12(* The rest of what happens: requests to arm a run, time, edits, deaths.   *)
LEMMA OthersKeep ==
  ASSUME OffIInv,
         \/ \E a \in Armers : ScheduleCheck(a) \/ ScheduleInsert(a)
         \/ CancelRun
         \/ \E k \in DOMAIN armed : MomentComes(k)
         \/ \E s \in OffSweepers : StepsDone(s) \/ ProcessDies(s)
         \/ EditFormCheck \/ EditFormEnds \/ EditDirectory
  PROVE  OffIInv'
<1>1. /\ answers \in AnswerRecords /\ draft \in AnswerRecords /\ person \in PersonRecords /\ MailboxSafe(person)
      /\ armer \in [Armers -> OffPlans] /\ held \in BOOLEAN /\ fire \in [OffSweepers -> FireRecords]
      /\ OffTypeOK /\ armed \in Seq(ArmedRecords)
      /\ \A j \in DOMAIN armed : ClaimedOnce(armed[j]) /\ Secured(armed[j], held) /\ armed[j] \in ArmedRecords
  BY ElementOfSeq, LenProperties DEF OffIInv, OffTypeOK, ArmedOK
<1>2. /\ OffPlan \in OffPlans /\ EmptyPlan \in OffPlans /\ Quiet \in FireRecords
      /\ \A rs, h : FireOK(Quiet, rs, h)
  BY <1>1, PlanIs DEF FireOK, Quiet
<1>3. CASE \E a \in Armers : ScheduleCheck(a)
  <2>1. armer' \in [Armers -> OffPlans] /\ UNCHANGED <<answers, draft, person, armed, fire, held>>
    BY <1>1, <1>2, <1>3 DEF ScheduleCheck, requestVars
  <2> QED  BY <1>1, <2>1, RunsStay
<1>4. ASSUME NEW a \in Armers, ScheduleInsert(a) PROVE OffIInv'
  <2> DEFINE new == [status |-> "scheduled", plan |-> armer[a], due |-> FALSE, why |-> "none", claims |-> 0,
                     blocked |-> FALSE, lost |-> FALSE]
  <2>1. /\ armer' \in [Armers -> OffPlans] /\ UNCHANGED <<answers, draft, person, fire, held>>
        /\ armed' = armed \/ armed' = Append(armed, new)
    BY <1>1, <1>2, <1>4 DEF ScheduleInsert, requestVars
  <2>2. CASE armed' = armed
    BY <1>1, <2>1, <2>2, RunsStay
  <2>3. CASE armed' = Append(armed, new)
    <3>1. new \in ArmedRecords /\ ClaimedOnce(new) /\ Secured(new, held)
      BY <1>1 DEF ArmedRecords, InFlightStatuses, ClaimedOnce, Secured
    <3> HIDE DEF new
    <3>2. Len(armed) \in Nat /\ DOMAIN armed = 1 .. Len(armed)
      BY <1>1, LenProperties
    <3>3. /\ armed' \in Seq(ArmedRecords) /\ Len(armed') = Len(armed) + 1 /\ armed'[Len(armed) + 1] = new
          /\ \A j \in 1 .. Len(armed) : armed'[j] = armed[j]
      BY <1>1, <2>3, <3>1, AppendProperties
    <3>4. DOMAIN armed' = 1 .. Len(armed) + 1
      BY <3>3, LenProperties
    <3>5. OffTypeOK'
      BY <1>1, <2>1, <3>3 DEF OffTypeOK
    <3>6. ArmedOK(armed', held')
      <4>1. \A j \in DOMAIN armed' : j \in DOMAIN armed \/ j = Len(armed) + 1
        BY <3>2, <3>4
      <4> QED  BY <1>1, <2>1, <3>1, <3>2, <3>3, <4>1 DEF ArmedOK
    <3>7. FiresOK'
      <4>1. \A j \in DOMAIN armed : j \in DOMAIN armed' /\ armed'[j] = armed[j]
        BY <3>2, <3>3, <3>4
      <4>2. \A s \in OffSweepers : FireOK(fire[s], armed', held)
        BY <4>1 DEF OffIInv, FiresOK, FireOK, OnRecord
      <4> QED  BY <2>1, <4>2 DEF FiresOK
    <3> QED  BY <1>1, <2>1, <3>5, <3>6, <3>7 DEF OffIInv
  <2> QED  BY <2>1, <2>2, <2>3
<1>5. CASE CancelRun
  <2>1. PICK k \in DOMAIN armed : armed[k].status = "scheduled" /\ armed' = [armed EXCEPT ![k].status = "cancelled"]
    BY <1>5 DEF CancelRun
  <2> DEFINE new == [armed[k] EXCEPT !.status = "cancelled"]
  <2>2. UNCHANGED <<answers, draft, person, fire, held, armer>> /\ armed' = [armed EXCEPT ![k] = new]
    BY <1>5, <2>1 DEF CancelRun, requestVars
  <2>3. /\ new \in ArmedRecords /\ new.status = "cancelled" /\ new.claims = armed[k].claims
        /\ new.blocked = armed[k].blocked /\ new.lost = armed[k].lost
    BY <1>1 DEF ArmedRecords
  <2>4. ClaimedOnce(new) /\ Secured(new, held)
    BY <1>1, <2>1, <2>3 DEF ClaimedOnce, Secured
  <2> HIDE DEF new
  <2> QED  BY <1>1, <2>2, <2>3, <2>4, RunBecomes
<1>6. ASSUME NEW k \in DOMAIN armed, MomentComes(k) PROVE OffIInv'
  <2> DEFINE new == [armed[k] EXCEPT !.due = TRUE]
  <2>1. UNCHANGED <<answers, draft, person, fire, held, armer>> /\ armed' = [armed EXCEPT ![k] = new]
    BY <1>6 DEF MomentComes, requestVars
  <2>2. /\ new \in ArmedRecords /\ new.status = armed[k].status /\ new.claims = armed[k].claims /\ new.why = armed[k].why
        /\ new.blocked = armed[k].blocked /\ new.lost = armed[k].lost
    BY <1>1 DEF ArmedRecords
  <2>3. ClaimedOnce(new) /\ Secured(new, held)
    BY <1>1, <2>2 DEF ClaimedOnce, Secured
  <2> HIDE DEF new
  <2> QED  BY <1>1, <2>1, <2>2, <2>3, RunBecomes
<1>7. ASSUME NEW s \in OffSweepers, StepsDone(s) PROVE OffIInv'
  <2> DEFINE to == [fire[s] EXCEPT !.pc = "hold"]
  <2>1. /\ fire[s].pc = "steps" /\ Len(fire[s].done) = Len(fire[s].plan.steps) /\ fire' = [fire EXCEPT ![s] = to]
        /\ UNCHANGED <<answers, draft, person, armed, armer, held>>
    BY <1>7 DEF StepsDone, requestVars
  <2>2. /\ FireOK(fire[s], armed, held) /\ fire[s] \in FireRecords /\ Done(fire[s]) /\ OnRecord(fire[s], armed, held)
        /\ fire[s].plan.licensed \in BOOLEAN
    BY <2>1, FireIs DEF FireOK, OffPlans
  <2>3. to \in FireRecords /\ to.pc = "hold" /\ to.run = fire[s].run /\ to.done = fire[s].done /\ to.plan = fire[s].plan
    BY <2>2 DEF FireRecords
  <2>4. Len(fire[s].plan.steps) >= 1 /\ Len(fire[s].plan.steps) \in Nat
    BY <2>2, StepsOfPlan DEF Done
  <2>5. to.done # <<>>
    BY <2>1, <2>3, <2>4, EmptySeq
  <2> HIDE DEF to
  <2>6. Done(to) /\ OnRecord(to, armed, held)
    BY <2>2, <2>3, <2>5 DEF Done, OnRecord
  <2>7. FireOK(to, armed, held)
    BY <2>1, <2>2, <2>3, <2>6 DEF FireOK
  <2>8. fire' \in [OffSweepers -> FireRecords] /\ \A o \in OffSweepers : fire'[o] = fire[o] \/ FireOK(fire'[o], armed, held')
    BY <1>1, <2>1, <2>3, <2>7
  <2> QED  BY <1>1, <2>1, <2>8, RunsStay
<1>8. ASSUME NEW s \in OffSweepers, ProcessDies(s) PROVE OffIInv'
  <2>1. fire' = [fire EXCEPT ![s] = Quiet] /\ UNCHANGED <<answers, draft, person, armed, armer, held>>
    BY <1>8 DEF ProcessDies, requestVars
  <2>2. fire' \in [OffSweepers -> FireRecords] /\ \A o \in OffSweepers : fire'[o] = fire[o] \/ FireOK(fire'[o], armed, held')
    BY <1>1, <1>2, <2>1
  <2> QED  BY <1>1, <2>1, <2>2, RunsStay
<1>9. CASE EditFormCheck \/ EditFormEnds
  <2>1. NoDraft \in AnswerRecords
    BY DEF NoDraft, AnswerRecords, OffDays
  <2>2. answers' \in AnswerRecords /\ draft' \in AnswerRecords /\ UNCHANGED <<person, armed, armer, fire, held>>
    BY <1>1, <1>9, <2>1 DEF EditFormCheck, EditFormEnds, AnswerRecords, OffDays
  <2> QED  BY <1>1, <2>2, RunsStay
<1>10. CASE EditDirectory
  <2>1. UNCHANGED <<answers, draft, armed, armer, fire, held>>
    BY <1>10 DEF EditDirectory, requestVars
  <2>2. person' \in PersonRecords /\ MailboxSafe(person')
    BY <1>1, <1>10 DEF EditDirectory, PersonRecords, MailboxSafe
  <2> QED  BY <1>1, <2>1, <2>2, RunsStay
<1> QED  BY <1>3, <1>4, <1>5, <1>6, <1>7, <1>8, <1>9, <1>10

LEMMA OffInitOK == OffInit => OffIInv
<1> SUFFICES ASSUME OffInit PROVE OffIInv
  OBVIOUS
<1>1. answers \in AnswerRecords /\ draft \in AnswerRecords
  BY DEF OffInit, NoDraft, AnswerRecords, OffDays
<1>2. person \in PersonRecords /\ MailboxSafe(person)
  <2>1. PICK b \in BOOLEAN : person = [exists |-> TRUE, enabled |-> TRUE, renamed |-> FALSE,
                                       licensed |-> b, mailbox |-> IF b THEN "user" ELSE "none"]
    BY DEF OffInit
  <2>2. CASE b = TRUE
    BY <2>1, <2>2 DEF PersonRecords, MailboxSafe
  <2>3. CASE b = FALSE
    BY <2>1, <2>3 DEF PersonRecords, MailboxSafe
  <2> QED  BY <2>2, <2>3
<1>3. EmptyPlan \in OffPlans /\ Quiet \in FireRecords /\ \A rs, h : FireOK(Quiet, rs, h)
  BY EmptySeq DEF EmptyPlan, OffPlans, OffDays, Quiet, FireRecords, FireOK
<1>4. armed \in Seq(ArmedRecords) /\ ArmedOK(armed, held)
  BY EmptySeq DEF OffInit, ArmedOK
<1> QED  BY <1>1, <1>2, <1>3, <1>4 DEF OffInit, OffIInv, OffTypeOK, FiresOK

LEMMA OffStep == OffIInv /\ [OffNext]_offVars => OffIInv'
<1> SUFFICES ASSUME OffIInv, [OffNext]_offVars PROVE OffIInv'
  OBVIOUS
<1>1. CASE UNCHANGED offVars
  <2>1. UNCHANGED <<answers, draft, person, armed, armer, fire, held>>
    BY <1>1 DEF offVars, requestVars
  <2> QED  BY <2>1 DEF OffIInv, OffTypeOK, ArmedOK, FiresOK
<1>2. CASE OffNext
  BY <1>2, StepOfPlan, RunEndsOrBegins, OthersKeep DEF OffNext, SweepRun
<1> QED  BY <1>1, <1>2

LEMMA OffHolds == OffSpec => []OffIInv
BY OffInitOK, OffStep, PTL DEF OffSpec

(* An armed run fires once, and a cancelled one not at all, however many   *)
(* sweepers there are and whenever they die (offboarding-sweeper.ts).      *)
THEOREM RunsFireOnce == OffSpec => []FiresOnce
<1>1. OffIInv => FiresOnce
  BY DEF OffIInv, ArmedOK, ClaimedOnce, FiresOnce
<1> QED  BY <1>1, OffHolds, PTL

(* Whoever leaves loses neither the content of the mailbox nor, once the   *)
(* desk is told that the account is blocked, the retention hold, unless    *)
(* its loss was logged (planner.ts, executor.ts, offboarding-sweeper.ts).  *)
THEOREM NothingIsLeftBehind == OffSpec => []LeavesNothingBehind
<1>1. OffIInv => MailboxKept
  BY DEF OffIInv, MailboxSafe, MailboxKept
<1>2. OffIInv => SecuredAndHeld
  BY DEF OffIInv, ArmedOK, Secured, SecuredAndHeld
<1> QED  BY <1>1, <1>2, OffHolds, PTL DEF LeavesNothingBehind

-----------------------------------------------------------------------------
(* Retention                                                               *)

HoldRecords == [state : {"none", "active", "breached", "eligible", "disposed"},
                until : Nat, checked : Int, alarms : Nat]
Orders == UNION {[S -> Int] : S \in SUBSET Accounts}
RetainerRecords == [pc : {"idle", "check", "write", "ticket"}, todo : Orders, at : Nat,
                    on : Accounts \cup {"none"},
                    outcome : {"none", "touch", "breached", "eligible", "disposed"}]

RetTypeOK ==
  /\ day \in Nat /\ day <= LastDay /\ turn \in [Accounts -> Int]
  /\ hold \in [Accounts -> HoldRecords] /\ goneOn \in [Accounts -> Nat]
  /\ retainer \in [Retainers -> RetainerRecords]

(* A hold is checked no later than today, and while it is active no later  *)
(* than its account was there.                                             *)
SeenThere(h, gone, today) == h.checked <= today /\ 0 <= gone /\ (h.state = "active" => h.checked <= gone)

(* A sweep works on one of the holds it has read; what it is about to      *)
(* record as checked was there on the day of the sweep.                    *)
SweepOK(r, gone, today) ==
  /\ r.at <= today
  /\ r.pc \in {"write", "ticket"} => r.on \in DOMAIN r.todo
  /\ r.pc = "write" => r.outcome # "none"
  /\ r.pc = "ticket" => r.outcome \in {"breached", "eligible"}
  /\ r.pc = "write" /\ r.outcome = "touch" => r.at <= gone[r.on]

PresenceInv ==
  /\ RetTypeOK
  /\ \A a \in Accounts : SeenThere(hold[a], goneOn[a], day)
  /\ \A w \in Retainers : SweepOK(retainer[w], goneOn, day)

-----------------------------------------------------------------------------

(* A sweep that is over has read no hold.                                  *)
LEMMA OffIs == Off \in RetainerRecords /\ Off.pc = "idle" /\ Off.at = 0 /\ DOMAIN Off.todo = {}
<1> DEFINE none == [b \in {} |-> 0]
<1>1. none \in [{} -> Int] /\ {} \in SUBSET Accounts /\ DOMAIN none = {}
  OBVIOUS
<1>2. none \in Orders
  BY <1>1 DEF Orders
<1>3. Off = [pc |-> "idle", todo |-> none, at |-> 0, on |-> "none", outcome |-> "none"]
  BY DEF Off
<1> HIDE DEF none
<1> QED  BY <1>1, <1>2, <1>3 DEF RetainerRecords

(* A sweep that goes on works on no hold, of those it has left.            *)
LEMMA GoesOn ==
  ASSUME NEW w \in Retainers, NEW a, retainer[w] \in RetainerRecords
  PROVE  \E to \in RetainerRecords :
           /\ OnToNext(w, a) = [retainer EXCEPT ![w] = to]
           /\ to.pc \in {"idle", "check"} /\ to.at \in {0, retainer[w].at}
           /\ DOMAIN to.todo \subseteq DOMAIN retainer[w].todo \ {a}
<1> DEFINE r == retainer[w]  rest == DOMAIN r.todo \ {a}
           to == IF rest = {} THEN Off
                 ELSE [r EXCEPT !.pc = "check", !.on = "none", !.outcome = "none", !.todo = [b \in rest |-> r.todo[b]]]
<1>1. PICK S \in SUBSET Accounts : r.todo \in [S -> Int]
  BY DEF RetainerRecords, Orders
<1>2. rest \in SUBSET Accounts /\ [b \in rest |-> r.todo[b]] \in [rest -> Int]
  BY <1>1
<1>3. [b \in rest |-> r.todo[b]] \in Orders
  BY <1>2 DEF Orders
<1>4. Off \in RetainerRecords /\ Off.pc = "idle" /\ Off.at = 0 /\ DOMAIN Off.todo = {}
  BY OffIs
<1>5. OnToNext(w, a) = [retainer EXCEPT ![w] = to]
  BY DEF OnToNext
<1>6. CASE rest = {}
  BY <1>4, <1>5, <1>6
<1>7. CASE rest # {}
  <2>1. /\ to \in RetainerRecords /\ to.pc = "check" /\ to.at = r.at /\ to.todo = [b \in rest |-> r.todo[b]]
    BY <1>3, <1>7 DEF RetainerRecords
  <2> HIDE DEF to
  <2> QED  BY <1>5, <2>1
<1> QED  BY <1>6, <1>7

(* What the sweep that begins has read.                                    *)
LEMMA Begins ==
  ASSUME RetTypeOK, NEW w \in Retainers, SweepStart(w)
  PROVE  \E to \in RetainerRecords :
           /\ retainer' = [retainer EXCEPT ![w] = to]
           /\ to.pc = "check" /\ to.at = day
           /\ \A a \in DOMAIN to.todo : hold[a].state = "active"
<1> DEFINE order == [a \in Selected |-> turn[a]]
           to == [Off EXCEPT !.pc = "check", !.at = day, !.todo = order]
<1>1. Selected \in SUBSET Accounts /\ \A a \in Selected : hold[a].state = "active"
  BY DEF Selected
<1>2. order \in [Selected -> Int]
  BY <1>1 DEF RetTypeOK
<1>3. order \in Orders
  BY <1>1, <1>2 DEF Orders
<1>4. retainer' = [retainer EXCEPT ![w] = to] /\ day \in Nat
  BY DEF SweepStart, RetTypeOK
<1> HIDE DEF order
<1>5. to \in RetainerRecords /\ to.pc = "check" /\ to.at = day /\ to.todo = order
  BY <1>3, <1>4 DEF Off, RetainerRecords
<1> HIDE DEF to
<1> QED  BY <1>1, <1>4, <1>5 DEF order

(* What Graph has said, or not said, of a hold.                            *)
LEMMA Checked ==
  ASSUME RetTypeOK, NEW w \in Retainers, NEW a \in Accounts, GraphAnswers(w, a) \/ GraphIsSilent(w, a)
  PROVE  /\ UNCHANGED <<day, hold, turn, goneOn>>
         /\ retainer[w].pc = "check" /\ a \in DOMAIN retainer[w].todo
         /\ \/ retainer' = OnToNext(w, a)
            \/ \E outcome \in {"touch", "breached", "eligible", "disposed"} :
                 /\ retainer' = [retainer EXCEPT ![w] = [retainer[w] EXCEPT !.pc = "write", !.on = a, !.outcome = outcome]]
                 /\ outcome = "touch" => goneOn[a] = Still
<1> DEFINE present == IF GraphIsSilent(w, a) THEN "unknown" ELSE IF goneOn[a] = Still THEN "there" ELSE "gone"
           outcome == DecideHold(hold[a].until, present, retainer[w].at)
<1>1. CheckHold(w, a, present)
  BY DEF GraphAnswers, GraphIsSilent
<1>2. /\ outcome \in {"none", "touch", "breached", "eligible", "disposed"}
      /\ outcome = "touch" => goneOn[a] = Still
  BY DEF DecideHold
<1> HIDE DEF present
<1>3. /\ UNCHANGED <<day, hold, turn, goneOn>> /\ retainer[w].pc = "check" /\ a \in DOMAIN retainer[w].todo
      /\ retainer' = IF outcome = "none" THEN OnToNext(w, a)
                     ELSE [retainer EXCEPT ![w].pc = "write", ![w].on = a, ![w].outcome = outcome]
  BY <1>1 DEF CheckHold, NextOf
<1> HIDE DEF outcome
<1>4. CASE outcome = "none"
  BY <1>3, <1>4
<1>5. CASE outcome # "none"
  <2>1. retainer' = [retainer EXCEPT ![w] = [retainer[w] EXCEPT !.pc = "write", !.on = a, !.outcome = outcome]]
    BY <1>3, <1>5 DEF RetTypeOK
  <2> QED  BY <1>2, <1>3, <1>5, <2>1
<1> QED  BY <1>4, <1>5

(* The term of a new hold.                                                 *)
LEMMA NewHoldIs ==
  ASSUME RetTypeOK, NEW a \in Accounts, RecordHoldFor(a)
  PROVE  /\ UNCHANGED <<day, goneOn, retainer>> /\ turn' \in [Accounts -> Int] /\ hold[a].state = "none"
         /\ \E new \in HoldRecords : /\ hold' = [hold EXCEPT ![a] = new]
                                     /\ new.state = "active" /\ new.checked = Never /\ new.alarms = 0
<1>1. PICK ev \in Evidence :
        LET until == RetainUntil(day, ClassifyRetention(ev))
            before == {b \in Held : hold[b].checked = Never /\ hold[b].until <= until}
        IN /\ hold' = [hold EXCEPT ![a] = [NoHold EXCEPT !.state = "active", !.until = until]]
           /\ turn' = [b \in Accounts |-> IF b = a THEN Cardinality(before) + 1
                                          ELSE IF b \in Held \ before THEN turn[b] + 1 ELSE turn[b]]
  BY DEF RecordHoldFor
<1> DEFINE until == RetainUntil(day, ClassifyRetention(ev))
           before == {b \in Held : hold[b].checked = Never /\ hold[b].until <= until}
           new == [NoHold EXCEPT !.state = "active", !.until = until]
<1>2. until \in Nat
  BY RetentionAssumption DEF RetainUntil, ClassifyRetention, RetTypeOK
<1>3. Cardinality(before) \in Nat
  <2>1. before \in SUBSET Accounts
    BY DEF Held
  <2> HIDE DEF before
  <2> QED  BY <2>1, RetentionAssumption, FS_Subset, FS_CardinalityType
<1> HIDE DEF until, before
<1>4. turn' \in [Accounts -> Int]
  <2>1. turn' = [b \in Accounts |-> IF b = a THEN Cardinality(before) + 1
                                   ELSE IF b \in Held \ before THEN turn[b] + 1 ELSE turn[b]]
    BY <1>1 DEF until, before
  <2> QED  BY <1>3, <2>1 DEF RetTypeOK
<1>5. new \in HoldRecords /\ new.state = "active" /\ new.checked = Never /\ new.alarms = 0
  <2>1. Never \in Int
    BY DEF Never
  <2>2. NoHold \in HoldRecords /\ NoHold.checked = Never /\ NoHold.alarms = 0
    BY <2>1 DEF NoHold, HoldRecords
  <2> QED  BY <1>2, <2>2 DEF HoldRecords
<1>6. hold' = [hold EXCEPT ![a] = new]
  BY <1>1 DEF until
<1> HIDE DEF new
<1> QED  BY <1>4, <1>5, <1>6 DEF RecordHoldFor(* What is known of a sweep.                                               *)
LEMMA SweepIs ==
  ASSUME PresenceInv, NEW w \in Retainers
  PROVE  /\ retainer[w] \in RetainerRecords /\ SweepOK(retainer[w], goneOn, day)
         /\ DOMAIN retainer[w].todo \subseteq Accounts /\ retainer[w].at \in Nat
         /\ retainer[w].pc \in {"write", "ticket"} => retainer[w].on \in Accounts /\ hold[retainer[w].on] \in HoldRecords
         /\ \A to \in RetainerRecords : retainer' = [retainer EXCEPT ![w] = to] =>
              /\ retainer' \in [Retainers -> RetainerRecords] /\ retainer'[w] = to
              /\ \A v \in Retainers : v # w => retainer'[v] = retainer[v]
<1>1. retainer[w] \in RetainerRecords /\ SweepOK(retainer[w], goneOn, day) /\ retainer \in [Retainers -> RetainerRecords]
      /\ hold \in [Accounts -> HoldRecords]
  BY DEF PresenceInv, RetTypeOK
<1>2. DOMAIN retainer[w].todo \subseteq Accounts /\ retainer[w].at \in Nat
  <2>1. retainer[w].todo \in Orders /\ retainer[w].at \in Nat
    BY <1>1 DEF RetainerRecords
  <2>2. PICK S \in SUBSET Accounts : retainer[w].todo \in [S -> Int]
    BY <2>1 DEF Orders
  <2> QED  BY <2>1, <2>2
<1> QED  BY <1>1, <1>2 DEF SweepOK

(* The state that a sweep records.                                         *)
LEMMA StateIsSet ==
  ASSUME PresenceInv, NEW w \in Retainers, SetState(w)
  PROVE  \E new \in HoldRecords :
           /\ hold' = [hold EXCEPT ![retainer[w].on] = new] /\ retainer[w].pc = "write" /\ retainer[w].on \in Accounts
           /\ new.checked = retainer[w].at /\ new.alarms = hold[retainer[w].on].alarms
           /\ new.state = IF retainer[w].outcome = "touch" THEN hold[retainer[w].on].state ELSE retainer[w].outcome
           /\ UNCHANGED <<day, goneOn>> /\ turn' \in [Accounts -> Int]
           /\ \/ retainer' = OnToNext(w, retainer[w].on) /\ retainer[w].outcome \in {"touch", "disposed"}
              \/ /\ retainer' = [retainer EXCEPT ![w] = [retainer[w] EXCEPT !.pc = "ticket"]]
                 /\ retainer[w].outcome \in {"breached", "eligible"}
<1> DEFINE r == retainer[w]  a == retainer[w].on
           state == IF r.outcome = "touch" THEN hold[a].state ELSE r.outcome
           new == [hold[a] EXCEPT !.state = state, !.checked = r.at]
<1>1. r.pc = "write" /\ a \in Accounts /\ hold[a] \in HoldRecords /\ r \in RetainerRecords /\ r.outcome # "none" /\ r.at \in Int
  BY SweepIs DEF SetState, SweepOK
<1>2. state \in {"none", "active", "breached", "eligible", "disposed"} /\ r.outcome \in {"touch", "breached", "eligible", "disposed"}
  BY <1>1 DEF RetainerRecords, HoldRecords
<1>3. hold' = [hold EXCEPT ![a] = new]
  BY <1>1 DEF SetState
<1>4. turn' \in [Accounts -> Int]
  <2>1. Cardinality(Held) \in Nat
    <3>1. Held \in SUBSET Accounts
      BY DEF Held
    <3> QED  BY <3>1, RetentionAssumption, FS_Subset, FS_CardinalityType
  <2>2. turn' = ToBack(a) /\ turn \in [Accounts -> Int]
    BY DEF SetState, PresenceInv, RetTypeOK
  <2> HIDE DEF a
  <2> QED  BY <2>1, <2>2 DEF ToBack
<1>5. /\ UNCHANGED <<day, goneOn>>
      /\ \/ retainer' = OnToNext(w, a) /\ r.outcome \in {"touch", "disposed"}
         \/ retainer' = [retainer EXCEPT ![w] = [r EXCEPT !.pc = "ticket"]] /\ r.outcome \in {"breached", "eligible"}
  BY <1>2 DEF SetState, PresenceInv, RetTypeOK
<1> HIDE DEF state
<1>6. new \in HoldRecords /\ new.checked = r.at /\ new.alarms = hold[a].alarms /\ new.state = state
  BY <1>1, <1>2 DEF HoldRecords
<1> QED  BY <1>1, <1>3, <1>4, <1>5, <1>6 DEF state

(* The ticket that a sweep raises, or loses.                               *)
LEMMA TicketIsRaised ==
  ASSUME PresenceInv, NEW w \in Retainers, RaiseTicket(w)
  PROVE  /\ retainer[w].pc = "ticket" /\ retainer[w].on \in Accounts
         /\ retainer' = OnToNext(w, retainer[w].on) /\ UNCHANGED <<day, turn, goneOn>>
         /\ \/ hold' = hold
            \/ \E new \in HoldRecords :
                 /\ hold' = [hold EXCEPT ![retainer[w].on] = new]
                 /\ new.alarms = hold[retainer[w].on].alarms + 1
                 /\ new.state = hold[retainer[w].on].state /\ new.checked = hold[retainer[w].on].checked
<1> DEFINE a == retainer[w].on  new == [hold[a] EXCEPT !.alarms = hold[a].alarms + 1]
<1>1. retainer[w].pc = "ticket" /\ a \in Accounts /\ hold[a] \in HoldRecords
  BY SweepIs DEF RaiseTicket
<1>2. /\ retainer' = OnToNext(w, a) /\ UNCHANGED <<day, turn, goneOn>>
      /\ hold' = hold \/ hold' = [hold EXCEPT ![a] = new]
  BY DEF RaiseTicket
<1>3. new \in HoldRecords /\ new.alarms = hold[a].alarms + 1 /\ new.state = hold[a].state /\ new.checked = hold[a].checked
  BY <1>1 DEF HoldRecords
<1> HIDE DEF new
<1> QED  BY <1>1, <1>2, <1>3

(* A process moves while the holds are as they were, or one was checked.   *)
LEMMA SweepKeepsPresence ==
  ASSUME PresenceInv, NEW w \in Retainers, NEW to \in RetainerRecords, retainer' = [retainer EXCEPT ![w] = to],
         SweepOK(to, goneOn, day), UNCHANGED <<day, goneOn>>, turn' \in [Accounts -> Int],
         hold' = hold \/ \E a \in Accounts : \E new \in HoldRecords :
           hold' = [hold EXCEPT ![a] = new] /\ SeenThere(new, goneOn[a], day)
  PROVE  PresenceInv'
<1>1. /\ retainer' \in [Retainers -> RetainerRecords] /\ retainer'[w] = to
      /\ \A v \in Retainers : v # w => retainer'[v] = retainer[v]
  BY SweepIs
<1>2. \A v \in Retainers : SweepOK(retainer'[v], goneOn', day')
  BY <1>1 DEF PresenceInv
<1>3. hold' \in [Accounts -> HoldRecords] /\ \A a \in Accounts : SeenThere(hold'[a], goneOn'[a], day')
  BY DEF PresenceInv, RetTypeOK
<1> QED  BY <1>1, <1>2, <1>3 DEF PresenceInv, RetTypeOK

LEMMA GoingOnKeepsPresence ==
  ASSUME PresenceInv, NEW w \in Retainers, NEW b, retainer' = OnToNext(w, b),
         UNCHANGED <<day, goneOn>>, turn' \in [Accounts -> Int],
         hold' = hold \/ \E a \in Accounts : \E new \in HoldRecords :
           hold' = [hold EXCEPT ![a] = new] /\ SeenThere(new, goneOn[a], day)
  PROVE  PresenceInv'
<1>1. /\ retainer[w] \in RetainerRecords /\ retainer[w].at <= day /\ retainer[w].at \in Nat /\ day \in Nat
  BY SweepIs DEF SweepOK, PresenceInv, RetTypeOK
<1>2. PICK to \in RetainerRecords : /\ OnToNext(w, b) = [retainer EXCEPT ![w] = to]
                                    /\ to.pc \in {"idle", "check"} /\ to.at \in {0, retainer[w].at}
  BY <1>1, GoesOn
<1>3. SweepOK(to, goneOn, day)
  BY <1>1, <1>2 DEF SweepOK
<1> QED  BY <1>2, <1>3, SweepKeepsPresence

LEMMA PresenceStep == PresenceInv /\ [RetNext]_retVars => PresenceInv'
<1> SUFFICES ASSUME PresenceInv, [RetNext]_retVars PROVE PresenceInv'
  OBVIOUS
<1>0. /\ day \in Nat /\ day <= LastDay /\ LastDay \in Nat /\ turn \in [Accounts -> Int]
      /\ hold \in [Accounts -> HoldRecords] /\ goneOn \in [Accounts -> Nat]
      /\ retainer \in [Retainers -> RetainerRecords] /\ RetTypeOK
      /\ \A w \in Retainers : SweepOK(retainer[w], goneOn, day)
      /\ \A a \in Accounts : SeenThere(hold[a], goneOn[a], day) /\ hold[a] \in HoldRecords /\ hold[a].checked \in Int
      /\ \A w \in Retainers : retainer[w].at \in Nat
  BY RetentionAssumption, SweepIs DEF PresenceInv, RetTypeOK, HoldRecords
<1>1. CASE UNCHANGED retVars
  BY <1>1 DEF retVars, PresenceInv, RetTypeOK
<1>2. CASE DayPasses
  <2>1. day' = day + 1 /\ day' <= LastDay /\ UNCHANGED <<hold, turn, goneOn, retainer>>
    BY <1>0, <1>2 DEF DayPasses
  <2>2. \A a \in Accounts : SeenThere(hold[a], goneOn[a], day')
    BY <1>0, <2>1 DEF SeenThere
  <2>3. \A w \in Retainers : SweepOK(retainer[w], goneOn, day')
    BY <1>0, <2>1 DEF SweepOK
  <2> QED  BY <1>0, <2>1, <2>2, <2>3 DEF PresenceInv, RetTypeOK
<1>3. ASSUME NEW a \in Accounts, RecordHoldFor(a) PROVE PresenceInv'
  <2>1. /\ UNCHANGED <<day, goneOn, retainer>> /\ turn' \in [Accounts -> Int]
        /\ \E new \in HoldRecords : hold' = [hold EXCEPT ![a] = new] /\ new.checked = Never
    BY <1>0, <1>3, NewHoldIs
  <2>2. PICK new \in HoldRecords : hold' = [hold EXCEPT ![a] = new] /\ new.checked = Never
    BY <2>1
  <2>3. SeenThere(new, goneOn[a], day)
    BY <1>0, <2>2 DEF SeenThere, Never
  <2>4. hold' \in [Accounts -> HoldRecords] /\ \A b \in Accounts : SeenThere(hold'[b], goneOn[b], day)
    BY <1>0, <2>2, <2>3
  <2> QED  BY <1>0, <2>1, <2>4 DEF PresenceInv, RetTypeOK
<1>4. ASSUME NEW a \in Accounts, AccountDeleted(a) PROVE PresenceInv'
  <2>1. /\ UNCHANGED <<day, hold, turn, retainer>> /\ goneOn' \in [Accounts -> Nat]
        /\ goneOn'[a] = day /\ \A b \in Accounts : b # a => goneOn'[b] = goneOn[b]
    BY <1>0, <1>4 DEF AccountDeleted
  <2>2. \A b \in Accounts : SeenThere(hold[b], goneOn'[b], day)
    BY <1>0, <2>1 DEF SeenThere
  <2>3. \A w \in Retainers : SweepOK(retainer[w], goneOn', day)
    <3> SUFFICES ASSUME NEW w \in Retainers PROVE SweepOK(retainer[w], goneOn', day)
      OBVIOUS
    <3>1. SweepOK(retainer[w], goneOn, day) /\ (retainer[w].pc = "write" => retainer[w].on \in Accounts)
      BY <1>0, SweepIs
    <3> QED  BY <2>1, <3>1 DEF SweepOK
  <2> QED  BY <1>0, <2>1, <2>2, <2>3 DEF PresenceInv, RetTypeOK
<1>5. ASSUME NEW w \in Retainers, SweepStart(w) PROVE PresenceInv'
  <2>1. PICK to \in RetainerRecords : retainer' = [retainer EXCEPT ![w] = to] /\ to.pc = "check" /\ to.at = day
    BY <1>0, <1>5, Begins
  <2>2. SweepOK(to, goneOn, day)
    BY <1>0, <2>1 DEF SweepOK
  <2>3. UNCHANGED <<day, hold, turn, goneOn>>
    BY <1>5 DEF SweepStart
  <2> QED  BY <1>0, <2>1, <2>2, <2>3, SweepKeepsPresence
<1>6. ASSUME NEW w \in Retainers, NEW a \in Accounts, GraphAnswers(w, a) \/ GraphIsSilent(w, a) PROVE PresenceInv'
  <2>1. UNCHANGED <<day, hold, turn, goneOn>> /\ a \in DOMAIN retainer[w].todo
    BY <1>0, <1>6, Checked
  <2>2. CASE retainer' = OnToNext(w, a)
    BY <1>0, <2>1, <2>2, GoingOnKeepsPresence
  <2>3. CASE retainer' # OnToNext(w, a)
    <3>1. PICK outcome \in {"touch", "breached", "eligible", "disposed"} :
            /\ retainer' = [retainer EXCEPT ![w] = [retainer[w] EXCEPT !.pc = "write", !.on = a, !.outcome = outcome]]
            /\ outcome = "touch" => goneOn[a] = Still
      BY <1>0, <1>6, <2>3, Checked
    <3> DEFINE to == [retainer[w] EXCEPT !.pc = "write", !.on = a, !.outcome = outcome]
    <3>2. /\ to \in RetainerRecords /\ to.pc = "write" /\ to.on = a /\ to.outcome = outcome
          /\ to.at = retainer[w].at /\ to.todo = retainer[w].todo
      BY <1>0 DEF RetainerRecords
    <3>3. SweepOK(retainer[w], goneOn, day) /\ retainer[w].at \in Nat
      BY <1>0
    <3> HIDE DEF to
    <3>4. SweepOK(to, goneOn, day)
      BY <1>0, <2>1, <3>1, <3>2, <3>3 DEF SweepOK, Still
    <3> QED  BY <1>0, <2>1, <3>1, <3>2, <3>4, SweepKeepsPresence DEF to
  <2> QED  BY <2>2, <2>3
<1>7. ASSUME NEW w \in Retainers, SetState(w) PROVE PresenceInv'
  <2> DEFINE r == retainer[w]
  <2>1. PICK new \in HoldRecords :
           /\ hold' = [hold EXCEPT ![r.on] = new] /\ r.pc = "write" /\ r.on \in Accounts
           /\ new.checked = r.at
           /\ new.state = IF r.outcome = "touch" THEN hold[r.on].state ELSE r.outcome
           /\ UNCHANGED <<day, goneOn>> /\ turn' \in [Accounts -> Int]
           /\ \/ retainer' = OnToNext(w, r.on)
              \/ /\ retainer' = [retainer EXCEPT ![w] = [r EXCEPT !.pc = "ticket"]]
                 /\ r.outcome \in {"breached", "eligible"}
    BY <1>7, StateIsSet
  <2>2. r \in RetainerRecords /\ SweepOK(r, goneOn, day) /\ r.outcome \in {"touch", "breached", "eligible", "disposed"}
    BY <1>0, <2>1 DEF SweepOK, RetainerRecords
  <2>3. SeenThere(new, goneOn[r.on], day)
    BY <1>0, <2>1, <2>2 DEF SweepOK, SeenThere
  <2>4. CASE retainer' = OnToNext(w, r.on)
    BY <2>1, <2>3, <2>4, GoingOnKeepsPresence
  <2>5. CASE retainer' = [retainer EXCEPT ![w] = [r EXCEPT !.pc = "ticket"]] /\ r.outcome \in {"breached", "eligible"}
    <3> DEFINE to == [r EXCEPT !.pc = "ticket"]
    <3>1. to \in RetainerRecords /\ to.pc = "ticket" /\ to.on = r.on /\ to.todo = r.todo /\ to.at = r.at /\ to.outcome = r.outcome
      BY <2>2 DEF RetainerRecords
    <3> HIDE DEF to, r
    <3>2. SweepOK(to, goneOn, day)
      BY <2>1, <2>2, <2>5, <3>1 DEF SweepOK
    <3> QED  BY <2>1, <2>3, <2>5, <3>1, <3>2, SweepKeepsPresence DEF to
  <2> QED  BY <2>1, <2>4, <2>5
<1>8. ASSUME NEW w \in Retainers, RaiseTicket(w) PROVE PresenceInv'
  <2> DEFINE a == retainer[w].on
  <2>1. /\ a \in Accounts /\ retainer' = OnToNext(w, a) /\ UNCHANGED <<day, turn, goneOn>>
        /\ \/ hold' = hold
           \/ \E new \in HoldRecords : /\ hold' = [hold EXCEPT ![a] = new]
                                       /\ new.state = hold[a].state /\ new.checked = hold[a].checked
    BY <1>8, TicketIsRaised
  <2>2. \A new : new.state = hold[a].state /\ new.checked = hold[a].checked => SeenThere(new, goneOn[a], day)
    BY <1>0, <2>1 DEF SeenThere
  <2> HIDE DEF a
  <2> QED  BY <1>0, <2>1, <2>2, GoingOnKeepsPresence
<1>9. ASSUME NEW w \in Retainers, SweepOneFails(w) PROVE PresenceInv'
  <2>1. retainer' = OnToNext(w, retainer[w].on) /\ UNCHANGED <<day, hold, turn, goneOn>>
    BY <1>9 DEF SweepOneFails
  <2> QED  BY <1>0, <2>1, GoingOnKeepsPresence
<1>10. ASSUME NEW w \in Retainers, RetainerDies(w) PROVE PresenceInv'
  <2>1. retainer' = [retainer EXCEPT ![w] = Off] /\ UNCHANGED <<day, hold, turn, goneOn>>
    BY <1>10 DEF RetainerDies
  <2>2. Off \in RetainerRecords /\ SweepOK(Off, goneOn, day)
    BY <1>0, OffIs DEF SweepOK
  <2> QED  BY <1>0, <2>1, <2>2, SweepKeepsPresence
<1> QED  BY <1>1, <1>2, <1>3, <1>4, <1>5, <1>6, <1>7, <1>8, <1>9, <1>10 DEF RetNext, RetainerStep

LEMMA PresenceHolds == RetSpec => []PresenceInv
<1>1. RetInit => PresenceInv
  <2> SUFFICES ASSUME RetInit PROVE PresenceInv
    OBVIOUS
  <2>1. day = 0 /\ turn \in [Accounts -> Int] /\ LastDay \in Nat
    BY RetentionAssumption DEF RetInit
  <2>2. NoHold \in HoldRecords /\ NoHold.state = "none" /\ NoHold.checked = -1
    BY DEF NoHold, Never, HoldRecords
  <2>3. Still \in Nat
    BY <2>1 DEF Still
  <2>4. hold \in [Accounts -> HoldRecords] /\ goneOn \in [Accounts -> Nat] /\ retainer \in [Retainers -> RetainerRecords]
    BY <2>2, <2>3, OffIs DEF RetInit
  <2>5. \A a \in Accounts : SeenThere(hold[a], goneOn[a], day)
    BY <2>1, <2>2, <2>3 DEF RetInit, SeenThere
  <2>6. \A w \in Retainers : SweepOK(retainer[w], goneOn, day)
    BY <2>1, OffIs DEF RetInit, SweepOK
  <2> QED  BY <2>1, <2>4, <2>5, <2>6 DEF PresenceInv, RetTypeOK
<1> QED  BY <1>1, PresenceStep, PTL DEF RetSpec

-----------------------------------------------------------------------------
(* Alarms.  A sweep takes up active holds only, for none of which a ticket *)
(* was raised, and has set the state of a hold for good before it raises   *)
(* one: what was raised and what is in hand never grow beyond the sweeps   *)
(* that can have the hold in hand at once.                                 *)

Hands(rs, a) == {w \in Retainers : a \in DOMAIN rs[w].todo}

AlarmOK(h) == h.state \in {"none", "active"} => h.alarms = 0

PastCheck(r, hs) == r.pc = "ticket" => r.on \in DOMAIN r.todo /\ hs[r.on].state \notin {"none", "active"}

AlarmInv ==
  /\ \A a \in Accounts : /\ AlarmOK(hold[a])
                         /\ hold[a].alarms + Cardinality(Hands(retainer, a)) <= Cardinality(Retainers)
  /\ \A w \in Retainers : PastCheck(retainer[w], hold)

LEMMA HandsAreFew ==
  ASSUME NEW rs, NEW a
  PROVE  /\ IsFiniteSet(Hands(rs, a)) /\ Cardinality(Hands(rs, a)) \in Nat /\ Cardinality(Retainers) \in Nat
         /\ Cardinality(Hands(rs, a)) <= Cardinality(Retainers)
<1>1. Hands(rs, a) \in SUBSET Retainers
  BY DEF Hands
<1> QED  BY <1>1, RetentionAssumption, FS_Subset, FS_CardinalityType

LEMMA FewerHands ==
  ASSUME NEW rs, NEW ss, NEW a, Hands(ss, a) \subseteq Hands(rs, a)
  PROVE  Cardinality(Hands(ss, a)) <= Cardinality(Hands(rs, a))
BY HandsAreFew, FS_Subset

(* A sweep that takes up nothing new, while no hold becomes active.        *)
LEMMA AlarmsStay ==
  ASSUME PresenceInv, AlarmInv, NEW w \in Retainers, NEW to \in RetainerRecords,
         retainer' = [retainer EXCEPT ![w] = to], DOMAIN to.todo \subseteq DOMAIN retainer[w].todo,
         PastCheck(to, hold'),
         hold' = hold \/ \E b \in Accounts : \E new \in HoldRecords :
           /\ hold' = [hold EXCEPT ![b] = new] /\ new.alarms = hold[b].alarms
           /\ new.state \in {"none", "active"} => hold[b].state \in {"none", "active"}
  PROVE  AlarmInv'
<1>1. retainer'[w] = to /\ \A v \in Retainers : v # w => retainer'[v] = retainer[v]
  BY SweepIs
<1>2. hold \in [Accounts -> HoldRecords]
  BY DEF PresenceInv, RetTypeOK
<1>3. \A a \in Accounts : /\ hold'[a].alarms = hold[a].alarms /\ hold[a].alarms \in Nat
                          /\ hold'[a].state \in {"none", "active"} => hold[a].state \in {"none", "active"}
  <2>1. \A a \in Accounts : hold[a].alarms \in Nat
    BY <1>2 DEF HoldRecords
  <2>2. CASE hold' = hold
    BY <2>1, <2>2
  <2>3. CASE hold' # hold
    <3>1. PICK b \in Accounts, new \in HoldRecords :
            /\ hold' = [hold EXCEPT ![b] = new] /\ new.alarms = hold[b].alarms
            /\ new.state \in {"none", "active"} => hold[b].state \in {"none", "active"}
      BY <2>3
    <3>2. hold'[b] = new /\ \A a \in Accounts : a # b => hold'[a] = hold[a]
      BY <1>2, <3>1
    <3> QED  BY <2>1, <3>1, <3>2
  <2> QED  BY <2>2, <2>3
<1>4. ASSUME NEW a \in Accounts
      PROVE  AlarmOK(hold'[a]) /\ hold'[a].alarms + Cardinality(Hands(retainer', a)) <= Cardinality(Retainers)
  <2>1. Hands(retainer', a) \subseteq Hands(retainer, a)
    BY <1>1 DEF Hands
  <2>2. Cardinality(Hands(retainer', a)) <= Cardinality(Hands(retainer, a))
    BY <2>1, FewerHands
  <2>3. AlarmOK(hold[a]) /\ hold[a].alarms + Cardinality(Hands(retainer, a)) <= Cardinality(Retainers)
    BY DEF AlarmInv
  <2> QED  BY <1>3, <2>2, <2>3, HandsAreFew DEF AlarmOK
<1>5. ASSUME NEW v \in Retainers PROVE PastCheck(retainer'[v], hold')
  <2>1. CASE v = w
    BY <1>1, <2>1
  <2>2. CASE v # w
    <3>1. PastCheck(retainer[v], hold) /\ (retainer[v].pc = "ticket" => retainer[v].on \in Accounts)
      BY SweepIs DEF AlarmInv
    <3> QED  BY <1>1, <1>3, <2>2, <3>1 DEF PastCheck
  <2> QED  BY <2>1, <2>2
<1> QED  BY <1>4, <1>5 DEF AlarmInv

LEMMA AlarmsStayOnNext ==
  ASSUME PresenceInv, AlarmInv, NEW w \in Retainers, NEW c, retainer' = OnToNext(w, c),
         hold' = hold \/ \E b \in Accounts : \E new \in HoldRecords :
           /\ hold' = [hold EXCEPT ![b] = new] /\ new.alarms = hold[b].alarms
           /\ new.state \in {"none", "active"} => hold[b].state \in {"none", "active"}
  PROVE  AlarmInv'
<1>1. retainer[w] \in RetainerRecords
  BY SweepIs
<1>2. PICK to \in RetainerRecords : /\ OnToNext(w, c) = [retainer EXCEPT ![w] = to]
                                    /\ to.pc \in {"idle", "check"}
                                    /\ DOMAIN to.todo \subseteq DOMAIN retainer[w].todo \ {c}
  BY <1>1, GoesOn
<1>3. PastCheck(to, hold')
  BY <1>2 DEF PastCheck
<1> QED  BY <1>2, <1>3, AlarmsStay

(* The ticket is raised, and its hold is out of the hands of the sweep.    *)
LEMMA AlarmIsRaised ==
  ASSUME PresenceInv, AlarmInv, NEW w \in Retainers, NEW new \in HoldRecords,
         retainer[w].pc = "ticket", retainer' = OnToNext(w, retainer[w].on),
         hold' = [hold EXCEPT ![retainer[w].on] = new],
         new.alarms = hold[retainer[w].on].alarms + 1, new.state = hold[retainer[w].on].state
  PROVE  AlarmInv'
<1> DEFINE b == retainer[w].on
<1>1. retainer[w] \in RetainerRecords /\ b \in Accounts /\ b \in DOMAIN retainer[w].todo
      /\ hold[b].state \notin {"none", "active"}
  BY SweepIs DEF AlarmInv, PastCheck
<1>2. PICK to \in RetainerRecords : /\ OnToNext(w, b) = [retainer EXCEPT ![w] = to]
                                    /\ to.pc \in {"idle", "check"}
                                    /\ DOMAIN to.todo \subseteq DOMAIN retainer[w].todo \ {b}
  BY <1>1, GoesOn
<1>3. retainer'[w] = to /\ \A v \in Retainers : v # w => retainer'[v] = retainer[v]
  BY <1>2, SweepIs
<1>4. hold'[b] = new /\ \A a \in Accounts : (a # b => hold'[a] = hold[a]) /\ hold[a].alarms \in Nat
  BY <1>1 DEF PresenceInv, RetTypeOK, HoldRecords
<1> HIDE DEF b
<1>5. ASSUME NEW a \in Accounts
      PROVE  AlarmOK(hold'[a]) /\ hold'[a].alarms + Cardinality(Hands(retainer', a)) <= Cardinality(Retainers)
  <2>1. AlarmOK(hold[a]) /\ hold[a].alarms + Cardinality(Hands(retainer, a)) <= Cardinality(Retainers)
    BY DEF AlarmInv
  <2>2. Hands(retainer', a) \subseteq Hands(retainer, a) \ (IF a = b THEN {w} ELSE {})
    BY <1>2, <1>3 DEF Hands
  <2>3. CASE a = b
    <3>1. w \in Hands(retainer, a)
      BY <1>1, <2>3 DEF Hands
    <3>2. /\ IsFiniteSet(Hands(retainer, a) \ {w})
          /\ Cardinality(Hands(retainer, a) \ {w}) = Cardinality(Hands(retainer, a)) - 1
      BY <3>1, HandsAreFew, FS_RemoveElement
    <3>3. Cardinality(Hands(retainer', a)) <= Cardinality(Hands(retainer, a)) - 1
      BY <2>2, <2>3, <3>2, FS_Subset
    <3>4. new.alarms = hold[a].alarms + 1 /\ new.state \notin {"none", "active"}
      BY <1>1, <2>3 DEF b
    <3> QED  BY <1>4, <2>1, <2>3, <3>3, <3>4, HandsAreFew DEF AlarmOK
  <2>4. CASE a # b
    <3>1. Cardinality(Hands(retainer', a)) <= Cardinality(Hands(retainer, a))
      BY <2>2, <2>4, FewerHands
    <3> QED  BY <1>4, <2>1, <2>4, <3>1, HandsAreFew
  <2> QED  BY <2>3, <2>4
<1>6. ASSUME NEW v \in Retainers PROVE PastCheck(retainer'[v], hold')
  <2>1. CASE v = w
    BY <1>2, <1>3, <2>1 DEF PastCheck
  <2>2. CASE v # w
    <3>1. PastCheck(retainer[v], hold) /\ (retainer[v].pc = "ticket" => retainer[v].on \in Accounts)
      BY SweepIs DEF AlarmInv
    <3>2. new.state = hold[b].state
      BY DEF b
    <3> QED  BY <1>1, <1>3, <1>4, <2>2, <3>1, <3>2 DEF PastCheck
  <2> QED  BY <2>1, <2>2
<1> QED  BY <1>5, <1>6 DEF AlarmInv

LEMMA AlarmStep == PresenceInv /\ AlarmInv /\ [RetNext]_retVars => AlarmInv'
<1> SUFFICES ASSUME PresenceInv, AlarmInv, [RetNext]_retVars PROVE AlarmInv'
  OBVIOUS
<1>0. /\ hold \in [Accounts -> HoldRecords] /\ retainer \in [Retainers -> RetainerRecords] /\ RetTypeOK
      /\ \A a \in Accounts : /\ AlarmOK(hold[a]) /\ hold[a] \in HoldRecords /\ hold[a].alarms \in Nat
                             /\ hold[a].alarms + Cardinality(Hands(retainer, a)) <= Cardinality(Retainers)
      /\ \A w \in Retainers : PastCheck(retainer[w], hold)
  BY DEF PresenceInv, RetTypeOK, AlarmInv, HoldRecords
<1>1. CASE UNCHANGED <<hold, retainer>>
  BY <1>1 DEF AlarmInv
<1>2. ASSUME NEW a \in Accounts, RecordHoldFor(a) PROVE AlarmInv'
  <2>1. PICK new \in HoldRecords : hold' = [hold EXCEPT ![a] = new] /\ new.state = "active" /\ new.alarms = 0
    BY <1>0, <1>2, NewHoldIs
  <2>2. retainer' = retainer /\ hold[a].state = "none"
    BY <1>0, <1>2, NewHoldIs
  <2>3. hold'[a] = new /\ \A b \in Accounts : b # a => hold'[b] = hold[b]
    BY <1>0, <2>1
  <2>4. AlarmOK(new) /\ new.alarms + Cardinality(Hands(retainer, a)) <= Cardinality(Retainers)
    BY <2>1, HandsAreFew DEF AlarmOK
  <2>5. \A w \in Retainers : PastCheck(retainer[w], hold')
    <3> SUFFICES ASSUME NEW w \in Retainers PROVE PastCheck(retainer[w], hold')
      OBVIOUS
    <3>1. PastCheck(retainer[w], hold) /\ (retainer[w].pc = "ticket" => retainer[w].on \in Accounts)
      BY <1>0, SweepIs
    <3> QED  BY <2>2, <2>3, <3>1 DEF PastCheck
  <2> QED  BY <1>0, <2>2, <2>3, <2>4, <2>5 DEF AlarmInv
<1>3. ASSUME NEW w \in Retainers, SweepStart(w) PROVE AlarmInv'
  <2>1. PICK to \in RetainerRecords : /\ retainer' = [retainer EXCEPT ![w] = to] /\ to.pc = "check"
                                      /\ \A a \in DOMAIN to.todo : hold[a].state = "active"
    BY <1>0, <1>3, Begins
  <2>2. hold' = hold /\ retainer'[w] = to /\ \A v \in Retainers : v # w => retainer'[v] = retainer[v]
    BY <1>3, <2>1, SweepIs DEF SweepStart
  <2>3. ASSUME NEW a \in Accounts
        PROVE  hold[a].alarms + Cardinality(Hands(retainer', a)) <= Cardinality(Retainers)
    <3>1. CASE a \in DOMAIN to.todo
      BY <1>0, <2>1, <3>1, HandsAreFew DEF AlarmOK
    <3>2. CASE a \notin DOMAIN to.todo
      <4>1. Hands(retainer', a) \subseteq Hands(retainer, a)
        BY <2>2, <3>2 DEF Hands
      <4>2. Cardinality(Hands(retainer', a)) <= Cardinality(Hands(retainer, a))
        BY <4>1, FewerHands
      <4> QED  BY <1>0, <4>2, HandsAreFew
    <3> QED  BY <3>1, <3>2
  <2>4. \A v \in Retainers : PastCheck(retainer'[v], hold)
    BY <1>0, <2>1, <2>2 DEF PastCheck
  <2> QED  BY <1>0, <2>2, <2>3, <2>4 DEF AlarmInv
<1>4. ASSUME NEW w \in Retainers, NEW a \in Accounts, GraphAnswers(w, a) \/ GraphIsSilent(w, a) PROVE AlarmInv'
  <2>1. hold' = hold
    BY <1>0, <1>4, Checked
  <2>2. CASE retainer' = OnToNext(w, a)
    BY <2>1, <2>2, AlarmsStayOnNext
  <2>3. CASE retainer' # OnToNext(w, a)
    <3>1. PICK outcome \in {"touch", "breached", "eligible", "disposed"} :
            /\ retainer' = [retainer EXCEPT ![w] = [retainer[w] EXCEPT !.pc = "write", !.on = a, !.outcome = outcome]]
            /\ outcome = "touch" => goneOn[a] = Still
      BY <1>0, <1>4, <2>3, Checked
    <3> DEFINE to == [retainer[w] EXCEPT !.pc = "write", !.on = a, !.outcome = outcome]
    <3>2. to \in RetainerRecords /\ to.pc = "write" /\ to.todo = retainer[w].todo
      BY <1>0, <1>4 DEF RetainerRecords
    <3> HIDE DEF to
    <3>3. PastCheck(to, hold')
      BY <3>2 DEF PastCheck
    <3> QED  BY <2>1, <3>1, <3>2, <3>3, AlarmsStay DEF to
  <2> QED  BY <2>2, <2>3
<1>5. ASSUME NEW w \in Retainers, SetState(w) PROVE AlarmInv'
  <2> DEFINE r == retainer[w]
  <2>1. PICK new \in HoldRecords :
           /\ hold' = [hold EXCEPT ![r.on] = new] /\ r.pc = "write" /\ r.on \in Accounts
           /\ new.alarms = hold[r.on].alarms
           /\ new.state = IF r.outcome = "touch" THEN hold[r.on].state ELSE r.outcome
           /\ \/ retainer' = OnToNext(w, r.on) /\ r.outcome \in {"touch", "disposed"}
              \/ /\ retainer' = [retainer EXCEPT ![w] = [r EXCEPT !.pc = "ticket"]]
                 /\ r.outcome \in {"breached", "eligible"}
    BY <1>5, StateIsSet
  <2>2. new.state \in {"none", "active"} => hold[r.on].state \in {"none", "active"}
    BY <2>1
  <2>3. CASE retainer' = OnToNext(w, r.on)
    BY <2>1, <2>2, <2>3, AlarmsStayOnNext
  <2>4. CASE retainer' = [retainer EXCEPT ![w] = [r EXCEPT !.pc = "ticket"]] /\ r.outcome \in {"breached", "eligible"}
    <3> DEFINE to == [r EXCEPT !.pc = "ticket"]
    <3>1. to \in RetainerRecords /\ to.pc = "ticket" /\ to.on = r.on /\ to.todo = r.todo /\ r.on \in DOMAIN r.todo
      BY <1>0, <2>1, SweepIs DEF RetainerRecords, SweepOK
    <3>2. hold'[r.on] = new /\ new.state \in {"breached", "eligible"}
      BY <1>0, <2>1, <2>4
    <3> HIDE DEF to
    <3>3. PastCheck(to, hold')
      BY <3>1, <3>2 DEF PastCheck
    <3> QED  BY <2>1, <2>2, <2>4, <3>1, <3>3, AlarmsStay DEF to
  <2> QED  BY <2>1, <2>3, <2>4
<1>6. ASSUME NEW w \in Retainers, RaiseTicket(w) PROVE AlarmInv'
  <2>1. /\ retainer[w].pc = "ticket" /\ retainer' = OnToNext(w, retainer[w].on)
        /\ \/ hold' = hold
           \/ \E new \in HoldRecords : /\ hold' = [hold EXCEPT ![retainer[w].on] = new]
                                       /\ new.alarms = hold[retainer[w].on].alarms + 1
                                       /\ new.state = hold[retainer[w].on].state
    BY <1>6, TicketIsRaised
  <2> QED  BY <2>1, AlarmsStayOnNext, AlarmIsRaised
<1>7. ASSUME NEW w \in Retainers, SweepOneFails(w) PROVE AlarmInv'
  <2>1. retainer' = OnToNext(w, retainer[w].on) /\ hold' = hold
    BY <1>7 DEF SweepOneFails
  <2> QED  BY <2>1, AlarmsStayOnNext
<1>8. ASSUME NEW w \in Retainers, RetainerDies(w) PROVE AlarmInv'
  <2>1. retainer' = [retainer EXCEPT ![w] = Off] /\ hold' = hold
    BY <1>8 DEF RetainerDies
  <2>2. Off \in RetainerRecords /\ DOMAIN Off.todo = {} /\ PastCheck(Off, hold')
    BY OffIs DEF PastCheck
  <2> QED  BY <2>1, <2>2, AlarmsStay
<1>9. DayPasses \/ (\E a \in Accounts : AccountDeleted(a)) \/ UNCHANGED retVars => UNCHANGED <<hold, retainer>>
  BY DEF DayPasses, AccountDeleted, retVars
<1> QED  BY <1>1, <1>2, <1>3, <1>4, <1>5, <1>6, <1>7, <1>8, <1>9 DEF RetNext, RetainerStep

(* An account is on record as checked only while it was there, whatever    *)
(* Graph leaves unanswered and however many processes sweep                *)
(* (sweep-decision.ts).                                                    *)
THEOREM SilenceIsNotPresence == RetSpec => []OutageIsNotPresence
<1>1. PresenceInv => OutageIsNotPresence
  BY DEF PresenceInv, SeenThere, OutageIsNotPresence
<1> QED  BY <1>1, PresenceHolds, PTL

(* However many processes sweep, a hold that has raised a ticket is never  *)
(* swept again, and what is on record of its account is true               *)
(* (retention-sweeper.ts).                                                 *)
THEOREM HoldsAreTruthful == RetSpec => []HoldIsTruthful
<1>1. RetInit => AlarmInv
  <2> SUFFICES ASSUME RetInit PROVE AlarmInv
    OBVIOUS
  <2>1. \A a \in Accounts : hold[a] = NoHold
    BY DEF RetInit
  <2>2. NoHold.alarms = 0
    BY DEF NoHold
  <2>3. \A a \in Accounts : AlarmOK(hold[a]) /\ hold[a].alarms + Cardinality(Hands(retainer, a)) <= Cardinality(Retainers)
    BY <2>1, <2>2, HandsAreFew DEF AlarmOK
  <2>4. \A w \in Retainers : PastCheck(retainer[w], hold)
    BY OffIs DEF RetInit, PastCheck
  <2> QED  BY <2>3, <2>4 DEF AlarmInv
<1>2. RetSpec => []AlarmInv
  BY <1>1, AlarmStep, PresenceHolds, PTL DEF RetSpec
<1>3. AlarmInv => AlarmedOnce
  BY DEF AlarmInv, AlarmOK, AlarmedOnce, Hands
<1> QED  BY <1>2, <1>3, SilenceIsNotPresence, PTL DEF HoldIsTruthful

-----------------------------------------------------------------------------
(* All three                                                               *)

(* A step of a life is a step of each engine, or leaves it as it is.       *)
LEMMA StepsOfEngines ==
  [LifeNext]_lifeVars => [ProvNext]_provVars /\ [OffNext]_offVars /\ [RetNext]_retVars
BY Zenon DEF LifeNext, lifeVars

LEMMA EnginesBehave == LifeSpec => ProvSpec /\ OffSpec /\ RetSpec
<1>1. LifeInit => ProvInit /\ OffInit /\ RetInit
  BY DEF LifeInit
<1> QED  BY <1>1, StepsOfEngines, PTL DEF LifeSpec, ProvSpec, OffSpec, RetSpec

(* Whatever becomes of an account: one provisioning run of its ticket is   *)
(* in flight at a time and gives it what was planned, an ended run stays   *)
(* ended, its offboarding fires once and leaves nothing behind, and what   *)
(* the sweeps record of it afterwards is true.                             *)
THEOREM AccountsComeAndGo ==
  LifeSpec => [](OneRunInFlight /\ AccountIsAsPlanned /\ FiresOnce /\ LeavesNothingBehind /\ HoldIsTruthful)
              /\ EndedStaysEnded
BY EnginesBehave, RunsAreAlone, AccountsAreAsPlanned, EndedRunsStayEnded, RunsFireOnce, NothingIsLeftBehind,
   HoldsAreTruthful, PTL
=============================================================================
