--------------------------- MODULE Delivery_proofs ---------------------------
(***************************************************************************)
(* Theorems about Delivery for any number of changes, due cards, users and *)
(* attempts, under every fault: what is told and recorded, and how often.  *)
(***************************************************************************)
EXTENDS Delivery, SequenceTheorems, TLAPS

-----------------------------------------------------------------------------
(* Types                                                                   *)

(* A job that is not over has an attempt and a stall left; workers run in  *)
(* a process that is up; a sweep is at a card that is due.                 *)
JobOK(t, j) ==
    /\ j \in Job
    /\ j.tries <= Attempts /\ j.stalls <= 2
    /\ j.st \in {"none", "waiting", "active"} => j.tries < Attempts /\ j.stalls <= 1
    /\ t = Sweep /\ j.st # "none" => dlvMix.due # <<>>
    /\ t = Sweep /\ j.st = "active" => j.at \in 1..Len(dlvMix.due)

Runs == working => up[WorkerProcess]

TypeInv ==
    /\ DeliveryTypeOK
    /\ Runs
    /\ \A t \in Tasks : JobOK(t, job[t])

LEMMA TaskKinds ==
    ASSUME NEW t \in Tasks
    PROVE  /\ t = Sweep \/ \E q \in Changes : t = <<"notice", q>> \/ t = <<"audit", q>>
           /\ t[1] = "audit" => t[2] \in Changes /\ t = <<"audit", t[2]>>
           /\ t # Sweep => t[2] \in Changes
           /\ t # Sweep /\ t[1] # "audit" => t = <<"notice", t[2]>>
           /\ Sweep[1] # "audit"
  BY DEF Tasks, Kinds, Sweep

LEMMA TasksOf ==
    ASSUME NEW q \in Changes
    PROVE  /\ <<"notice", q>> \in Tasks /\ <<"audit", q>> \in Tasks
           /\ <<"notice", q>> # <<"audit", q>>
           /\ <<"notice", q>> # Sweep /\ <<"audit", q>> # Sweep
           /\ <<"notice", q>>[1] = "notice" /\ <<"audit", q>>[1] = "audit"
           /\ <<"notice", q>>[2] = q /\ <<"audit", q>>[2] = q
  BY DEF Tasks, Kinds, Sweep

LEMMA MixType ==
    ASSUME dlvMix \in DeliveryMixes
    PROVE  /\ dlvMix.split \in BOOLEAN /\ dlvMix.changes \subseteq Changes
           /\ dlvMix.due \in Seq(DueCards) /\ dlvMix.shapes \subseteq Shape
           /\ dlvMix.mishaps \in Nat
           /\ \A i, j \in DOMAIN dlvMix.due : dlvMix.due[i] = dlvMix.due[j] => i = j
  BY DeliveryAssumption

(* What a job stores its notifications for is a draft.                     *)
LEMMA CurrentType ==
    ASSUME TypeInv, NEW t \in Tasks, job[t].st = "active", t[1] # "audit"
    PROVE  Current(t) \in Drafts /\ (t = Sweep => Current(t) \in DueCards)
<1>1. CASE t = Sweep
  <2>1. dlvMix.due \in Seq(DueCards) /\ job[t].at \in 1..Len(dlvMix.due)
    BY <1>1, MixType DEF TypeInv, DeliveryTypeOK, JobOK
  <2> QED BY <1>1, <2>1 DEF Current, Drafts
<1>2. CASE t # Sweep
  BY <1>2, TaskKinds DEF Current, Drafts
<1> QED BY <1>1, <1>2

LEMMA StoreType ==
    ASSUME TypeInv, NEW d \in Drafts, Store(d) \/ StorePart(d)
    PROVE  /\ inbox' \in [Drafts -> [Users -> Nat]]
           /\ \A e \in Drafts : e # d => inbox'[e] = inbox[e]
           /\ \A u \in Users : /\ inbox[d][u] <= inbox'[d][u] /\ inbox'[d][u] <= inbox[d][u] + 1
                               /\ u \notin Audience(d) => inbox'[d][u] = inbox[d][u]
           /\ Store(d) => \A u \in Audience(d) : u \in Users => inbox'[d][u] = inbox[d][u] + 1
<1>1. inbox \in [Drafts -> [Users -> Nat]]
  BY DEF TypeInv, DeliveryTypeOK
<1>2. PICK S \in SUBSET Audience(d) :
         /\ inbox' = [inbox EXCEPT ![d] = [u \in Users |-> inbox[d][u] + IF u \in S THEN 1 ELSE 0]]
         /\ Store(d) => S = Audience(d)
  <2>1. CASE Store(d)
    BY <2>1 DEF Store
  <2>2. CASE StorePart(d) /\ ~Store(d)
    BY <2>2 DEF StorePart
  <2> QED BY <2>1, <2>2
<1>3. [u \in Users |-> inbox[d][u] + IF u \in S THEN 1 ELSE 0] \in [Users -> Nat]
  BY <1>1
<1> QED BY <1>1, <1>2, <1>3

LEMMA EmitType ==
    ASSUME TypeInv, NEW d \in Drafts, NEW p, Emit(d, p)
    PROVE  /\ heard' \in [Drafts -> [Users -> Nat]]
           /\ \A e \in Drafts : e # d => heard'[e] = heard[e]
           /\ p = "api" => \A u \in Users :
                 heard'[d][u] = heard[d][u] + IF u \in Audience(d) THEN 1 ELSE 0
<1>1. heard \in [Drafts -> [Users -> Nat]]
  BY DEF TypeInv, DeliveryTypeOK
<1> QED BY <1>1 DEF Emit

LEMMA StrikesType ==
    ASSUME TypeInv, NEW kind, NEW S, Strikes(kind, S)
    PROVE  /\ trouble' \in [Drafts -> Nat] /\ mishaps' \in Nat
           /\ \A d \in Drafts : trouble'[d] = trouble[d] + IF d \in S THEN 1 ELSE 0
  BY DEF TypeInv, DeliveryTypeOK, Strikes

LEMMA JobTypes ==
    /\ NoJob \in Job /\ [NoJob EXCEPT !.st = "waiting"] \in Job
    /\ [NoJob EXCEPT !.st = "waiting"].st = "waiting"
    /\ ~[NoJob EXCEPT !.st = "waiting"].did
    /\ [NoJob EXCEPT !.st = "waiting"].tries = 0 /\ [NoJob EXCEPT !.st = "waiting"].stalls = 0
    /\ NoJob.st = "none" /\ NoJob.tries = 0 /\ NoJob.stalls = 0 /\ ~NoJob.did
  BY DEF NoJob, Job

LEMMA InitType == DeliveryInit => TypeInv
<1> SUFFICES ASSUME DeliveryInit PROVE TypeInv
  OBVIOUS
<1>1. Silent \in Shape
  BY DEF Silent, Shape
<1>2. shape \in [Drafts -> Shape]
  BY <1>1, MixType DEF DeliveryInit
<1>3. up \in [{"api", "worker"} -> BOOLEAN] /\ up["api"] /\ up[WorkerProcess]
  BY MixType DEF DeliveryInit, WorkerProcess
<1>4. /\ job \in [Tasks -> Job]
      /\ \A t \in Tasks : job[t].st = "none" /\ job[t].tries = 0 /\ job[t].stalls = 0
  BY JobTypes DEF DeliveryInit
<1>5. Sweep \in Tasks /\ Attempts \in Nat /\ 0 < Attempts
  BY DeliveryAssumption DEF Tasks
<1>6. change \in [Changes -> Handler]
  BY DEF DeliveryInit, Handler, ChangeSteps
<1>7. Runs
  BY <1>3 DEF Runs
<1> QED BY <1>2, <1>3, <1>4, <1>5, <1>6, <1>7 DEF DeliveryInit, TypeInv, DeliveryTypeOK, JobOK

LEMMA JobSet ==
    ASSUME TypeInv, dlvMix' = dlvMix, NEW t \in Tasks, NEW j, JobOK(t, j),
           job' = [job EXCEPT ![t] = j]
    PROVE  job' \in [Tasks -> Job] /\ \A x \in Tasks : JobOK(x, job[x])'
<1>1. job \in [Tasks -> Job] /\ \A x \in Tasks : JobOK(x, job[x])
  BY DEF TypeInv, DeliveryTypeOK
<1>2. job' \in [Tasks -> Job] /\ \A x \in Tasks : JobOK(x, job'[x])
  BY <1>1 DEF JobOK
<1> QED BY <1>2 DEF JobOK

LEMMA JobsSame ==
    ASSUME TypeInv, dlvMix' = dlvMix, job' = job
    PROVE  job' \in [Tasks -> Job] /\ \A x \in Tasks : JobOK(x, job[x])'
  BY DEF TypeInv, DeliveryTypeOK, JobOK

(* The parts together.                                                     *)
LEMMA Together ==
    ASSUME TypeInv, shape' = shape, dlvMix' = dlvMix,
           redis' \in BOOLEAN, up' \in [{"api", "worker"} -> BOOLEAN],
           working' \in BOOLEAN, consumers' \in BOOLEAN, Runs',
           change' \in [Changes -> Handler],
           job' \in [Tasks -> Job], \A x \in Tasks : JobOK(x, job[x])',
           inbox' \in [Drafts -> [Users -> Nat]], heard' \in [Drafts -> [Users -> Nat]],
           audit' \in [Changes -> Nat], trouble' \in [Drafts -> Nat], mishaps' \in Nat,
           stranded' \subseteq Tasks
    PROVE  TypeInv'
<1>1. WorkerProcess' = WorkerProcess
  BY DEF WorkerProcess
<1>2. WorkerProcess \in {"api", "worker"}
  BY DEF WorkerProcess
<1>3. working' => up'["api"] \/ up'["worker"]
  BY <1>1, <1>2, Zenon DEF Runs
<1>4. \A t \in Tasks : job'[t].tries <= Attempts /\ job'[t].stalls <= 2
  BY DEF JobOK
<1>5. DeliveryTypeOK'
  BY <1>3, <1>4 DEF TypeInv, DeliveryTypeOK
<1> QED BY <1>1, <1>5 DEF TypeInv

(* ... when the processes are left alone.                                  *)
LEMMA TogetherUp ==
    ASSUME TypeInv, shape' = shape, dlvMix' = dlvMix, stranded' = stranded,
           redis' = redis, up' = up, working' = working, consumers' = consumers,
           change' \in [Changes -> Handler],
           job' \in [Tasks -> Job], \A x \in Tasks : JobOK(x, job[x])',
           inbox' \in [Drafts -> [Users -> Nat]], heard' \in [Drafts -> [Users -> Nat]],
           audit' \in [Changes -> Nat], trouble' \in [Drafts -> Nat], mishaps' \in Nat
    PROVE  TypeInv'
<1>1. /\ redis' \in BOOLEAN /\ up' \in [{"api", "worker"} -> BOOLEAN]
      /\ working' \in BOOLEAN /\ consumers' \in BOOLEAN /\ stranded' \subseteq Tasks
  BY DEF TypeInv, DeliveryTypeOK
<1>2. Runs'
  <2>1. Runs
    BY DEF TypeInv
  <2> QED BY <2>1 DEF Runs, WorkerProcess
<1> QED BY <1>1, <1>2, Together

LEMMA Kept ==
    ASSUME TypeInv
    PROVE  /\ change' = change => change' \in [Changes -> Handler]
           /\ inbox' = inbox => inbox' \in [Drafts -> [Users -> Nat]]
           /\ heard' = heard => heard' \in [Drafts -> [Users -> Nat]]
           /\ audit' = audit => audit' \in [Changes -> Nat]
           /\ trouble' = trouble => trouble' \in [Drafts -> Nat]
           /\ mishaps' = mishaps => mishaps' \in Nat
  BY DEF TypeInv, DeliveryTypeOK

LEMMA GoType ==
    ASSUME TypeInv, NEW q \in Changes, NEW step \in ChangeSteps, ChangeGo(q, step)
    PROVE  change' \in [Changes -> Handler]
  BY DEF TypeInv, DeliveryTypeOK, ChangeGo, Handler

(* enqueue, for either kind of job: what it may do.                        *)
LEMMA EnqueueSteps ==
    ASSUME TypeInv, NEW q \in Changes, NEW k \in Kinds, NEW queued, NEW inline,
           Enqueue(q, k, queued, inline)
    PROVE  \/ /\ job' = [job EXCEPT ![<<k, q>>] = [NoJob EXCEPT !.st = "waiting"]]
              /\ ChangeGo(q, queued) /\ NoTrouble
           \/ /\ job' = [job EXCEPT ![<<k, q>>] = [NoJob EXCEPT !.st = "waiting"]]
              /\ ChangeGo(q, inline) /\ Strikes("add", {q})
           \/ /\ job' = job
              /\ ChangeGo(q, inline) /\ NoTrouble
  BY DEF Enqueue

LEMMA EnqueueType ==
    ASSUME TypeInv, dlvMix' = dlvMix, NEW q \in Changes, NEW k \in Kinds,
           NEW queued \in ChangeSteps, NEW inline \in ChangeSteps,
           Enqueue(q, k, queued, inline)
    PROVE  /\ change' \in [Changes -> Handler]
           /\ job' \in [Tasks -> Job] /\ \A x \in Tasks : JobOK(x, job[x])'
           /\ trouble' \in [Drafts -> Nat] /\ mishaps' \in Nat
<1>1. <<k, q>> \in Tasks /\ <<k, q>> # Sweep
  BY DEF Tasks, Kinds, Sweep
<1>2. JobOK(<<k, q>>, [NoJob EXCEPT !.st = "waiting"])
  BY <1>1, JobTypes, DeliveryAssumption DEF JobOK
<1>3. job' \in [Tasks -> Job] /\ \A x \in Tasks : JobOK(x, job[x])'
  BY <1>1, <1>2, EnqueueSteps, JobSet, JobsSame
<1>4. change' \in [Changes -> Handler]
  BY EnqueueSteps, GoType
<1>5. trouble' \in [Drafts -> Nat] /\ mishaps' \in Nat
  BY EnqueueSteps, StrikesType, Kept DEF NoTrouble
<1> QED BY <1>3, <1>4, <1>5

LEMMA HandlingType ==
    ASSUME TypeInv, NEW q \in Changes, Handling(q)
    PROVE  TypeInv'
<1>0. change \in [Changes -> Handler] /\ q \in Drafts
  BY DEF TypeInv, DeliveryTypeOK, Drafts
<1>1. CASE StartChange(q)
  <2>1. change' \in [Changes -> Handler]
    BY <1>1, GoType DEF StartChange, ChangeSteps
  <2> QED BY <1>1, <2>1, Kept, JobsSame, TogetherUp DEF StartChange, stores, NoTrouble, processes
<1>2. CASE Commit(q)
  <2>1. change' \in [Changes -> Handler]
    <3>1. /\ [step |-> "notify", wrote |-> TRUE, answer |-> "none"] \in Handler
          /\ [step |-> "over", wrote |-> FALSE, answer |-> "error"] \in Handler
      BY DEF Handler, ChangeSteps
    <3> QED BY <1>0, <1>2, <3>1 DEF Commit
  <2> QED BY <1>2, <2>1, Kept, JobsSame, TogetherUp DEF Commit, stores, NoTrouble, processes
<1>3. CASE Notify(q)
  <2>1. Enqueue(q, "notice", "answer", "deliver") /\ dlvMix' = dlvMix
    BY <1>3 DEF Notify
  <2>2. "notice" \in Kinds /\ "answer" \in ChangeSteps /\ "deliver" \in ChangeSteps
    BY DEF Kinds, ChangeSteps
  <2> QED BY <1>3, <2>1, <2>2, EnqueueType, Kept, TogetherUp DEF Notify, stores, processes
<1>4. CASE DeliverInline(q)
  <2>1. change' \in [Changes -> Handler]
    BY <1>0, <1>4 DEF DeliverInline, ChangeGo, Handler, ChangeSteps
  <2>2. inbox' \in [Drafts -> [Users -> Nat]]
    BY <1>0, <1>4, StoreType, Kept DEF DeliverInline
  <2>3. trouble' \in [Drafts -> Nat] /\ mishaps' \in Nat
    BY <1>4, StrikesType, Kept DEF DeliverInline, NoTrouble
  <2> QED BY <1>4, <2>1, <2>2, <2>3, Kept, JobsSame, TogetherUp DEF DeliverInline, processes
<1>5. CASE EmitInline(q)
  <2>1. change' \in [Changes -> Handler]
    BY <1>5, GoType DEF EmitInline, ChangeSteps
  <2>2. heard' \in [Drafts -> [Users -> Nat]]
    BY <1>0, <1>5, EmitType DEF EmitInline
  <2> QED BY <1>5, <2>1, <2>2, Kept, JobsSame, TogetherUp DEF EmitInline, NoTrouble, processes
<1>6. CASE AnswerChange(q)
  <2>1. change' \in [Changes -> Handler]
    BY <1>0, <1>6, ZenonT(60) DEF AnswerChange, Handler, ChangeSteps
  <2> QED BY <1>6, <2>1, Kept, JobsSame, TogetherUp DEF AnswerChange, stores, NoTrouble, processes
<1>7. CASE RecordEntry(q)
  <2>1. Enqueue(q, "audit", "over", "persist") /\ dlvMix' = dlvMix
    BY <1>7 DEF RecordEntry
  <2>2. "audit" \in Kinds /\ "over" \in ChangeSteps /\ "persist" \in ChangeSteps
    BY DEF Kinds, ChangeSteps
  <2> QED BY <1>7, <2>1, <2>2, EnqueueType, Kept, TogetherUp DEF RecordEntry, stores, processes
<1>8. CASE PersistInline(q)
  <2>1. change' \in [Changes -> Handler]
    BY <1>8, GoType DEF PersistInline, ChangeSteps
  <2>2. audit' \in [Changes -> Nat]
    BY <1>8 DEF PersistInline, TypeInv, DeliveryTypeOK
  <2>3. trouble' \in [Drafts -> Nat] /\ mishaps' \in Nat
    BY <1>8, StrikesType, Kept DEF PersistInline, NoTrouble
  <2> QED BY <1>8, <2>1, <2>2, <2>3, Kept, JobsSame, TogetherUp DEF PersistInline, processes
<1> QED BY <1>1, <1>2, <1>3, <1>4, <1>5, <1>6, <1>7, <1>8 DEF Handling

(* What a step of a job does to it, field by field.                        *)
LEMMA TakeSteps ==
    ASSUME TypeInv, NEW t \in Tasks, TakeJob(t)
    PROVE  /\ job' = [job EXCEPT ![t] = [job[t] EXCEPT !.st = "active", !.at = 1, !.did = FALSE]]
           /\ JobOK(t, [job[t] EXCEPT !.st = "active", !.at = 1, !.did = FALSE])
           /\ job[t].st = "waiting"
<1>1. job \in [Tasks -> Job] /\ JobOK(t, job[t]) /\ job[t].st = "waiting"
  BY DEF TypeInv, DeliveryTypeOK, TakeJob
<1>2. job' = [job EXCEPT ![t] = [job[t] EXCEPT !.st = "active", !.at = 1, !.did = FALSE]]
  BY <1>1 DEF TakeJob
<1>3. t = Sweep => 1 \in 1..Len(dlvMix.due)
  <2>1. t = Sweep => dlvMix.due # <<>> /\ dlvMix.due \in Seq(DueCards)
    BY <1>1, MixType DEF JobOK, TypeInv, DeliveryTypeOK
  <2> QED BY <2>1, EmptySeq
<1>4. [job[t] EXCEPT !.st = "active", !.at = 1, !.did = FALSE] \in Job
  BY <1>1 DEF Job
<1> QED BY <1>1, <1>2, <1>3, <1>4 DEF JobOK, Job

LEMMA RunSteps ==
    ASSUME TypeInv, NEW t \in Tasks, RunJob(t)
    PROVE  /\ job' = [job EXCEPT ![t] = [job[t] EXCEPT !.did = TRUE]]
           /\ JobOK(t, [job[t] EXCEPT !.did = TRUE])
           /\ job[t].st = "active" /\ ~job[t].did
<1>1. job \in [Tasks -> Job] /\ JobOK(t, job[t]) /\ job[t].st = "active" /\ ~job[t].did
  BY DEF TypeInv, DeliveryTypeOK, RunJob
<1>2. job' = [job EXCEPT ![t] = [job[t] EXCEPT !.did = TRUE]]
  BY <1>1 DEF RunJob
<1>3. [job[t] EXCEPT !.did = TRUE] \in Job
  BY <1>1 DEF Job
<1> QED BY <1>1, <1>2, <1>3 DEF JobOK, Job

LEMMA StalledParts ==
    ASSUME TypeInv, NEW t \in Tasks, job[t].st = "active"
    PROVE  /\ JobOK(t, Stalled(t))
           /\ Stalled(t).st \in {"waiting", "failed"} /\ ~Stalled(t).did
<1>1. job[t] \in Job /\ JobOK(t, job[t])
  BY DEF TypeInv, DeliveryTypeOK
<1>2. Stalled(t) \in Job
  <2>1. job[t].stalls + 1 \in Nat
    BY <1>1 DEF Job
  <2> QED BY <1>1, <2>1 DEF Stalled, Job
<1> QED BY <1>1, <1>2 DEF JobOK, Job, Stalled

LEMMA FailSteps ==
    ASSUME TypeInv, NEW t \in Tasks, FailJob(t)
    PROVE  /\ job[t].st = "active" /\ ~job[t].did
           /\ \E j \in Job : /\ job' = [job EXCEPT ![t] = j] /\ JobOK(t, j)
                            /\ j.st \in {"waiting", "failed"} /\ ~j.did
<1>1. job \in [Tasks -> Job] /\ JobOK(t, job[t]) /\ job[t].st = "active" /\ ~job[t].did
  BY DEF TypeInv, DeliveryTypeOK, FailJob
<1>2. CASE redis
  <2>1. PICK st \in {"waiting", "failed"} :
          st = IF job[t].tries + 1 < Attempts THEN "waiting" ELSE "failed"
    OBVIOUS
  <2> DEFINE j == [job[t] EXCEPT !.tries = @ + 1, !.st = st, !.did = FALSE]
  <2>2. job' = [job EXCEPT ![t] = j]
    BY <1>1, <1>2, <2>1 DEF FailJob, Tried
  <2>3. j \in Job
    <3>1. job[t] \in Job /\ job[t].tries + 1 \in Nat
          /\ st \in {"none", "waiting", "active", "done", "failed"}
      BY <1>1, <2>1 DEF Job
    <3> QED BY <3>1 DEF Job
  <2>4. job[t].tries \in Nat /\ job[t].tries < Attempts /\ Attempts \in Nat
    BY <1>1, DeliveryAssumption DEF JobOK, Job
  <2>5. JobOK(t, j) /\ j.st \in {"waiting", "failed"} /\ ~j.did
    BY <1>1, <2>1, <2>3, <2>4 DEF JobOK, Job
  <2> HIDE DEF j
  <2> QED BY <1>1, <2>2, <2>3, <2>5
<1>3. CASE ~redis
  <2>1. job' = [job EXCEPT ![t] = Stalled(t)]
    BY <1>3 DEF FailJob
  <2>2. /\ JobOK(t, Stalled(t)) /\ Stalled(t) \in Job
        /\ Stalled(t).st \in {"waiting", "failed"} /\ ~Stalled(t).did
    BY <1>1, StalledParts DEF JobOK
  <2> QED BY <1>1, <2>1, <2>2
<1> QED BY <1>2, <1>3

LEMMA FinishSteps ==
    ASSUME TypeInv, NEW t \in Tasks, FinishJob(t)
    PROVE  /\ job[t].st = "active" /\ job[t].did
           /\ \/ /\ t = Sweep /\ job[t].at < Len(dlvMix.due)
                 /\ job' = [job EXCEPT ![t] = [job[t] EXCEPT !.at = @ + 1, !.did = FALSE]]
                 /\ JobOK(t, [job[t] EXCEPT !.at = @ + 1, !.did = FALSE])
              \/ /\ t # Sweep \/ job[t].at = Len(dlvMix.due)
                 /\ job' = [job EXCEPT ![t] = [job[t] EXCEPT !.st = "done"]]
                 /\ JobOK(t, [job[t] EXCEPT !.st = "done"])
<1>1. job \in [Tasks -> Job] /\ JobOK(t, job[t]) /\ job[t].st = "active" /\ job[t].did
  BY DEF TypeInv, DeliveryTypeOK, FinishJob
<1>2. CASE /\ t = Sweep /\ job[t].at < Len(dlvMix.due)
           /\ job' = [job EXCEPT ![t].at = @ + 1, ![t].did = FALSE]
  <2>1. job' = [job EXCEPT ![t] = [job[t] EXCEPT !.at = @ + 1, !.did = FALSE]]
    BY <1>1, <1>2
  <2>2. [job[t] EXCEPT !.at = @ + 1, !.did = FALSE] \in Job
    <3>1. job[t] \in Job /\ job[t].at + 1 \in Nat
      BY <1>1 DEF Job
    <3> QED BY <3>1 DEF Job
  <2>3. Len(dlvMix.due) \in Nat
    BY MixType, LenProperties DEF TypeInv, DeliveryTypeOK
  <2>4. job[t].at + 1 \in 1..Len(dlvMix.due)
    BY <1>1, <1>2, <2>3 DEF JobOK, Job
  <2>5. JobOK(t, [job[t] EXCEPT !.at = @ + 1, !.did = FALSE])
    BY <1>1, <2>2, <2>4 DEF JobOK, Job
  <2> QED BY <1>1, <1>2, <2>1, <2>5
<1>3. CASE /\ t # Sweep \/ job[t].at = Len(dlvMix.due)
           /\ job' = [job EXCEPT ![t].st = "done"]
  <2>1. job' = [job EXCEPT ![t] = [job[t] EXCEPT !.st = "done"]]
    BY <1>1, <1>3
  <2>2. [job[t] EXCEPT !.st = "done"] \in Job
    BY <1>1 DEF Job
  <2>3. JobOK(t, [job[t] EXCEPT !.st = "done"])
    BY <1>1, <2>2 DEF JobOK, Job
  <2> QED BY <1>1, <1>3, <2>1, <2>3
<1> QED BY <1>2, <1>3 DEF FinishJob

LEMMA WorkType ==
    ASSUME TypeInv, NEW t \in Tasks, Work(t) \/ Stall(t)
    PROVE  TypeInv'
<1>0. dlvMix' = dlvMix /\ job[t].st \in {"waiting", "active"}
  BY DEF Work, TakeJob, RunJob, FailJob, FinishJob, Stall
<1>1. CASE TakeJob(t)
  <2>1. job' \in [Tasks -> Job] /\ \A x \in Tasks : JobOK(x, job[x])'
    BY <1>0, <1>1, TakeSteps, JobSet
  <2> QED BY <1>1, <2>1, Kept, TogetherUp DEF TakeJob, stores, NoTrouble, processes
<1>2. CASE RunJob(t)
  <2>1. job' \in [Tasks -> Job] /\ \A x \in Tasks : JobOK(x, job[x])'
    BY <1>0, <1>2, RunSteps, JobSet
  <2>2. inbox' \in [Drafts -> [Users -> Nat]]
    BY <1>2, CurrentType, StoreType, Kept DEF RunJob
  <2>3. audit' \in [Changes -> Nat]
    BY <1>2, TaskKinds DEF RunJob, TypeInv, DeliveryTypeOK
  <2> QED BY <1>2, <2>1, <2>2, <2>3, Kept, TogetherUp DEF RunJob, NoTrouble, processes
<1>3. CASE FailJob(t)
  <2>1. job' \in [Tasks -> Job] /\ \A x \in Tasks : JobOK(x, job[x])'
    BY <1>0, <1>3, FailSteps, JobSet
  <2>2. inbox' \in [Drafts -> [Users -> Nat]]
    BY <1>3, CurrentType, StoreType, Kept DEF FailJob
  <2>3. trouble' \in [Drafts -> Nat] /\ mishaps' \in Nat
    <3>1. CASE trouble' = [d \in Drafts |-> trouble[d] + IF d \in DraftsOf(t) THEN 1 ELSE 0]
               /\ mishaps' = mishaps
      BY <3>1 DEF TypeInv, DeliveryTypeOK
    <3> QED BY <1>3, <3>1, StrikesType DEF FailJob
  <2> QED BY <1>3, <2>1, <2>2, <2>3, Kept, TogetherUp DEF FailJob, processes
<1>4. CASE FinishJob(t)
  <2>1. job' \in [Tasks -> Job] /\ \A x \in Tasks : JobOK(x, job[x])'
    BY <1>0, <1>4, FinishSteps, JobSet
  <2>2. heard' \in [Drafts -> [Users -> Nat]]
    BY <1>4, CurrentType, EmitType, Kept DEF FinishJob
  <2> QED BY <1>4, <2>1, <2>2, Kept, TogetherUp DEF FinishJob, NoTrouble, processes
<1>5. CASE Stall(t)
  <2>1. job' \in [Tasks -> Job] /\ \A x \in Tasks : JobOK(x, job[x])'
    BY <1>0, <1>5, StalledParts, JobSet DEF Stall
  <2>2. trouble' \in [Drafts -> Nat] /\ mishaps' \in Nat
    BY <1>5, StrikesType DEF Stall
  <2> QED BY <1>5, <2>1, <2>2, Kept, TogetherUp DEF Stall, stores, processes
<1> QED BY <1>1, <1>2, <1>3, <1>4, <1>5 DEF Work

LEMMA ScheduleSteps ==
    ASSUME TypeInv, ScheduleSweep
    PROVE  /\ Sweep \in Tasks /\ job[Sweep].st = "none"
           /\ job' = [job EXCEPT ![Sweep] = [job[Sweep] EXCEPT !.st = "waiting"]]
           /\ JobOK(Sweep, [job[Sweep] EXCEPT !.st = "waiting"])
<1>1. Sweep \in Tasks
  BY DEF Tasks
<1>2. job \in [Tasks -> Job] /\ JobOK(Sweep, job[Sweep]) /\ job[Sweep].st = "none"
  BY <1>1 DEF TypeInv, DeliveryTypeOK, ScheduleSweep
<1>3. job' = [job EXCEPT ![Sweep] = [job[Sweep] EXCEPT !.st = "waiting"]]
  BY <1>1, <1>2 DEF ScheduleSweep
<1>4. [job[Sweep] EXCEPT !.st = "waiting"] \in Job
  BY <1>1, <1>2 DEF Job
<1> QED BY <1>1, <1>2, <1>3, <1>4 DEF JobOK, Job, ScheduleSweep

(* What the end of a process does to a request and to a job.               *)
LEMMA EndedSteps ==
    ASSUME TypeInv, NEW p \in {"api", "worker"}, Ended(p)
    PROVE  /\ \A q \in Changes :
                 \/ change'[q] = change[q]
                 \/ /\ Serving(q) /\ p = "api"
                    /\ change'[q] = [change[q] EXCEPT !.step = "over",
                                        !.answer = IF @ = "none" THEN "lost" ELSE @]
           /\ \A t \in Tasks :
                 \/ job'[t] = job[t]
                 \/ job[t].st = "active" /\ p = WorkerProcess /\ job'[t] = Stalled(t)
           /\ \A d \in Drafts :
                 /\ trouble'[d] \in {trouble[d], trouble[d] + 1}
                 /\ d \in Changes /\ change'[d] # change[d] => trouble'[d] = trouble[d] + 1
                 /\ \A t \in Tasks : job'[t] # job[t] /\ d \in DraftsOf(t)
                                          => trouble'[d] = trouble[d] + 1
           /\ change' \in [Changes -> Handler]
           /\ job' \in [Tasks -> Job]
           /\ trouble' \in [Drafts -> Nat] /\ mishaps' \in Nat
           /\ UNCHANGED <<redis, consumers, shape, stores, stranded, dlvMix>>
<1> DEFINE jobs == IF p = WorkerProcess THEN {t \in Tasks : job[t].st = "active"} ELSE {}
           struck == UNION {DraftsOf(t) : t \in jobs}
           cut == {q \in Changes : p = "api" /\ Serving(q)}
           hit == struck \cup cut
<1>1. /\ Strikes("crash", hit)
      /\ change' = [q \in Changes |->
                      IF p = "api" /\ Serving(q)
                      THEN [change[q] EXCEPT !.step = "over",
                                             !.answer = IF @ = "none" THEN "lost" ELSE @]
                      ELSE change[q]]
      /\ job' = [t \in Tasks |-> IF t \in jobs THEN Stalled(t) ELSE job[t]]
      /\ UNCHANGED <<redis, consumers, shape, stores, stranded, dlvMix>>
  BY Zenon DEF Ended
<1>s. Strikes("crash", hit)
  BY <1>1
<1>2. \A d \in Drafts : trouble'[d] = trouble[d] + IF d \in hit THEN 1 ELSE 0
  <2> HIDE DEF hit
  <2> QED BY <1>s, StrikesType
<1>3. trouble' \in [Drafts -> Nat] /\ mishaps' \in Nat /\ trouble \in [Drafts -> Nat]
  <2> HIDE DEF hit
  <2> QED BY <1>s, StrikesType DEF TypeInv, DeliveryTypeOK
<1>4. \A q \in Changes : change'[q] # change[q] => q \in hit
  <2>1. \A q \in Changes : ~(p = "api" /\ Serving(q)) => change'[q] = change[q]
    BY <1>1
  <2> SUFFICES ASSUME NEW q \in Changes, change'[q] # change[q] PROVE q \in hit
    OBVIOUS
  <2>2. p = "api" /\ Serving(q)
    BY <2>1
  <2>3. q \in cut
    BY <2>2
  <2> HIDE DEF struck, cut
  <2> QED BY <2>3
<1>5. \A t \in Tasks, d \in Drafts : job'[t] # job[t] /\ d \in DraftsOf(t) => d \in hit
  BY <1>1
<1>6. change' \in [Changes -> Handler]
  <2>1. \A q \in Changes : [change[q] EXCEPT !.step = "over",
                                 !.answer = IF @ = "none" THEN "lost" ELSE @] \in Handler
    <3>1. \A q \in Changes : change[q] \in Handler
      BY DEF TypeInv, DeliveryTypeOK
    <3> QED BY <3>1 DEF Handler, ChangeSteps
  <2>2. \A q \in Changes : change[q] \in Handler
    BY DEF TypeInv, DeliveryTypeOK
  <2> QED BY <1>1, <2>1, <2>2
<1>7. job' \in [Tasks -> Job]
  <2>1. \A t \in jobs : t \in Tasks /\ job[t].st = "active"
    OBVIOUS
  <2>2. \A t \in jobs : Stalled(t) \in Job
    BY <2>1, StalledParts DEF JobOK
  <2>3. \A t \in Tasks : job[t] \in Job
    BY DEF TypeInv, DeliveryTypeOK
  <2> QED BY <1>1, <2>2, <2>3
<1>8. \A t \in Tasks :
        \/ job'[t] = job[t]
        \/ job[t].st = "active" /\ p = WorkerProcess /\ job'[t] = Stalled(t)
  BY <1>1
<1>9. \A q \in Changes :
        \/ change'[q] = change[q]
        \/ /\ Serving(q) /\ p = "api"
           /\ change'[q] = [change[q] EXCEPT !.step = "over",
                               !.answer = IF @ = "none" THEN "lost" ELSE @]
  BY <1>1
<1> HIDE DEF hit, struck, cut, jobs
<1>10. \A d \in Drafts : /\ trouble'[d] \in {trouble[d], trouble[d] + 1}
                         /\ d \in hit => trouble'[d] = trouble[d] + 1
  BY <1>2, <1>3
<1> QED BY <1>1, <1>3, <1>4, <1>5, <1>6, <1>7, <1>8, <1>9, <1>10

LEMMA NextType ==
    ASSUME TypeInv, [DeliveryNext]_dlvVars
    PROVE  TypeInv'
<1>0. /\ redis \in BOOLEAN /\ up \in [{"api", "worker"} -> BOOLEAN]
      /\ working \in BOOLEAN /\ consumers \in BOOLEAN
      /\ stranded \subseteq Tasks /\ dlvMix.split \in BOOLEAN
  BY MixType DEF TypeInv, DeliveryTypeOK
<1>r. Runs
  BY DEF TypeInv
<1>1. CASE \E q \in Changes : Handling(q)
  BY <1>1, HandlingType
<1>2. CASE \E t \in Tasks : Work(t) \/ Stall(t)
  BY <1>2, WorkType
<1>3. CASE ScheduleSweep
  <2>1. dlvMix' = dlvMix
    BY <1>3 DEF ScheduleSweep
  <2>2. job' \in [Tasks -> Job] /\ \A x \in Tasks : JobOK(x, job[x])'
    BY <1>3, <2>1, ScheduleSteps, JobSet
  <2> QED BY <1>3, <2>2, Kept, TogetherUp DEF ScheduleSweep, stores, NoTrouble, processes
<1>4. CASE RedisDown
  <2>1. trouble' \in [Drafts -> Nat] /\ mishaps' \in Nat
    BY <1>4, StrikesType DEF RedisDown
  <2>2. Runs'
    BY <1>r, <1>4 DEF RedisDown, WorkerProcess, Runs
  <2>3. redis' \in BOOLEAN
    BY <1>4 DEF RedisDown
  <2> QED BY <1>0, <1>4, <2>1, <2>2, <2>3, Kept, JobsSame, Together DEF RedisDown, stores
<1>5. CASE RedisUp
  <2>2. Runs'
    BY <1>r, <1>5 DEF RedisUp, WorkerProcess, Runs
  <2>3. redis' \in BOOLEAN
    BY <1>5 DEF RedisUp
  <2> QED BY <1>0, <1>5, <2>2, <2>3, Kept, JobsSame, Together DEF RedisUp, stores, NoTrouble
<1>6. CASE \E p \in {"api", "worker"} : Ended(p)
  <2>1. PICK p \in {"api", "worker"} : Ended(p)
    BY <1>6
  <2>2. up' = [up EXCEPT ![p] = FALSE] /\ working' = (working /\ p # WorkerProcess)
    BY <2>1 DEF Ended
  <2>3. dlvMix' = dlvMix
    BY <2>1, EndedSteps
  <2>4. up' \in [{"api", "worker"} -> BOOLEAN] /\ working' \in BOOLEAN
    BY <1>0, <2>2
  <2>7. Runs'
    BY <1>r, <1>0, <2>2, <2>3 DEF WorkerProcess, Runs
  <2>5. \A x \in Tasks : JobOK(x, job'[x])
    <3>1. \A x \in Tasks : JobOK(x, job[x])
      BY DEF TypeInv
    <3>2. \A x \in Tasks : job[x].st = "active" => JobOK(x, Stalled(x))
      BY StalledParts
    <3> QED BY <2>1, <3>1, <3>2, EndedSteps
  <2>6. \A x \in Tasks : JobOK(x, job[x])'
    BY <2>3, <2>5 DEF JobOK
  <2> QED BY <1>0, <2>1, <2>4, <2>6, <2>7, EndedSteps, Kept, Together DEF stores
<1>7. CASE BootApi
  <2>1. /\ up' \in [{"api", "worker"} -> BOOLEAN] /\ working' \in BOOLEAN
        /\ consumers' \in BOOLEAN
    BY <1>0, <1>7 DEF BootApi
  <2>3. Runs'
    BY <1>r, <1>0, <1>7 DEF BootApi, WorkerProcess, Runs
  <2>2. stranded' \subseteq Tasks
    BY <1>7 DEF BootApi
  <2> QED BY <1>0, <1>7, <2>1, <2>2, <2>3, Kept, JobsSame, Together DEF BootApi, stores, NoTrouble
<1>8. CASE BootWorker
  <2>1. up' \in [{"api", "worker"} -> BOOLEAN] /\ working' \in BOOLEAN
    BY <1>0, <1>8 DEF BootWorker
  <2>2. Runs'
    BY <1>r, <1>0, <1>8 DEF BootWorker, WorkerProcess, Runs
  <2> QED BY <1>0, <1>8, <2>1, <2>2, Kept, JobsSame, Together DEF BootWorker, stores, NoTrouble
<1>9. CASE UNCHANGED dlvVars
  BY <1>9, Kept, JobsSame, TogetherUp DEF dlvVars, stores, processes
<1> QED BY <1>1, <1>2, <1>3, <1>4, <1>5, <1>6, <1>7, <1>8, <1>9 DEF DeliveryNext, Work

LEMMA TypeInvariant == DeliverySpec => []TypeInv
  BY InitType, NextType, PTL DEF DeliverySpec

(* What Delivery keeps has its type, whatever faults strike: an attempt is *)
(* left to every job that is not over, and no job stalls a third time.     *)
THEOREM DeliveryTypes == DeliverySpec => []DeliveryTypeOK
<1>1. TypeInv => DeliveryTypeOK
  BY DEF TypeInv
<1> QED BY <1>1, TypeInvariant, PTL

-----------------------------------------------------------------------------
(* What is kept of one change.  Its parts speak of the values that belong  *)
(* to it: aud is its audience, c its handler, n and a its two jobs, in, he *)
(* and au what is stored, heard and recorded for it, tr its faults.        *)

Early == {"new", "write", "notify", "deliver"}
Answering == {"emit", "answer", "record", "persist"}
Live(j) == j.st \in {"waiting", "active"}

(* A job that has yet to store something.                                  *)
Pending(j) == j.st = "waiting" \/ (j.st = "active" /\ ~j.did)

Over(j) == j.st \in {"done", "failed"}

Answered(c) ==
    /\ c.step \in Early \cup {"emit", "answer"} => c.answer = "none"
    /\ c.step \in {"record", "persist"} => c.answer = "ok"

(* What the request and the job may still store is counted as stored.      *)
Once(aud, c, n, in, tr) ==
    \A u \in Users :
        /\ in[u] + (IF c.step \in Early THEN 1 ELSE 0) + (IF Pending(n) THEN 1 ELSE 0) <= 1 + tr
        /\ u \notin aud => in[u] = 0

Noted(c, a, au, tr) ==
    /\ au + (IF c.step # "over" THEN 1 ELSE 0) + (IF Pending(a) THEN 1 ELSE 0) <= 1 + tr
    /\ c.answer # "ok" => au = 0 /\ a.st = "none"

Told(aud, throws, n, in, tr) ==
    (\A u \in aud : in[u] >= 1) \/ Live(n) \/ (Over(n) /\ (throws \/ tr > 0))

Reached(aud, throws, c, n, in, tr) ==
    /\ n.did => \A u \in aud : in[u] >= 1
    /\ c.step \in Answering \/ c.answer = "ok" => Told(aud, throws, n, in, tr)

Recorded(c, a, au, tr) ==
    /\ a.did => au >= 1
    /\ c.step = "over" /\ c.answer = "ok" => au >= 1 \/ tr > 0 \/ Live(a)

Sent(split, aud, c, n, in, he, tr) ==
    ~split /\ tr = 0 =>
        /\ c.step \in Early \cup {"emit"} => n.st = "none"
        /\ \A u \in Users :
              in[u] = he[u] + IF u \in aud /\ (c.step = "emit" \/ (n.st = "active" /\ n.did))
                              THEN 1 ELSE 0

ChangeOK(split, aud, throws, c, n, a, in, he, au, tr) ==
    /\ Answered(c)
    /\ Once(aud, c, n, in, tr)
    /\ Noted(c, a, au, tr)
    /\ Reached(aud, throws, c, n, in, tr)
    /\ Recorded(c, a, au, tr)
    /\ Sent(split, aud, c, n, in, he, tr)

ChangeInv(q) ==
    ChangeOK(dlvMix.split, Audience(q), Throws(q), change[q], job[<<"notice", q>>],
             job[<<"audit", q>>], inbox[q], heard[q], audit[q], trouble[q])

(* A due card the sweep has still to store for.                            *)
Ahead(d) ==
    \E i \in DOMAIN dlvMix.due :
        /\ dlvMix.due[i] = d
        /\ \/ job[Sweep].st \in {"none", "waiting"}
           \/ job[Sweep].st = "active" /\ (job[Sweep].at < i \/ (job[Sweep].at = i /\ ~job[Sweep].did))

DueInv(d) ==
    \A u \in Users :
        /\ inbox[d][u] + (IF Ahead(d) THEN 1 ELSE 0) <= 1 + trouble[d]
        /\ u \notin Audience(d) => inbox[d][u] = 0

Inv ==
    /\ TypeInv
    /\ \A q \in Changes : ChangeInv(q)
    /\ \A d \in DueCards : DueInv(d)

LEMMA ChangeValues ==
    ASSUME TypeInv, NEW q \in Changes
    PROVE  /\ q \in Drafts /\ change[q] \in Handler
           /\ job[<<"notice", q>>] \in Job /\ job[<<"audit", q>>] \in Job
           /\ inbox[q] \in [Users -> Nat] /\ heard[q] \in [Users -> Nat]
           /\ audit[q] \in Nat /\ trouble[q] \in Nat
           /\ Audience(q) \subseteq Users /\ dlvMix.split \in BOOLEAN
<1>1. q \in Drafts
  BY DEF Drafts
<1>2. shape[q] \in Shape
  BY <1>1 DEF TypeInv, DeliveryTypeOK
<1>3. Audience(q) \subseteq Users
  BY <1>2 DEF Audience, Shape
<1> QED BY <1>1, <1>3, TasksOf, MixType DEF TypeInv, DeliveryTypeOK

(* The invariant of a change, from the values it has after a step.         *)
LEMMA Primed ==
    ASSUME NEW q \in Changes, shape' = shape, dlvMix' = dlvMix,
           ChangeOK(dlvMix.split, Audience(q), Throws(q), change'[q], job'[<<"notice", q>>],
                    job'[<<"audit", q>>], inbox'[q], heard'[q], audit'[q], trouble'[q])
    PROVE  ChangeInv(q)'
<1>1. Audience(q)' = Audience(q)
  BY DEF Audience
<1>2. Throws(q)' = Throws(q)
  BY <1>1 DEF Throws
<1> QED BY <1>1, <1>2 DEF ChangeInv

(* A step that leaves all of a change's values alone.                      *)
LEMMA Untouched ==
    ASSUME NEW q \in Changes, ChangeInv(q), shape' = shape, dlvMix' = dlvMix,
           change'[q] = change[q], job'[<<"notice", q>>] = job[<<"notice", q>>],
           job'[<<"audit", q>>] = job[<<"audit", q>>], inbox'[q] = inbox[q],
           heard'[q] = heard[q], audit'[q] = audit[q], trouble'[q] = trouble[q]
    PROVE  ChangeInv(q)'
  BY Primed DEF ChangeInv

LEMMA StartKeeps ==
    ASSUME TypeInv, NEW q \in Changes, ChangeInv(q), StartChange(q) \/ Commit(q)
    PROVE  ChangeInv(q)'
<1>1. change[q] \in Handler /\ change \in [Changes -> Handler]
  BY ChangeValues DEF TypeInv, DeliveryTypeOK
<1>2. /\ change[q].step \in {"new", "write"} /\ change'[q].step \in Early \cup {"over"}
      /\ change'[q].answer = IF change'[q].step = "over" THEN "error" ELSE "none"
  <2>1. CASE StartChange(q)
    <3>1. change[q].step = "new" /\ change[q].answer = "none"
      BY <2>1 DEF StartChange, Early, ChangeInv, ChangeOK, Answered
    <3>2. change'[q].step = "write" /\ change'[q].answer = change[q].answer
      BY <1>1, <2>1 DEF StartChange, ChangeGo
    <3> QED BY <3>1, <3>2 DEF Early
  <2>2. CASE Commit(q)
    BY <1>1, <2>2 DEF Commit, Early
  <2> QED BY <2>1, <2>2
<1>3. /\ shape' = shape /\ dlvMix' = dlvMix /\ job' = job /\ inbox' = inbox /\ heard' = heard
      /\ audit' = audit /\ trouble' = trouble
  BY DEF StartChange, Commit, stores, NoTrouble
<1>4. Answered(change'[q])
  BY <1>2 DEF Answered, Early
<1>5. Once(Audience(q), change'[q], job[<<"notice", q>>], inbox[q], trouble[q])
  BY <1>2, ChangeValues DEF Once, ChangeInv, ChangeOK, Early
<1>6. Noted(change'[q], job[<<"audit", q>>], audit[q], trouble[q])
  BY <1>2, ChangeValues DEF Noted, ChangeInv, ChangeOK, Answered, Early
<1>7. Reached(Audience(q), Throws(q), change'[q], job[<<"notice", q>>], inbox[q], trouble[q])
  BY <1>2, ChangeValues DEF Reached, ChangeInv, ChangeOK, Answered, Early, Answering
<1>8. Recorded(change'[q], job[<<"audit", q>>], audit[q], trouble[q])
  BY <1>2, ChangeValues DEF Recorded, ChangeInv, ChangeOK, Answered, Early
<1>9. Sent(dlvMix.split, Audience(q), change'[q], job[<<"notice", q>>], inbox[q], heard[q], trouble[q])
  BY <1>2, ChangeValues DEF Sent, ChangeInv, ChangeOK, Answered, Early
<1> QED BY <1>3, <1>4, <1>5, <1>6, <1>7, <1>8, <1>9, Primed DEF ChangeOK

LEMMA NotifyKeeps ==
    ASSUME TypeInv, NEW q \in Changes, ChangeInv(q), Notify(q)
    PROVE  ChangeInv(q)'
<1> DEFINE nt == <<"notice", q>>
<1> DEFINE fresh == [NoJob EXCEPT !.st = "waiting"]
<1>1. /\ shape' = shape /\ dlvMix' = dlvMix /\ inbox' = inbox /\ heard' = heard
      /\ audit' = audit /\ Enqueue(q, "notice", "answer", "deliver") /\ "notice" \in Kinds
  BY DEF Notify, stores, Kinds
<1>2. change[q].step = "notify" /\ change[q].answer = "none"
  BY DEF Notify, ChangeInv, ChangeOK, Answered, Early
<1>3. \/ /\ change' = [change EXCEPT ![q].step = "answer"] /\ trouble'[q] = trouble[q]
         /\ job' = [job EXCEPT ![nt] = fresh]
      \/ /\ change' = [change EXCEPT ![q].step = "deliver"] /\ trouble'[q] = trouble[q] + 1
         /\ job' = [job EXCEPT ![nt] = fresh]
      \/ /\ change' = [change EXCEPT ![q].step = "deliver"] /\ trouble'[q] = trouble[q]
         /\ job' = job
  <2>1. Strikes("add", {q}) => trouble'[q] = trouble[q] + 1
    <3>1. q \in Drafts
      BY ChangeValues
    <3> QED BY <3>1, StrikesType
  <2>2. \/ /\ job' = [job EXCEPT ![nt] = fresh]
           /\ ChangeGo(q, "answer") /\ NoTrouble
        \/ /\ job' = [job EXCEPT ![nt] = fresh]
           /\ ChangeGo(q, "deliver") /\ Strikes("add", {q})
        \/ /\ job' = job
           /\ ChangeGo(q, "deliver") /\ NoTrouble
    BY <1>1, EnqueueSteps
  <2> HIDE DEF nt, fresh
  <2> QED BY <2>1, <2>2 DEF ChangeGo, NoTrouble
<1>4. /\ nt \in Tasks /\ nt # <<"audit", q>> /\ job \in [Tasks -> Job]
      /\ change \in [Changes -> Handler]
  BY TasksOf DEF TypeInv, DeliveryTypeOK
<1>5. fresh.st = "waiting" /\ ~fresh.did
  BY JobTypes
<1> HIDE DEF fresh
<1>6. /\ job'[<<"audit", q>>] = job[<<"audit", q>>] /\ change'[q].answer = "none"
      /\ \/ /\ change'[q].step = "answer" /\ trouble'[q] = trouble[q]
            /\ job'[nt].st = "waiting" /\ ~job'[nt].did
         \/ /\ change'[q].step = "deliver" /\ trouble'[q] = trouble[q] + 1
            /\ job'[nt].st = "waiting" /\ ~job'[nt].did
         \/ /\ change'[q].step = "deliver" /\ trouble'[q] = trouble[q]
            /\ job'[nt] = job[nt]
  <2> HIDE DEF nt
  <2>1. ASSUME NEW step \in ChangeSteps, change' = [change EXCEPT ![q].step = step]
        PROVE  change'[q].step = step /\ change'[q].answer = "none"
    BY <1>2, <1>4, <2>1 DEF Handler
  <2>2. ASSUME job' = [job EXCEPT ![nt] = fresh]
        PROVE  /\ job'[<<"audit", q>>] = job[<<"audit", q>>]
               /\ job'[nt].st = "waiting" /\ ~job'[nt].did
    BY <1>4, <1>5, <2>2, TasksOf
  <2>3. "answer" \in ChangeSteps /\ "deliver" \in ChangeSteps
    BY DEF ChangeSteps
  <2> QED BY <1>3, <2>1, <2>2, <2>3
<1> HIDE DEF nt
<1>n. nt = <<"notice", q>>
  BY DEF nt
<1>7. Answered(change'[q])
  BY <1>6 DEF Answered, Early
<1>8. Once(Audience(q), change'[q], job'[nt], inbox[q], trouble'[q])
  BY <1>2, <1>6, <1>n, ChangeValues DEF Once, ChangeInv, ChangeOK, Early, Pending
<1>9. Noted(change'[q], job[<<"audit", q>>], audit[q], trouble'[q])
  BY <1>2, <1>6, ChangeValues, SMTT(60) DEF Noted, ChangeInv, ChangeOK
<1>10. Reached(Audience(q), Throws(q), change'[q], job'[nt], inbox[q], trouble'[q])
  BY <1>2, <1>6, <1>n, ChangeValues DEF Reached, Told, Live, ChangeInv, ChangeOK, Answering
<1>11. Recorded(change'[q], job[<<"audit", q>>], audit[q], trouble'[q])
  BY <1>6, ChangeValues DEF Recorded, ChangeInv, ChangeOK
<1>12. Sent(dlvMix.split, Audience(q), change'[q], job'[nt], inbox[q], heard[q], trouble'[q])
  BY <1>2, <1>6, <1>n, ChangeValues DEF Sent, ChangeInv, ChangeOK, Early
<1> QED BY <1>1, <1>6, <1>n, <1>7, <1>8, <1>9, <1>10, <1>11, <1>12, Primed DEF ChangeOK

LEMMA DeliverKeeps ==
    ASSUME TypeInv, NEW q \in Changes, ChangeInv(q), DeliverInline(q)
    PROVE  ChangeInv(q)'
<1>1. /\ shape' = shape /\ dlvMix' = dlvMix /\ job' = job /\ heard' = heard /\ audit' = audit
  BY DEF DeliverInline
<1>2. change[q].step = "deliver" /\ change[q].answer = "none"
  BY DEF DeliverInline, ChangeInv, ChangeOK, Answered, Early
<1>3. change \in [Changes -> Handler] /\ q \in Drafts
  BY ChangeValues DEF TypeInv, DeliveryTypeOK
<1>4. \A u \in Users : /\ inbox[q][u] \in Nat /\ inbox'[q][u] \in Nat
                       /\ inbox[q][u] <= inbox'[q][u] /\ inbox'[q][u] <= inbox[q][u] + 1
                       /\ u \notin Audience(q) => inbox'[q][u] = inbox[q][u]
  <2>1. inbox' = inbox \/ Store(q) \/ StorePart(q)
    BY DEF DeliverInline
  <2>2. inbox[q] \in [Users -> Nat] /\ inbox'[q] \in [Users -> Nat]
    BY <1>3, <2>1, StoreType, ChangeValues
  <2> QED BY <1>3, <2>1, <2>2, StoreType
<1>5. \/ /\ change'[q].step = "emit" /\ change'[q].answer = "none" /\ trouble'[q] = trouble[q]
         /\ \A u \in Audience(q) : inbox'[q][u] = inbox[q][u] + 1
      \/ /\ change'[q].step = "over" /\ change'[q].answer = "error"
         /\ \/ inbox' = inbox /\ trouble'[q] = trouble[q]
            \/ trouble'[q] = trouble[q] + 1
  <2>1. CASE Store(q) /\ ChangeGo(q, "emit") /\ NoTrouble
    <3>1. change'[q].step = "emit" /\ change'[q].answer = change[q].answer
      BY <1>3, <2>1 DEF ChangeGo
    <3>2. \A u \in Audience(q) : inbox'[q][u] = inbox[q][u] + 1
      BY <1>3, <2>1, StoreType, ChangeValues
    <3> QED BY <1>2, <2>1, <3>1, <3>2 DEF NoTrouble
  <2>2. CASE change' = [change EXCEPT ![q].step = "over", ![q].answer = "error"]
    <3>1. change'[q].step = "over" /\ change'[q].answer = "error"
      BY <1>3, <2>2
    <3>2. (inbox' = inbox /\ trouble' = trouble) \/ Strikes("mongo", {q})
      <4>1. ~ChangeGo(q, "emit")
        <5>1. ChangeGo(q, "emit") => change'[q].step = "emit"
          BY <1>3 DEF ChangeGo
        <5> QED BY <3>1, <5>1
      <4> QED BY <4>1 DEF DeliverInline, NoTrouble
    <3> QED BY <1>3, <3>1, <3>2, StrikesType
  <2> QED BY <2>1, <2>2 DEF DeliverInline
<1>7. Answered(change'[q])
  BY <1>5 DEF Answered, Early
<1>8. Once(Audience(q), change'[q], job[<<"notice", q>>], inbox'[q], trouble'[q])
  BY <1>2, <1>4, <1>5, ChangeValues DEF Once, ChangeInv, ChangeOK, Early
<1>9. Noted(change'[q], job[<<"audit", q>>], audit[q], trouble'[q])
  BY <1>2, <1>5, ChangeValues DEF Noted, ChangeInv, ChangeOK
<1>10. Reached(Audience(q), Throws(q), change'[q], job[<<"notice", q>>], inbox'[q], trouble'[q])
  <2>1. job[<<"notice", q>>].did => \A u \in Audience(q) : inbox'[q][u] >= 1
    BY <1>4, ChangeValues DEF Reached, ChangeInv, ChangeOK
  <2>2. change'[q].step = "emit" => \A u \in Audience(q) : inbox'[q][u] >= 1
    <3> SUFFICES ASSUME change'[q].step = "emit", NEW u \in Audience(q) PROVE inbox'[q][u] >= 1
      OBVIOUS
    <3>1. u \in Users /\ inbox'[q][u] = inbox[q][u] + 1
      BY <1>5, ChangeValues
    <3> QED BY <1>4, <3>1
  <2> QED BY <1>5, <2>1, <2>2 DEF Reached, Told, Answering
<1>11. Recorded(change'[q], job[<<"audit", q>>], audit[q], trouble'[q])
  BY <1>5, ChangeValues DEF Recorded, ChangeInv, ChangeOK
<1>12. Sent(dlvMix.split, Audience(q), change'[q], job[<<"notice", q>>], inbox'[q], heard[q], trouble'[q])
  BY <1>2, <1>4, <1>5, ChangeValues DEF Sent, ChangeInv, ChangeOK, Early
<1> QED BY <1>1, <1>7, <1>8, <1>9, <1>10, <1>11, <1>12, Primed DEF ChangeOK

LEMMA AnswerKeeps ==
    ASSUME TypeInv, NEW q \in Changes, ChangeInv(q), EmitInline(q) \/ AnswerChange(q)
    PROVE  ChangeInv(q)'
<1>1. /\ shape' = shape /\ dlvMix' = dlvMix /\ job' = job /\ inbox' = inbox /\ audit' = audit
      /\ trouble' = trouble
  BY DEF EmitInline, AnswerChange, stores, NoTrouble
<1>2. change[q].answer = "none"
  BY DEF EmitInline, AnswerChange, ChangeInv, ChangeOK, Answered
<1>3. change \in [Changes -> Handler] /\ q \in Drafts
  BY ChangeValues DEF TypeInv, DeliveryTypeOK
<1>4. \/ /\ change[q].step = "emit" /\ change'[q].step = "answer" /\ change'[q].answer = "none"
         /\ \A u \in Users : heard'[q][u] = heard[q][u] + IF u \in Audience(q) THEN 1 ELSE 0
      \/ /\ change[q].step = "answer" /\ change'[q].step = "record" /\ change'[q].answer = "ok"
         /\ heard' = heard
  <2>1. CASE EmitInline(q)
    <3>1. change'[q].step = "answer" /\ change'[q].answer = "none"
      BY <1>2, <1>3, <2>1 DEF EmitInline, ChangeGo, Handler
    <3>2. \A u \in Users : heard'[q][u] = heard[q][u] + IF u \in Audience(q) THEN 1 ELSE 0
      BY <1>3, <2>1, EmitType DEF EmitInline
    <3> QED BY <2>1, <3>1, <3>2 DEF EmitInline
  <2>2. CASE AnswerChange(q)
    BY <1>3, <2>2 DEF AnswerChange, Handler, stores
  <2> QED BY <2>1, <2>2
<1>5. heard'[q] \in [Users -> Nat]
  BY <1>3, EmitType, ChangeValues DEF EmitInline, AnswerChange, stores
<1>7. Answered(change'[q])
  BY <1>4 DEF Answered, Early
<1>8. Once(Audience(q), change'[q], job[<<"notice", q>>], inbox[q], trouble[q])
  BY <1>4, ChangeValues DEF Once, ChangeInv, ChangeOK, Early
<1>9. Noted(change'[q], job[<<"audit", q>>], audit[q], trouble[q])
  BY <1>2, <1>4, ChangeValues DEF Noted, ChangeInv, ChangeOK
<1>10. Reached(Audience(q), Throws(q), change'[q], job[<<"notice", q>>], inbox[q], trouble[q])
  BY <1>4, ChangeValues DEF Reached, ChangeInv, ChangeOK, Answering
<1>11. Recorded(change'[q], job[<<"audit", q>>], audit[q], trouble[q])
  BY <1>4, ChangeValues DEF Recorded, ChangeInv, ChangeOK
<1>12. Sent(dlvMix.split, Audience(q), change'[q], job[<<"notice", q>>], inbox[q], heard'[q], trouble[q])
  BY <1>4, <1>5, ChangeValues DEF Sent, ChangeInv, ChangeOK, Early
<1> QED BY <1>1, <1>7, <1>8, <1>9, <1>10, <1>11, <1>12, Primed DEF ChangeOK

LEMMA RecordKeeps ==
    ASSUME TypeInv, NEW q \in Changes, ChangeInv(q), RecordEntry(q) \/ PersistInline(q)
    PROVE  ChangeInv(q)'
<1> DEFINE at == <<"audit", q>>
<1> DEFINE fresh == [NoJob EXCEPT !.st = "waiting"]
<1>1. /\ shape' = shape /\ dlvMix' = dlvMix /\ inbox' = inbox /\ heard' = heard
  BY DEF RecordEntry, PersistInline, stores
<1>2. change[q].step \in {"record", "persist"} /\ change[q].answer = "ok"
  BY DEF RecordEntry, PersistInline, ChangeInv, ChangeOK, Answered
<1>3. /\ change \in [Changes -> Handler] /\ q \in Drafts /\ job \in [Tasks -> Job]
      /\ at \in Tasks /\ at # <<"notice", q>> /\ audit \in [Changes -> Nat]
  BY ChangeValues, TasksOf DEF TypeInv, DeliveryTypeOK
<1>4. fresh.st = "waiting" /\ ~fresh.did
  BY JobTypes
<1> HIDE DEF fresh
<1>5. \A kind : Strikes(kind, {q}) => trouble'[q] = trouble[q] + 1
  BY <1>3, StrikesType
<1>6. ASSUME NEW step, ChangeGo(q, step)
      PROVE  change'[q].step = step /\ change'[q].answer = "ok"
  BY <1>2, <1>3, <1>6 DEF ChangeGo, Handler
<1>7. /\ change'[q].answer = "ok" /\ job'[<<"notice", q>>] = job[<<"notice", q>>]
      /\ \/ /\ change'[q].step \in {"over", "persist"} /\ job'[at].st = "waiting" /\ ~job'[at].did
            /\ audit'[q] = audit[q]
            /\ \/ change'[q].step = "over" /\ trouble'[q] = trouble[q]
               \/ trouble'[q] = trouble[q] + 1
         \/ /\ change'[q].step = "persist" /\ job'[at] = job[at]
            /\ audit'[q] = audit[q] /\ trouble'[q] = trouble[q]
         \/ /\ change'[q].step = "over" /\ job'[at] = job[at]
            /\ \/ audit'[q] = audit[q] + 1 /\ trouble'[q] = trouble[q]
               \/ audit'[q] = audit[q] /\ trouble'[q] = trouble[q] + 1
  <2>1. CASE RecordEntry(q)
    <3>1. Enqueue(q, "audit", "over", "persist") /\ "audit" \in Kinds /\ audit' = audit
      BY <2>1 DEF RecordEntry, Kinds, stores
    <3>2. \/ /\ job' = [job EXCEPT ![at] = fresh]
             /\ ChangeGo(q, "over") /\ NoTrouble
          \/ /\ job' = [job EXCEPT ![at] = fresh]
             /\ ChangeGo(q, "persist") /\ Strikes("add", {q})
          \/ /\ job' = job
             /\ ChangeGo(q, "persist") /\ NoTrouble
      BY <3>1, EnqueueSteps DEF fresh
    <3> HIDE DEF at
    <3>3. job' = [job EXCEPT ![at] = fresh] =>
            job'[at] = fresh /\ job'[<<"notice", q>>] = job[<<"notice", q>>]
      BY <1>3, TasksOf
    <3> QED BY <1>4, <1>5, <1>6, <3>1, <3>2, <3>3 DEF NoTrouble
  <2>2. CASE PersistInline(q)
    <3>1. ChangeGo(q, "over") /\ job' = job
      BY <2>2 DEF PersistInline
    <3>2. \/ audit' = [audit EXCEPT ![q] = @ + 1] /\ trouble' = trouble
          \/ audit' = audit /\ Strikes("mongo", {q})
      BY <2>2 DEF PersistInline, NoTrouble
    <3> QED BY <1>3, <1>5, <1>6, <3>1, <3>2
  <2> QED BY <2>1, <2>2
<1> HIDE DEF at
<1>n. at = <<"audit", q>>
  BY DEF at
<1>8. Answered(change'[q])
  BY <1>7 DEF Answered, Early
<1>9. Once(Audience(q), change'[q], job[<<"notice", q>>], inbox[q], trouble'[q])
  BY <1>2, <1>7, ChangeValues DEF Once, ChangeInv, ChangeOK, Early
<1>10. Noted(change'[q], job'[at], audit'[q], trouble'[q])
  BY <1>2, <1>7, <1>n, ChangeValues DEF Noted, ChangeInv, ChangeOK, Pending
<1>11. Reached(Audience(q), Throws(q), change'[q], job[<<"notice", q>>], inbox[q], trouble'[q])
  BY <1>2, <1>7, ChangeValues DEF Reached, Told, ChangeInv, ChangeOK
<1>12. Recorded(change'[q], job'[at], audit'[q], trouble'[q])
  BY <1>2, <1>7, <1>n, ChangeValues DEF Recorded, Live, ChangeInv, ChangeOK
<1>13. Sent(dlvMix.split, Audience(q), change'[q], job[<<"notice", q>>], inbox[q], heard[q], trouble'[q])
  BY <1>2, <1>7, ChangeValues DEF Sent, ChangeInv, ChangeOK, Early
<1> QED BY <1>1, <1>7, <1>n, <1>8, <1>9, <1>10, <1>11, <1>12, <1>13, Primed DEF ChangeOK

(* The job that notifies of a change.                                      *)
LEMMA NoticeKeeps ==
    ASSUME TypeInv, NEW q \in Changes, ChangeInv(q), NEW t \in Tasks, t = <<"notice", q>>,
           Work(t) \/ Stall(t)
    PROVE  ChangeInv(q)'
<1>1. /\ shape' = shape /\ dlvMix' = dlvMix /\ change' = change
      /\ t # <<"audit", q>> /\ t # Sweep /\ t[1] # "audit" /\ q \in Drafts
  BY TasksOf, ChangeValues DEF Work, TakeJob, RunJob, FailJob, FinishJob, Stall
<1>2. Current(t) = q /\ DraftsOf(t) = {q}
  BY <1>1, TasksOf DEF Current, DraftsOf
<1>3. job \in [Tasks -> Job] /\ <<"audit", q>> \in Tasks
  BY TasksOf DEF TypeInv, DeliveryTypeOK
<1>4. audit' = audit
  BY <1>1 DEF Work, TakeJob, RunJob, FailJob, FinishJob, Stall, stores
<1>5. \A u \in Users : /\ inbox[q][u] \in Nat /\ inbox'[q][u] \in Nat
                       /\ inbox[q][u] <= inbox'[q][u] /\ inbox'[q][u] <= inbox[q][u] + 1
                       /\ u \notin Audience(q) => inbox'[q][u] = inbox[q][u]
                       /\ heard[q][u] \in Nat /\ heard'[q][u] \in Nat
  <2>1. inbox' = inbox \/ Store(q) \/ StorePart(q)
    BY <1>1, <1>2 DEF Work, TakeJob, RunJob, FailJob, FinishJob, Stall, stores
  <2>2. heard' = heard \/ Emit(q, WorkerProcess)
    BY <1>1, <1>2 DEF Work, TakeJob, RunJob, FailJob, FinishJob, Stall, stores
  <2>3. inbox[q] \in [Users -> Nat] /\ inbox'[q] \in [Users -> Nat]
    BY <1>1, <2>1, StoreType, ChangeValues
  <2>4. heard[q] \in [Users -> Nat] /\ heard'[q] \in [Users -> Nat]
    BY <1>1, <2>2, EmitType, ChangeValues
  <2> QED BY <1>1, <2>1, <2>3, <2>4, StoreType
<1>6. /\ job'[<<"audit", q>>] = job[<<"audit", q>>]
      /\ \/ (* taken *)
            /\ job[t].st = "waiting" /\ job'[t].st = "active" /\ ~job'[t].did
            /\ inbox' = inbox /\ heard' = heard /\ trouble' = trouble
         \/ (* run *)
            /\ job[t].st = "active" /\ ~job[t].did /\ job'[t].st = "active" /\ job'[t].did
            /\ \A u \in Audience(q) : inbox'[q][u] = inbox[q][u] + 1
            /\ heard' = heard /\ trouble' = trouble
         \/ (* finished *)
            /\ job[t].st = "active" /\ job[t].did /\ job'[t].st = "done" /\ job'[t].did
            /\ inbox' = inbox /\ trouble' = trouble
            /\ ~dlvMix.split => \A u \in Users :
                   heard'[q][u] = heard[q][u] + IF u \in Audience(q) THEN 1 ELSE 0
         \/ (* failed or stalled *)
            /\ job[t].st = "active" /\ job'[t].st \in {"waiting", "failed"} /\ ~job'[t].did
            /\ job[t].did => inbox' = inbox
            /\ trouble'[q] = trouble[q] + 1
  <2>1. CASE TakeJob(t)
    <3>1. /\ job'[t].st = "active" /\ ~job'[t].did /\ job[t].st = "waiting"
          /\ job'[<<"audit", q>>] = job[<<"audit", q>>]
      <4>1. /\ job' = [job EXCEPT ![t] = [job[t] EXCEPT !.st = "active", !.at = 1, !.did = FALSE]]
            /\ job[t].st = "waiting" /\ job[t] \in Job
        BY <1>3, <2>1, TakeSteps
      <4> QED BY <1>1, <1>3, <4>1 DEF Job
    <3> QED BY <2>1, <3>1 DEF TakeJob, stores, NoTrouble
  <2>2. CASE RunJob(t)
    <3>1. /\ job'[t].st = "active" /\ job'[t].did /\ job[t].st = "active" /\ ~job[t].did
          /\ job'[<<"audit", q>>] = job[<<"audit", q>>]
      <4>1. /\ job' = [job EXCEPT ![t] = [job[t] EXCEPT !.did = TRUE]]
            /\ job[t].st = "active" /\ ~job[t].did /\ job[t] \in Job
        BY <1>3, <2>2, RunSteps
      <4> QED BY <1>1, <1>3, <4>1 DEF Job
    <3>2. Store(q)
      BY <1>1, <1>2, <2>2 DEF RunJob
    <3>3. \A u \in Audience(q) : inbox'[q][u] = inbox[q][u] + 1
      BY <1>1, <3>2, StoreType, ChangeValues
    <3> QED BY <2>2, <3>1, <3>3 DEF RunJob, NoTrouble
  <2>3. CASE FailJob(t)
    <3>1. PICK j \in Job :
             /\ job' = [job EXCEPT ![t] = j] /\ j.st \in {"waiting", "failed"} /\ ~j.did
             /\ job[t].st = "active" /\ ~job[t].did
      BY <2>3, FailSteps
    <3>2. /\ job'[t].st \in {"waiting", "failed"} /\ ~job'[t].did
          /\ job'[<<"audit", q>>] = job[<<"audit", q>>]
      BY <1>1, <1>3, <3>1 DEF Job
    <3>3. trouble'[q] = trouble[q] + 1
      <4>1. CASE trouble' = [d \in Drafts |-> trouble[d] + IF d \in DraftsOf(t) THEN 1 ELSE 0]
        BY <1>1, <1>2, <4>1
      <4>2. CASE Strikes("mongo", DraftsOf(t))
        BY <1>1, <1>2, <4>2, StrikesType
      <4> QED BY <2>3, <4>1, <4>2 DEF FailJob
    <3> QED BY <3>1, <3>2, <3>3
  <2>4. CASE FinishJob(t)
    <3>1. /\ job[t].st = "active" /\ job[t].did
          /\ job' = [job EXCEPT ![t] = [job[t] EXCEPT !.st = "done"]]
      BY <1>1, <2>4, FinishSteps
    <3>2. /\ job'[t].st = "done" /\ job'[t].did
          /\ job'[<<"audit", q>>] = job[<<"audit", q>>]
      BY <1>1, <1>3, <3>1 DEF Job
    <3>3. ASSUME ~dlvMix.split
          PROVE  \A u \in Users : heard'[q][u] = heard[q][u] + IF u \in Audience(q) THEN 1 ELSE 0
      <4>1. Emit(q, "api")
        BY <1>1, <1>2, <2>4, <3>3 DEF FinishJob, WorkerProcess
      <4> QED BY <1>1, <4>1, EmitType
    <3>4. inbox' = inbox /\ trouble' = trouble
      BY <2>4 DEF FinishJob, NoTrouble
    <3> QED BY <3>1, <3>2, <3>3, <3>4
  <2>5. CASE Stall(t)
    <3>1. /\ job[t].st = "active" /\ job'[t] = Stalled(t)
          /\ job'[<<"audit", q>>] = job[<<"audit", q>>]
      BY <1>1, <1>3, <2>5 DEF Stall
    <3>2. trouble'[q] = trouble[q] + 1
      BY <1>1, <1>2, <2>5, StrikesType DEF Stall
    <3>3. inbox' = inbox
      BY <2>5 DEF Stall, stores
    <3> QED BY <3>1, <3>2, <3>3, StalledParts
  <2> QED BY <2>1, <2>2, <2>3, <2>4, <2>5 DEF Work
<1>7. Answered(change[q])
  BY DEF ChangeInv, ChangeOK
<1>8. Once(Audience(q), change[q], job'[t], inbox'[q], trouble'[q])
  BY <1>5, <1>6, ChangeValues DEF Once, ChangeInv, ChangeOK, Pending
<1>9. Noted(change[q], job[<<"audit", q>>], audit[q], trouble'[q])
  BY <1>6, ChangeValues DEF Noted, ChangeInv, ChangeOK
<1>10. Reached(Audience(q), Throws(q), change[q], job'[t], inbox'[q], trouble'[q])
  <2>1. \A u \in Audience(q) : u \in Users
    BY ChangeValues
  <2>2. job'[t].did => \A u \in Audience(q) : inbox'[q][u] >= 1
    BY <1>5, <1>6, <2>1, ChangeValues DEF Reached, ChangeInv, ChangeOK
  <2>3. trouble[q] \in Nat /\ job'[t].st \in {"waiting", "active", "done", "failed"}
    BY <1>6, ChangeValues
  <2>4. Told(Audience(q), Throws(q), job'[t], inbox'[q], trouble'[q])
    BY <1>6, <2>2, <2>3 DEF Told, Live, Over
  <2> QED BY <2>2, <2>4 DEF Reached
<1>11. Recorded(change[q], job[<<"audit", q>>], audit[q], trouble'[q])
  BY <1>6, ChangeValues DEF Recorded, ChangeInv, ChangeOK
<1>12. Sent(dlvMix.split, Audience(q), change[q], job'[t], inbox'[q], heard'[q], trouble'[q])
  BY <1>5, <1>6, ChangeValues DEF Sent, ChangeInv, ChangeOK, Early
<1> QED BY <1>1, <1>4, <1>6, <1>7, <1>8, <1>9, <1>10, <1>11, <1>12, Primed DEF ChangeOK

(* The job that audits it.                                                 *)
LEMMA EntryKeeps ==
    ASSUME TypeInv, NEW q \in Changes, ChangeInv(q), NEW t \in Tasks, t = <<"audit", q>>,
           Work(t) \/ Stall(t)
    PROVE  ChangeInv(q)'
<1>1. /\ shape' = shape /\ dlvMix' = dlvMix /\ change' = change
      /\ t # <<"notice", q>> /\ t # Sweep /\ t[1] = "audit" /\ t[2] = q /\ q \in Drafts
  BY TasksOf, ChangeValues DEF Work, TakeJob, RunJob, FailJob, FinishJob, Stall
<1>2. DraftsOf(t) = {q}
  BY <1>1 DEF DraftsOf
<1>3. job \in [Tasks -> Job] /\ <<"notice", q>> \in Tasks /\ audit \in [Changes -> Nat]
  BY TasksOf DEF TypeInv, DeliveryTypeOK
<1>4. inbox' = inbox /\ heard' = heard
  BY <1>1 DEF Work, TakeJob, RunJob, FailJob, FinishJob, Stall, stores
<1>5. /\ job'[<<"notice", q>>] = job[<<"notice", q>>]
      /\ \/ (* taken *)
            /\ job[t].st = "waiting" /\ job'[t].st = "active" /\ ~job'[t].did
            /\ audit' = audit /\ trouble' = trouble
         \/ (* run *)
            /\ job[t].st = "active" /\ ~job[t].did /\ job'[t].st = "active" /\ job'[t].did
            /\ audit'[q] = audit[q] + 1 /\ trouble' = trouble
         \/ (* finished *)
            /\ job[t].st = "active" /\ job[t].did /\ job'[t].st = "done" /\ job'[t].did
            /\ audit' = audit /\ trouble' = trouble
         \/ (* failed or stalled *)
            /\ job[t].st = "active" /\ job'[t].st \in {"waiting", "failed"} /\ ~job'[t].did
            /\ audit' = audit /\ trouble'[q] = trouble[q] + 1
  <2>1. CASE TakeJob(t)
    <3>1. /\ job' = [job EXCEPT ![t] = [job[t] EXCEPT !.st = "active", !.at = 1, !.did = FALSE]]
          /\ job[t].st = "waiting" /\ job[t] \in Job
      BY <1>3, <2>1, TakeSteps
    <3>2. /\ job'[t].st = "active" /\ ~job'[t].did
          /\ job'[<<"notice", q>>] = job[<<"notice", q>>]
      BY <1>1, <1>3, <3>1 DEF Job
    <3> QED BY <2>1, <3>1, <3>2 DEF TakeJob, stores, NoTrouble
  <2>2. CASE RunJob(t)
    <3>1. /\ job' = [job EXCEPT ![t] = [job[t] EXCEPT !.did = TRUE]]
          /\ job[t].st = "active" /\ ~job[t].did /\ job[t] \in Job
      BY <1>3, <2>2, RunSteps
    <3>2. /\ job'[t].st = "active" /\ job'[t].did
          /\ job'[<<"notice", q>>] = job[<<"notice", q>>]
      BY <1>1, <1>3, <3>1 DEF Job
    <3>3. audit'[q] = audit[q] + 1
      BY <1>1, <1>3, <2>2 DEF RunJob
    <3> QED BY <2>2, <3>1, <3>2, <3>3 DEF RunJob, NoTrouble
  <2>3. CASE FailJob(t)
    <3>1. PICK j \in Job :
             /\ job' = [job EXCEPT ![t] = j] /\ j.st \in {"waiting", "failed"} /\ ~j.did
             /\ job[t].st = "active" /\ ~job[t].did
      BY <2>3, FailSteps
    <3>2. /\ job'[t].st \in {"waiting", "failed"} /\ ~job'[t].did
          /\ job'[<<"notice", q>>] = job[<<"notice", q>>]
      BY <1>1, <1>3, <3>1 DEF Job
    <3>3. Strikes("mongo", DraftsOf(t)) /\ audit' = audit
      BY <1>1, <2>3 DEF FailJob
    <3>4. trouble'[q] = trouble[q] + 1
      BY <1>1, <1>2, <3>3, StrikesType
    <3> QED BY <3>1, <3>2, <3>3, <3>4
  <2>4. CASE FinishJob(t)
    <3>1. /\ job[t].st = "active" /\ job[t].did
          /\ job' = [job EXCEPT ![t] = [job[t] EXCEPT !.st = "done"]]
      BY <1>1, <2>4, FinishSteps
    <3>2. /\ job'[t].st = "done" /\ job'[t].did
          /\ job'[<<"notice", q>>] = job[<<"notice", q>>]
      BY <1>1, <1>3, <3>1 DEF Job
    <3> QED BY <2>4, <3>1, <3>2 DEF FinishJob, NoTrouble
  <2>5. CASE Stall(t)
    <3>1. /\ job[t].st = "active" /\ job'[t] = Stalled(t)
          /\ job'[<<"notice", q>>] = job[<<"notice", q>>]
      BY <1>1, <1>3, <2>5 DEF Stall
    <3>2. trouble'[q] = trouble[q] + 1
      BY <1>1, <1>2, <2>5, StrikesType DEF Stall
    <3> QED BY <2>5, <3>1, <3>2, StalledParts DEF Stall, stores
  <2> QED BY <2>1, <2>2, <2>3, <2>4, <2>5 DEF Work
<1>7. Answered(change[q])
  BY DEF ChangeInv, ChangeOK
<1>8. Once(Audience(q), change[q], job[<<"notice", q>>], inbox[q], trouble'[q])
  BY <1>5, ChangeValues DEF Once, ChangeInv, ChangeOK
<1>9. Noted(change[q], job'[t], audit'[q], trouble'[q])
  BY <1>5, ChangeValues DEF Noted, ChangeInv, ChangeOK, Pending
<1>10. Reached(Audience(q), Throws(q), change[q], job[<<"notice", q>>], inbox[q], trouble'[q])
  BY <1>5, ChangeValues DEF Reached, Told, ChangeInv, ChangeOK
<1>11. Recorded(change[q], job'[t], audit'[q], trouble'[q])
  BY <1>5, ChangeValues DEF Recorded, Live, ChangeInv, ChangeOK
<1>12. Sent(dlvMix.split, Audience(q), change[q], job[<<"notice", q>>], inbox[q], heard[q], trouble'[q])
  BY <1>5, ChangeValues DEF Sent, ChangeInv, ChangeOK
<1> QED BY <1>1, <1>4, <1>5, <1>7, <1>8, <1>9, <1>10, <1>11, <1>12, Primed DEF ChangeOK

(* A process ends under a request or one of its jobs: a fault.             *)
LEMMA EndedKeeps ==
    ASSUME TypeInv, NEW q \in Changes, ChangeInv(q), NEW p \in {"api", "worker"}, Ended(p)
    PROVE  ChangeInv(q)'
<1> DEFINE nt == <<"notice", q>>
<1> DEFINE at == <<"audit", q>>
<1>1. /\ shape' = shape /\ dlvMix' = dlvMix /\ inbox' = inbox /\ heard' = heard /\ audit' = audit
  BY EndedSteps DEF stores
<1>2. nt \in Tasks /\ at \in Tasks /\ q \in DraftsOf(nt) /\ q \in DraftsOf(at)
  BY TasksOf DEF DraftsOf
<1>3. q \in Drafts /\ change[q] \in Handler
  BY ChangeValues
<1>4. trouble'[q] = trouble[q] + 1
      \/ (trouble'[q] = trouble[q] /\ change'[q] = change[q] /\ job'[nt] = job[nt] /\ job'[at] = job[at])
  BY <1>2, <1>3, EndedSteps
<1>5. \/ change'[q] = change[q]
      \/ /\ change[q].step \notin {"new", "over"} /\ change'[q].step = "over"
         /\ change'[q].answer = IF change[q].answer = "none" THEN "lost" ELSE change[q].answer
  <2>1. [change[q] EXCEPT !.step = "over", !.answer = IF @ = "none" THEN "lost" ELSE @].step = "over"
        /\ [change[q] EXCEPT !.step = "over", !.answer = IF @ = "none" THEN "lost" ELSE @].answer
             = IF change[q].answer = "none" THEN "lost" ELSE change[q].answer
    BY <1>3 DEF Handler
  <2> QED BY <2>1, EndedSteps DEF Serving
<1>6. ASSUME NEW t \in {nt, at}
      PROVE  \/ job'[t] = job[t]
             \/ job[t].st = "active" /\ job'[t].st \in {"waiting", "failed"} /\ ~job'[t].did
  BY <1>2, EndedSteps, StalledParts
<1> HIDE DEF nt, at
<1>n. nt = <<"notice", q>> /\ at = <<"audit", q>>
  BY DEF nt, at
<1>7. CASE trouble'[q] = trouble[q] + 1
  <2>0. trouble'[q] > 0 /\ trouble'[q] # 0
    <3>1. trouble[q] \in Nat
      BY ChangeValues
    <3> QED BY <1>7, <3>1
  <2>1. /\ \/ job'[nt] = job[nt]
           \/ job[nt].st = "active" /\ job'[nt].st \in {"waiting", "failed"} /\ ~job'[nt].did
        /\ \/ job'[at] = job[at]
           \/ job[at].st = "active" /\ job'[at].st \in {"waiting", "failed"} /\ ~job'[at].did
    BY <1>6
  <2>2. Answered(change'[q])
    BY <1>5 DEF Answered, Early, ChangeInv, ChangeOK
  <2>3. Once(Audience(q), change'[q], job'[nt], inbox[q], trouble'[q])
    BY <1>5, <1>7, <1>n, <2>1, ChangeValues DEF Once, ChangeInv, ChangeOK, Early, Pending
  <2>4. Noted(change'[q], job'[at], audit[q], trouble'[q])
    BY <1>5, <1>7, <1>n, <2>1, ChangeValues DEF Noted, ChangeInv, ChangeOK, Pending
  <2>5. Reached(Audience(q), Throws(q), change'[q], job'[nt], inbox[q], trouble'[q])
    <3>1. change'[q].step \in Answering \/ change'[q].answer = "ok" =>
            change[q].step \in Answering \/ change[q].answer = "ok"
      BY <1>5 DEF Answering
    <3>2. Told(Audience(q), Throws(q), job[nt], inbox[q], trouble[q]) =>
            Told(Audience(q), Throws(q), job'[nt], inbox[q], trouble'[q])
      BY <2>0, <2>1 DEF Told, Live, Over
    <3>3. job'[nt].did => \A u \in Audience(q) : inbox[q][u] >= 1
      BY <1>n, <2>1 DEF Reached, ChangeInv, ChangeOK
    <3> QED BY <1>n, <3>1, <3>2, <3>3 DEF Reached, ChangeInv, ChangeOK
  <2>6. Recorded(change'[q], job'[at], audit[q], trouble'[q])
    BY <1>7, <1>n, <2>1, ChangeValues DEF Recorded, ChangeInv, ChangeOK
  <2>7. Sent(dlvMix.split, Audience(q), change'[q], job'[nt], inbox[q], heard[q], trouble'[q])
    BY <2>0 DEF Sent
  <2> QED BY <1>1, <1>n, <2>2, <2>3, <2>4, <2>5, <2>6, <2>7, Primed DEF ChangeOK
<1>8. CASE trouble'[q] = trouble[q] /\ change'[q] = change[q] /\ job'[nt] = job[nt] /\ job'[at] = job[at]
  BY <1>1, <1>8, <1>n, Untouched
<1> QED BY <1>4, <1>7, <1>8

(* A request's step leaves alone what is not its own.                      *)
LEMMA HandlingElsewhere ==
    ASSUME TypeInv, NEW q \in Changes, Handling(q)
    PROVE  /\ shape' = shape /\ dlvMix' = dlvMix
           /\ \A e \in Drafts : e # q => /\ inbox'[e] = inbox[e] /\ heard'[e] = heard[e]
                                       /\ trouble'[e] = trouble[e]
           /\ \A r \in Changes : r # q => change'[r] = change[r] /\ audit'[r] = audit[r]
           /\ \A t \in Tasks : t \notin {<<"notice", q>>, <<"audit", q>>} => job'[t] = job[t]
<1>1. shape' = shape /\ dlvMix' = dlvMix
  BY DEF Handling, StartChange, Commit, Notify, DeliverInline, EmitInline, AnswerChange,
         RecordEntry, PersistInline
<1>2. /\ q \in Drafts /\ change \in [Changes -> Handler] /\ audit \in [Changes -> Nat]
      /\ job \in [Tasks -> Job]
  BY ChangeValues DEF TypeInv, DeliveryTypeOK
<1>3. \A kind : Strikes(kind, {q}) => \A e \in Drafts : e # q => trouble'[e] = trouble[e]
  <2> SUFFICES ASSUME NEW kind, Strikes(kind, {q}), NEW e \in Drafts, e # q
               PROVE  trouble'[e] = trouble[e]
    OBVIOUS
  <2>1. trouble'[e] = trouble[e] + 0 /\ trouble[e] \in Nat
    BY StrikesType DEF TypeInv, DeliveryTypeOK
  <2> QED BY <2>1
<1>4. \A e \in Drafts : e # q => inbox'[e] = inbox[e]
  <2>1. inbox' = inbox \/ Store(q) \/ StorePart(q)
    BY DEF Handling, StartChange, Commit, Notify, DeliverInline, EmitInline, AnswerChange,
           RecordEntry, PersistInline, stores
  <2> QED BY <1>2, <2>1, StoreType
<1>5. \A e \in Drafts : e # q => heard'[e] = heard[e]
  <2>1. heard' = heard \/ Emit(q, "api")
    BY DEF Handling, StartChange, Commit, Notify, DeliverInline, EmitInline, AnswerChange,
           RecordEntry, PersistInline, stores
  <2> QED BY <1>2, <2>1, EmitType
<1>6. ASSUME NEW kind \in Kinds, NEW queued, NEW inline, Enqueue(q, kind, queued, inline)
      PROVE  /\ \A e \in Drafts : e # q => trouble'[e] = trouble[e]
             /\ \A r \in Changes : r # q => change'[r] = change[r]
             /\ \A t \in Tasks : t \notin {<<"notice", q>>, <<"audit", q>>} => job'[t] = job[t]
  <2>1. \A t \in Tasks : t # <<kind, q>> => job'[t] = job[t]
    BY <1>2, <1>6, EnqueueSteps
  <2>2. \A r \in Changes : r # q => change'[r] = change[r]
    BY <1>2, <1>6, EnqueueSteps DEF ChangeGo
  <2>3. \A e \in Drafts : e # q => trouble'[e] = trouble[e]
    BY <1>3, <1>6, EnqueueSteps DEF NoTrouble
  <2> QED BY <2>1, <2>2, <2>3 DEF Kinds
<1>7. /\ \A e \in Drafts : e # q => trouble'[e] = trouble[e]
      /\ \A r \in Changes : r # q => change'[r] = change[r] /\ audit'[r] = audit[r]
      /\ \A t \in Tasks : t \notin {<<"notice", q>>, <<"audit", q>>} => job'[t] = job[t]
  <2>1. CASE Notify(q) \/ RecordEntry(q)
    <3>1. \E kind \in Kinds : \E queued, inline : Enqueue(q, kind, queued, inline)
      BY <2>1 DEF Notify, RecordEntry, Kinds
    <3>2. audit' = audit
      BY <2>1 DEF Notify, RecordEntry, stores
    <3> QED BY <1>6, <3>1, <3>2
  <2>2. CASE StartChange(q) \/ Commit(q) \/ EmitInline(q) \/ AnswerChange(q)
    BY <1>2, <2>2 DEF StartChange, Commit, EmitInline, AnswerChange, ChangeGo, NoTrouble, stores
  <2>3. CASE DeliverInline(q) \/ PersistInline(q)
    <3>1. trouble' = trouble \/ Strikes("mongo", {q})
      BY <2>3 DEF DeliverInline, PersistInline, NoTrouble
    <3>2. job' = job
      BY <2>3 DEF DeliverInline, PersistInline
    <3>3. \A r \in Changes : r # q => change'[r] = change[r] /\ audit'[r] = audit[r]
      BY <1>2, <2>3 DEF DeliverInline, PersistInline, ChangeGo
    <3> QED BY <1>3, <3>1, <3>2, <3>3
  <2> QED BY <2>1, <2>2, <2>3 DEF Handling
<1> QED BY <1>1, <1>4, <1>5, <1>7

(* Nor does a step of a job.                                               *)
LEMMA WorkElsewhere ==
    ASSUME TypeInv, NEW t \in Tasks, Work(t) \/ Stall(t)
    PROVE  /\ shape' = shape /\ dlvMix' = dlvMix /\ change' = change
           /\ \A e \in Drafts \ DraftsOf(t) : /\ inbox'[e] = inbox[e] /\ heard'[e] = heard[e]
                                              /\ trouble'[e] = trouble[e]
           /\ \A r \in Changes : t # <<"audit", r>> => audit'[r] = audit[r]
           /\ \A x \in Tasks : x # t => job'[x] = job[x]
<1>1. shape' = shape /\ dlvMix' = dlvMix /\ change' = change
  BY DEF Work, TakeJob, RunJob, FailJob, FinishJob, Stall
<1>2. \A x \in Tasks : x # t => job'[x] = job[x]
  <2>1. job \in [Tasks -> Job]
    BY DEF TypeInv, DeliveryTypeOK
  <2> QED BY <2>1, TakeSteps, RunSteps, FailSteps, FinishSteps, ZenonT(60) DEF Work, Stall
<1>3. job[t].st = "active" /\ t[1] # "audit" => Current(t) \in Drafts \cap DraftsOf(t)
  <2>1. CASE t = Sweep /\ job[t].st = "active"
    <3>1. dlvMix.due \in Seq(DueCards) /\ job[t].at \in 1..Len(dlvMix.due)
      BY <2>1, MixType DEF TypeInv, DeliveryTypeOK, JobOK
    <3> QED BY <2>1, <3>1 DEF Current, DraftsOf, Drafts
  <2>2. CASE t # Sweep
    BY <2>2, TaskKinds DEF Current, DraftsOf, Drafts
  <2> QED BY <2>1, <2>2
<1>4. \A e \in Drafts \ DraftsOf(t) : inbox'[e] = inbox[e]
  <2>1. \/ inbox' = inbox
        \/ /\ job[t].st = "active" /\ t[1] # "audit"
           /\ Store(Current(t)) \/ StorePart(Current(t))
    BY DEF Work, TakeJob, RunJob, FailJob, FinishJob, Stall, stores
  <2> QED BY <1>3, <2>1, StoreType
<1>5. \A e \in Drafts \ DraftsOf(t) : heard'[e] = heard[e]
  <2>1. \/ heard' = heard
        \/ job[t].st = "active" /\ t[1] # "audit" /\ Emit(Current(t), WorkerProcess)
    BY DEF Work, TakeJob, RunJob, FailJob, FinishJob, Stall, stores
  <2> QED BY <1>3, <2>1, EmitType
<1>6. \A e \in Drafts \ DraftsOf(t) : trouble'[e] = trouble[e]
  <2>1. \/ trouble' = trouble
        \/ trouble' = [d \in Drafts |-> trouble[d] + IF d \in DraftsOf(t) THEN 1 ELSE 0]
    BY DEF Work, TakeJob, RunJob, FailJob, FinishJob, Stall, Strikes, NoTrouble
  <2>2. \A e \in Drafts : trouble[e] \in Nat
    BY DEF TypeInv, DeliveryTypeOK
  <2> QED BY <2>1, <2>2
<1>7. \A r \in Changes : t # <<"audit", r>> => audit'[r] = audit[r]
  <2>1. \/ audit' = audit
        \/ t[1] = "audit" /\ audit' = [audit EXCEPT ![t[2]] = @ + 1]
    BY DEF Work, TakeJob, RunJob, FailJob, FinishJob, Stall, stores
  <2>2. audit \in [Changes -> Nat]
    BY DEF TypeInv, DeliveryTypeOK
  <2>3. t[1] = "audit" => t[2] \in Changes /\ t = <<"audit", t[2]>>
    BY TaskKinds
  <2> QED BY <2>1, <2>2, <2>3
<1> QED BY <1>1, <1>2, <1>4, <1>5, <1>6, <1>7

-----------------------------------------------------------------------------
(* What is kept of a due card                                              *)

LEMMA DueValues ==
    ASSUME TypeInv, NEW d \in DueCards
    PROVE  d \in Drafts /\ inbox[d] \in [Users -> Nat] /\ trouble[d] \in Nat /\ Sweep \in Tasks
  BY DEF TypeInv, DeliveryTypeOK, Drafts, Tasks

(* Nothing new is stored, and the card is ahead again only after a fault;  *)
(* or the card was ahead, something is stored, and it is behind or faulty. *)
LEMMA DueStep ==
    ASSUME TypeInv, NEW d \in DueCards, DueInv(d), shape' = shape,
           trouble'[d] \in {trouble[d], trouble[d] + 1},
           \/ /\ inbox'[d] = inbox[d]
              /\ Ahead(d)' => Ahead(d) \/ trouble'[d] = trouble[d] + 1
           \/ /\ \A u \in Users : /\ inbox'[d][u] \in {inbox[d][u], inbox[d][u] + 1}
                                  /\ u \notin Audience(d) => inbox'[d][u] = inbox[d][u]
              /\ Ahead(d)
              /\ ~Ahead(d)' \/ trouble'[d] = trouble[d] + 1
    PROVE  DueInv(d)'
<1>1. Audience(d)' = Audience(d)
  BY DEF Audience
<1>2. \A u \in Users : inbox[d][u] \in Nat /\ trouble[d] \in Nat
  BY DueValues
<1>3. ASSUME NEW u \in Users
      PROVE  /\ inbox[d][u] + (IF Ahead(d) THEN 1 ELSE 0) <= 1 + trouble[d]
             /\ u \notin Audience(d) => inbox[d][u] = 0
  BY DEF DueInv
<1>4. CASE /\ inbox'[d] = inbox[d]
           /\ Ahead(d)' => Ahead(d) \/ trouble'[d] = trouble[d] + 1
  <2>1. \A u \in Users :
          /\ inbox'[d][u] + (IF Ahead(d)' THEN 1 ELSE 0) <= 1 + trouble'[d]
          /\ u \notin Audience(d) => inbox'[d][u] = 0
    BY <1>2, <1>3, <1>4
  <2> QED BY <1>1, <2>1 DEF DueInv
<1>5. CASE /\ \A u \in Users : /\ inbox'[d][u] \in {inbox[d][u], inbox[d][u] + 1}
                               /\ u \notin Audience(d) => inbox'[d][u] = inbox[d][u]
           /\ Ahead(d)
           /\ ~Ahead(d)' \/ trouble'[d] = trouble[d] + 1
  <2>1. \A u \in Users :
          /\ inbox'[d][u] + (IF Ahead(d)' THEN 1 ELSE 0) <= 1 + trouble'[d]
          /\ u \notin Audience(d) => inbox'[d][u] = 0
    <3> SUFFICES ASSUME NEW u \in Users
                 PROVE  /\ inbox'[d][u] + (IF Ahead(d)' THEN 1 ELSE 0) <= 1 + trouble'[d]
                        /\ u \notin Audience(d) => inbox'[d][u] = 0
      OBVIOUS
    <3>1. /\ inbox[d][u] \in Nat /\ trouble[d] \in Nat /\ inbox[d][u] <= trouble[d]
          /\ u \notin Audience(d) => inbox[d][u] = 0
      BY <1>2, <1>3, <1>5
    <3>2. /\ inbox'[d][u] \in {inbox[d][u], inbox[d][u] + 1}
          /\ u \notin Audience(d) => inbox'[d][u] = inbox[d][u]
      BY <1>5
    <3>3. CASE ~Ahead(d)'
      BY <3>1, <3>2, <3>3
    <3>4. CASE trouble'[d] = trouble[d] + 1
      BY <3>1, <3>2, <3>4
    <3> QED BY <1>5, <3>3, <3>4
  <2> QED BY <1>1, <2>1 DEF DueInv
<1> QED BY <1>4, <1>5

LEMMA DueUntouched ==
    ASSUME TypeInv, NEW d \in DueCards, DueInv(d), shape' = shape, dlvMix' = dlvMix,
           inbox'[d] = inbox[d], trouble'[d] = trouble[d], job'[Sweep] = job[Sweep]
    PROVE  DueInv(d)'
<1>1. Ahead(d)' => Ahead(d)
  BY DEF Ahead
<1> QED BY <1>1, DueStep

LEMMA SweepKeeps ==
    ASSUME TypeInv, NEW d \in DueCards, DueInv(d), Work(Sweep) \/ Stall(Sweep)
    PROVE  DueInv(d)'
<1>1. /\ shape' = shape /\ dlvMix' = dlvMix /\ d \in Drafts /\ Sweep \in Tasks
      /\ inbox[d] \in [Users -> Nat] /\ trouble[d] \in Nat
  BY DueValues, WorkElsewhere
<1>2. /\ job \in [Tasks -> Job] /\ job[Sweep] \in Job /\ Sweep[1] # "audit"
      /\ dlvMix.due \in Seq(DueCards) /\ DOMAIN dlvMix.due = 1..Len(dlvMix.due)
      /\ Len(dlvMix.due) \in Nat
  BY <1>1, MixType, LenProperties, TaskKinds DEF TypeInv, DeliveryTypeOK
<1>3. d \in DraftsOf(Sweep) <=> \E i \in DOMAIN dlvMix.due : dlvMix.due[i] = d
  BY DEF DraftsOf
<1>4. CASE TakeJob(Sweep)
  <2>1. inbox' = inbox /\ trouble' = trouble /\ job[Sweep].st = "waiting"
    BY <1>4 DEF TakeJob, stores, NoTrouble
  <2>2. Ahead(d)' => Ahead(d)
    BY <1>1, <2>1 DEF Ahead
  <2> QED BY <1>1, <2>1, <2>2, DueStep
<1>5. CASE RunJob(Sweep)
  <2>1. /\ job[Sweep].st = "active" /\ ~job[Sweep].did /\ job[Sweep].at \in 1..Len(dlvMix.due)
        /\ job' = [job EXCEPT ![Sweep] = [job[Sweep] EXCEPT !.did = TRUE]]
    BY <1>1, <1>5, RunSteps DEF TypeInv, JobOK
  <2>2. /\ job'[Sweep].st = "active" /\ job'[Sweep].did /\ job'[Sweep].at = job[Sweep].at
    BY <1>1, <1>2, <2>1 DEF Job
  <2>3. Store(Current(Sweep)) /\ trouble' = trouble
    BY <1>2, <1>5 DEF RunJob, NoTrouble
  <2>4. Current(Sweep) = dlvMix.due[job[Sweep].at] /\ Current(Sweep) \in Drafts
    BY <1>1, <1>2, <2>1, CurrentType DEF Current
  <2>5. CASE d = Current(Sweep)
    <3>1. Ahead(d)
      BY <1>2, <2>1, <2>4, <2>5 DEF Ahead
    <3>2. ~Ahead(d)'
      <4> SUFFICES ASSUME NEW i \in DOMAIN dlvMix.due, dlvMix.due[i] = d, job[Sweep].at < i
                   PROVE  FALSE
        BY <1>1, <2>2 DEF Ahead
      <4>1. i = job[Sweep].at
        BY <1>2, <2>1, <2>4, <2>5, MixType DEF TypeInv, DeliveryTypeOK
      <4> QED BY <1>2, <2>1, <4>1
    <3>3. \A u \in Users : /\ inbox'[d][u] \in {inbox[d][u], inbox[d][u] + 1}
                           /\ u \notin Audience(d) => inbox'[d][u] = inbox[d][u]
      <4>1. \A u \in Users : /\ inbox[d][u] <= inbox'[d][u] /\ inbox'[d][u] <= inbox[d][u] + 1
                             /\ u \notin Audience(d) => inbox'[d][u] = inbox[d][u]
                             /\ inbox'[d][u] \in Nat
        BY <1>1, <2>3, <2>5, StoreType
      <4> QED BY <1>1, <4>1
    <3> QED BY <1>1, <2>3, <3>1, <3>2, <3>3, DueStep
  <2>6. CASE d # Current(Sweep)
    <3>1. inbox'[d] = inbox[d]
      BY <1>1, <2>3, <2>4, <2>6, StoreType
    <3>2. Ahead(d)' => Ahead(d)
      BY <1>1, <2>1, <2>2 DEF Ahead
    <3> QED BY <1>1, <2>3, <3>1, <3>2, DueStep
  <2> QED BY <2>5, <2>6
<1>6. CASE FailJob(Sweep)
  <2>1. PICK j \in Job :
           /\ job' = [job EXCEPT ![Sweep] = j] /\ j.st \in {"waiting", "failed"}
           /\ job[Sweep].st = "active" /\ ~job[Sweep].did
    BY <1>1, <1>6, FailSteps
  <2>2. job[Sweep].at \in 1..Len(dlvMix.due)
    BY <1>1, <2>1 DEF TypeInv, JobOK
  <2>3. \A e \in Drafts : trouble'[e] = trouble[e] + IF e \in DraftsOf(Sweep) THEN 1 ELSE 0
    <3>1. CASE trouble' = [e \in Drafts |-> trouble[e] + IF e \in DraftsOf(Sweep) THEN 1 ELSE 0]
      BY <3>1
    <3> QED BY <1>6, <3>1, StrikesType DEF FailJob
  <2>4. Current(Sweep) = dlvMix.due[job[Sweep].at] /\ Current(Sweep) \in Drafts
    BY <1>1, <1>2, <2>1, CurrentType DEF Current
  <2>5. inbox' = inbox \/ StorePart(Current(Sweep))
    BY <1>2, <1>6 DEF FailJob
  <2>6. CASE d = Current(Sweep)
    <3>1. Ahead(d) /\ d \in DraftsOf(Sweep)
      BY <1>2, <1>3, <2>1, <2>2, <2>4, <2>6 DEF Ahead
    <3>2. \A u \in Users : /\ inbox'[d][u] \in {inbox[d][u], inbox[d][u] + 1}
                           /\ u \notin Audience(d) => inbox'[d][u] = inbox[d][u]
      <4>1. CASE inbox' = inbox
        BY <4>1
      <4>2. CASE StorePart(Current(Sweep))
        <5>1. \A u \in Users : /\ inbox[d][u] <= inbox'[d][u] /\ inbox'[d][u] <= inbox[d][u] + 1
                               /\ u \notin Audience(d) => inbox'[d][u] = inbox[d][u]
                               /\ inbox'[d][u] \in Nat
          BY <1>1, <4>2, <2>6, StoreType
        <5> QED BY <1>1, <5>1
      <4> QED BY <2>5, <4>1, <4>2
    <3>3. trouble'[d] = trouble[d] + 1
      BY <1>1, <2>3, <3>1
    <3> QED BY <1>1, <3>1, <3>2, <3>3, DueStep
  <2>7. CASE d # Current(Sweep)
    <3>1. inbox'[d] = inbox[d]
      BY <1>1, <2>4, <2>5, <2>7, StoreType
    <3>2. trouble'[d] \in {trouble[d], trouble[d] + 1}
      BY <1>1, <2>3
    <3>3. Ahead(d)' => trouble'[d] = trouble[d] + 1
      BY <1>1, <1>3, <2>3 DEF Ahead
    <3> QED BY <1>1, <3>1, <3>2, <3>3, DueStep
  <2> QED BY <2>6, <2>7
<1>7. CASE FinishJob(Sweep)
  <2>1. inbox' = inbox /\ trouble' = trouble
    BY <1>7 DEF FinishJob, NoTrouble
  <2>2. Ahead(d)' => Ahead(d)
    <3>1. CASE job' = [job EXCEPT ![Sweep] = [job[Sweep] EXCEPT !.at = @ + 1, !.did = FALSE]]
      <4>1. /\ job'[Sweep].st = "active" /\ job'[Sweep].at = job[Sweep].at + 1
            /\ job[Sweep].st = "active" /\ job[Sweep].at \in Nat
        BY <1>1, <1>2, <1>7, <3>1 DEF Job, FinishJob
      <4> QED BY <1>1, <1>2, <4>1 DEF Ahead
    <3>2. CASE job' = [job EXCEPT ![Sweep] = [job[Sweep] EXCEPT !.st = "done"]]
      <4>1. job'[Sweep].st = "done"
        BY <1>1, <1>2, <3>2 DEF Job
      <4> QED BY <4>1 DEF Ahead
    <3> QED BY <1>1, <1>7, <3>1, <3>2, FinishSteps
  <2> QED BY <1>1, <2>1, <2>2, DueStep
<1>8. CASE Stall(Sweep)
  <2>1. inbox' = inbox
    BY <1>8 DEF Stall, stores
  <2>2. trouble'[d] = trouble[d] + IF d \in DraftsOf(Sweep) THEN 1 ELSE 0
    BY <1>1, <1>8, StrikesType DEF Stall
  <2>3. Ahead(d)' => d \in DraftsOf(Sweep)
    BY <1>1, <1>3 DEF Ahead
  <2> QED BY <1>1, <2>1, <2>2, <2>3, DueStep
<1> QED BY <1>4, <1>5, <1>6, <1>7, <1>8 DEF Work

-----------------------------------------------------------------------------
(* Every step keeps everything                                             *)

LEMMA InitInv == DeliveryInit => Inv
<1> SUFFICES ASSUME DeliveryInit PROVE Inv
  OBVIOUS
<1>1. TypeInv
  BY InitType
<1>2. ASSUME NEW q \in Changes PROVE ChangeInv(q)
  <2>1. /\ change[q].step = "new" /\ change[q].answer = "none"
        /\ job[<<"notice", q>>] = NoJob /\ job[<<"audit", q>>] = NoJob
        /\ \A u \in Users : inbox[q][u] = 0 /\ heard[q][u] = 0
        /\ audit[q] = 0 /\ trouble[q] = 0 /\ Audience(q) \subseteq Users
    BY <1>1, ChangeValues, TasksOf DEF DeliveryInit
  <2>2. Answered(change[q]) /\ Recorded(change[q], job[<<"audit", q>>], audit[q], trouble[q])
    BY <2>1, JobTypes DEF Answered, Recorded, Early
  <2>3. /\ Once(Audience(q), change[q], job[<<"notice", q>>], inbox[q], trouble[q])
        /\ Noted(change[q], job[<<"audit", q>>], audit[q], trouble[q])
    BY <2>1, JobTypes DEF Once, Noted, Pending
  <2>4. Reached(Audience(q), Throws(q), change[q], job[<<"notice", q>>], inbox[q], trouble[q])
    BY <2>1, JobTypes DEF Reached, Answering
  <2>5. Sent(dlvMix.split, Audience(q), change[q], job[<<"notice", q>>], inbox[q], heard[q], trouble[q])
    BY <2>1, JobTypes DEF Sent
  <2> QED BY <2>2, <2>3, <2>4, <2>5 DEF ChangeInv, ChangeOK
<1>3. ASSUME NEW d \in DueCards PROVE DueInv(d)
  <2>1. \A u \in Users : inbox[d][u] = 0
    BY <1>1, DueValues DEF DeliveryInit
  <2>2. trouble[d] = 0
    BY <1>1, DueValues DEF DeliveryInit
  <2> QED BY <2>1, <2>2 DEF DueInv
<1> QED BY <1>1, <1>2, <1>3 DEF Inv

LEMMA ChangesKept ==
    ASSUME Inv, [DeliveryNext]_dlvVars, NEW q \in Changes
    PROVE  ChangeInv(q)'
<1>0. /\ TypeInv /\ ChangeInv(q) /\ q \in Drafts
      /\ <<"notice", q>> \in Tasks /\ <<"audit", q>> \in Tasks
      /\ <<"notice", q>> # Sweep /\ <<"audit", q>> # Sweep
  BY ChangeValues, TasksOf DEF Inv
<1>1. ASSUME NEW r \in Changes, Handling(r)
      PROVE  ChangeInv(q)'
  <2>1. CASE r = q
    BY <1>0, <1>1, <2>1, StartKeeps, NotifyKeeps, DeliverKeeps, AnswerKeeps, RecordKeeps DEF Handling
  <2>2. CASE r # q
    <3>1. <<"notice", q>> \notin {<<"notice", r>>, <<"audit", r>>}
          /\ <<"audit", q>> \notin {<<"notice", r>>, <<"audit", r>>}
      BY <2>2
    <3> QED BY <1>0, <1>1, <2>2, <3>1, HandlingElsewhere, Untouched
  <2> QED BY <2>1, <2>2
<1>2. ASSUME NEW t \in Tasks, Work(t) \/ Stall(t)
      PROVE  ChangeInv(q)'
  <2>1. CASE t = <<"notice", q>>
    BY <1>0, <1>2, <2>1, NoticeKeeps
  <2>2. CASE t = <<"audit", q>>
    BY <1>0, <1>2, <2>2, EntryKeeps
  <2>3. CASE t # <<"notice", q>> /\ t # <<"audit", q>>
    <3>1. q \notin DraftsOf(t)
      <4>1. CASE t = Sweep
        <5>1. DraftsOf(t) \subseteq DueCards
          BY <1>0, <4>1, MixType DEF DraftsOf, TypeInv, DeliveryTypeOK
        <5> QED BY <5>1, DeliveryAssumption
      <4>2. CASE t # Sweep
        BY <2>3, <4>2, TaskKinds DEF DraftsOf
      <4> QED BY <4>1, <4>2
    <3> QED BY <1>0, <1>2, <2>3, <3>1, WorkElsewhere, Untouched
  <2> QED BY <2>1, <2>2, <2>3
<1>3. CASE ScheduleSweep
  <2>1. /\ job'[<<"notice", q>>] = job[<<"notice", q>>]
        /\ job'[<<"audit", q>>] = job[<<"audit", q>>]
    BY <1>0, <1>3, ScheduleSteps DEF TypeInv, DeliveryTypeOK
  <2> QED BY <1>0, <1>3, <2>1, Untouched DEF ScheduleSweep, stores, NoTrouble
<1>4. CASE RedisDown
  <2>1. trouble'[q] = trouble[q]
    <3>1. trouble'[q] = trouble[q] + 0 /\ trouble[q] \in Nat
      BY <1>0, <1>4, StrikesType, ChangeValues DEF RedisDown
    <3> QED BY <3>1
  <2> QED BY <1>0, <1>4, <2>1, Untouched DEF RedisDown, stores
<1>5. CASE \E p \in {"api", "worker"} : Ended(p)
  BY <1>0, <1>5, EndedKeeps
<1>6. CASE RedisUp \/ BootApi \/ BootWorker \/ UNCHANGED dlvVars
  BY <1>0, <1>6, Untouched DEF RedisUp, BootApi, BootWorker, dlvVars, stores, NoTrouble
<1> QED BY <1>1, <1>2, <1>3, <1>4, <1>5, <1>6 DEF DeliveryNext, Work

LEMMA DueKept ==
    ASSUME Inv, [DeliveryNext]_dlvVars, NEW d \in DueCards
    PROVE  DueInv(d)'
<1>0. /\ TypeInv /\ DueInv(d) /\ d \in Drafts /\ d \notin Changes /\ Sweep \in Tasks
      /\ inbox[d] \in [Users -> Nat] /\ trouble[d] \in Nat
  BY DueValues, DeliveryAssumption DEF Inv
<1>1. ASSUME NEW r \in Changes, Handling(r)
      PROVE  DueInv(d)'
  <2>1. Sweep \notin {<<"notice", r>>, <<"audit", r>>} /\ d # r
    BY <1>0, TasksOf
  <2> QED BY <1>0, <1>1, <2>1, HandlingElsewhere, DueUntouched
<1>2. ASSUME NEW t \in Tasks, Work(t) \/ Stall(t)
      PROVE  DueInv(d)'
  <2>1. CASE t = Sweep
    BY <1>0, <1>2, <2>1, SweepKeeps
  <2>2. CASE t # Sweep
    <3>1. d \notin DraftsOf(t)
      BY <1>0, <2>2, TaskKinds DEF DraftsOf
    <3> QED BY <1>0, <1>2, <2>2, <3>1, WorkElsewhere, DueUntouched
  <2> QED BY <2>1, <2>2
<1>3. CASE ScheduleSweep
  <2>1. job[Sweep].st = "none" /\ dlvMix' = dlvMix
    BY <1>3, <1>0, ScheduleSteps DEF ScheduleSweep
  <2>2. Ahead(d)' => Ahead(d)
    BY <2>1 DEF Ahead
  <2>3. inbox' = inbox /\ trouble' = trouble /\ shape' = shape
    BY <1>3 DEF ScheduleSweep, stores, NoTrouble
  <2> QED BY <1>0, <2>2, <2>3, DueStep
<1>4. CASE RedisDown
  <2>1. trouble'[d] = trouble[d]
    <3>1. trouble'[d] = trouble[d] + 0
      BY <1>0, <1>4, StrikesType DEF RedisDown
    <3> QED BY <1>0, <3>1
  <2> QED BY <1>0, <1>4, <2>1, DueUntouched DEF RedisDown, stores
<1>5. ASSUME NEW p \in {"api", "worker"}, Ended(p)
      PROVE  DueInv(d)'
  <2>1. inbox' = inbox /\ shape' = shape /\ dlvMix' = dlvMix
    BY <1>0, <1>5, EndedSteps DEF stores
  <2>2. /\ trouble'[d] \in {trouble[d], trouble[d] + 1}
        /\ job'[Sweep] # job[Sweep] /\ d \in DraftsOf(Sweep) => trouble'[d] = trouble[d] + 1
    BY <1>0, <1>5, EndedSteps
  <2>3. Ahead(d)' => Ahead(d) \/ trouble'[d] = trouble[d] + 1
    BY <2>1, <2>2 DEF Ahead, DraftsOf
  <2> QED BY <1>0, <2>1, <2>2, <2>3, DueStep
<1>6. CASE RedisUp \/ BootApi \/ BootWorker \/ UNCHANGED dlvVars
  BY <1>0, <1>6, DueUntouched DEF RedisUp, BootApi, BootWorker, dlvVars, stores, NoTrouble
<1> QED BY <1>1, <1>2, <1>3, <1>4, <1>5, <1>6 DEF DeliveryNext, Work

LEMMA Invariant == DeliverySpec => []Inv
<1>1. Inv /\ [DeliveryNext]_dlvVars => Inv'
  <2> SUFFICES ASSUME Inv, [DeliveryNext]_dlvVars PROVE Inv'
    OBVIOUS
  <2>1. TypeInv'
    BY NextType DEF Inv
  <2>2. \A q \in Changes : ChangeInv(q)'
    BY ChangesKept
  <2>3. \A d \in DueCards : DueInv(d)'
    BY DueKept
  <2> QED BY <2>1, <2>2, <2>3 DEF Inv
<1> QED BY <1>1, InitInv, PTL DEF DeliverySpec

(* Whatever faults strike requests, queue and workers, nobody outside a    *)
(* draft's audience is told, and what is told or recorded twice was hit by *)
(* as many faults: notification.service deliver and audit.service persist, *)
(* run by the request itself, by a job, by its retries, or by all of them. *)
THEOREM DuplicatesNeedFaults == DeliverySpec => []DuplicatesExplained
<1>1. Inv => DuplicatesExplained
  <2> SUFFICES ASSUME Inv PROVE DuplicatesExplained
    OBVIOUS
  <2>1. ASSUME NEW d \in Drafts, NEW u \in Users
        PROVE  inbox[d][u] <= IF u \in Audience(d) THEN 1 + trouble[d] ELSE 0
    <3>1. CASE d \in Changes
      <4>1. Once(Audience(d), change[d], job[<<"notice", d>>], inbox[d], trouble[d])
        BY <3>1 DEF Inv, ChangeInv, ChangeOK
      <4>2. inbox[d][u] \in Nat /\ trouble[d] \in Nat
        BY <3>1, ChangeValues DEF Inv
      <4> QED BY <4>1, <4>2 DEF Once
    <3>2. CASE d \in DueCards
      <4>1. inbox[d][u] \in Nat /\ trouble[d] \in Nat
        BY <3>2, DueValues DEF Inv
      <4> QED BY <3>2, <4>1 DEF Inv, DueInv
    <3> QED BY <3>1, <3>2 DEF Drafts
  <2>2. ASSUME NEW q \in Changes
        PROVE  audit[q] <= IF change[q].answer = "ok" THEN 1 + trouble[q] ELSE 0
    <3>1. Noted(change[q], job[<<"audit", q>>], audit[q], trouble[q])
      BY DEF Inv, ChangeInv, ChangeOK
    <3>2. audit[q] \in Nat /\ trouble[q] \in Nat
      BY ChangeValues DEF Inv
    <3> QED BY <3>1, <3>2 DEF Noted
  <2> QED BY <2>1, <2>2 DEF DuplicatesExplained
<1> QED BY <1>1, Invariant, PTL

(* A success is not answered before the change's notice is stored or is in *)
(* Redis for the workers, and its request does not end before its audit    *)
(* entry is, unless a fault struck or the notice is one no attempt stores. *)
THEOREM AnswersAreDelivered == DeliverySpec => []AnsweredMeansDelivered
<1>1. Inv => AnsweredMeansDelivered
  <2> SUFFICES ASSUME Inv, NEW q \in Changes, change[q].answer = "ok"
               PROVE  /\ \/ \A u \in Audience(q) : inbox[q][u] >= 1
                         \/ job[<<"notice", q>>].st \in {"waiting", "active"}
                         \/ Settled(<<"notice", q>>) /\ (Throws(q) \/ trouble[q] > 0)
                      /\ \/ audit[q] >= 1 \/ change[q].step # "over" \/ trouble[q] > 0
                         \/ job[<<"audit", q>>].st \in {"waiting", "active"}
    BY DEF AnsweredMeansDelivered
  <2>1. /\ Reached(Audience(q), Throws(q), change[q], job[<<"notice", q>>], inbox[q], trouble[q])
        /\ Recorded(change[q], job[<<"audit", q>>], audit[q], trouble[q])
    BY DEF Inv, ChangeInv, ChangeOK
  <2>2. Told(Audience(q), Throws(q), job[<<"notice", q>>], inbox[q], trouble[q])
    BY <2>1 DEF Reached
  <2> QED BY <2>1, <2>2 DEF Told, Recorded, Live, Over, Settled
<1> QED BY <1>1, Invariant, PTL

(* In one process, what a change without faults stored, its users' sockets *)
(* heard, except between the insertMany and the emit that follow each      *)
(* other in deliver.                                                       *)
THEOREM StoredIsHeard == DeliverySpec => []StoredAreHeard
<1>1. Inv => StoredAreHeard
  <2> SUFFICES ASSUME Inv, NEW q \in Changes, ~dlvMix.split, trouble[q] = 0,
                      change[q].step # "emit", job[<<"notice", q>>].st # "active"
               PROVE  heard[q] = inbox[q]
    BY DEF StoredAreHeard
  <2>1. Sent(dlvMix.split, Audience(q), change[q], job[<<"notice", q>>], inbox[q], heard[q], trouble[q])
    BY DEF Inv, ChangeInv, ChangeOK
  <2>2. inbox[q] \in [Users -> Nat] /\ heard[q] \in [Users -> Nat]
    BY ChangeValues DEF Inv
  <2>3. \A u \in Users : inbox[q][u] = heard[q][u]
    BY <2>1, <2>2 DEF Sent
  <2> QED BY <2>2, <2>3
<1> QED BY <1>1, Invariant, PTL

==============================================================================
