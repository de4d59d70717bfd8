------------------------------ MODULE Delivery ------------------------------
(***************************************************************************)
(* Notifications and audit entries on their way from a request to the      *)
(* database: services/notification.service and audit.service, middlewares/ *)
(* auditTrail, queues/ and the two processes server and worker.            *)
(*                                                                         *)
(* A mutating request commits its write, notifies, answers, and leaves an  *)
(* audit entry when the answer was a success.  Notifying and auditing each *)
(* queue a job in Redis, or run its handler inside the API process when    *)
(* Redis or the workers are missing.  BullMQ runs a job at least once.     *)
(***************************************************************************)
EXTENDS Naturals, Sequences, FiniteSets

CONSTANTS
    Changes,        \* mutating requests, each made once
    DueCards,       \* cards that fall due; the sweep reminds their assignees
    Users,
    SuperAdmins,    \* users with the super admin role
    Nobody,         \* the actor of a reminder
    Attempts,       \* JOB_DEFAULTS.attempts
    DeliveryMixes   \* bound: how the system is deployed (split), which changes
                    \* are made (changes), which cards are due in which order
                    \* (due), what a draft may be (shapes), which faults may
                    \* strike (faults) and how often (mishaps); a behaviour
                    \* keeps to one of these

Drafts == Changes \cup DueCards

(* A draft: whom it is for, who caused it, and whether the title made of   *)
(* the actor's name and the message fits the schema's maxlength.           *)
Shape == [to : SUBSET Users, actor : Users \cup {Nobody}, fits : BOOLEAN]

ASSUME DeliveryAssumption ==
    /\ Changes \cap DueCards = {}
    /\ SuperAdmins \subseteq Users /\ Nobody \notin Users
    /\ Attempts \in Nat \ {0}
    /\ DeliveryMixes \subseteq
           [split : BOOLEAN, changes : SUBSET Changes, due : Seq(DueCards),
            shapes : SUBSET Shape,
            faults : SUBSET {"redis", "add", "stall", "mongo", "crash"}, mishaps : Nat]
    /\ \A m \in DeliveryMixes : \A i, j \in DOMAIN m.due : m.due[i] = m.due[j] => i = j

VARIABLES
    redis,          \* whether Redis can be reached
    up,             \* which of the processes "api" and "worker" run
    working,        \* whether queue workers run (in the worker process, or in
                    \* the API process when it is not split)
    consumers,      \* consumersRunning in the API process
    shape,          \* each draft
    change,         \* the handler of each request
    job,            \* the jobs in Redis
    inbox,          \* how many notifications a draft has stored for a user ...
    heard,          \* ... and how many notification:created it has sent them
    audit,          \* audit entries of each request
    trouble,        \* ghost: the faults that hit the work of a draft ...
    mishaps,        \* ... and all there were so far
    stranded,       \* ghost: jobs left waiting when the API process started
                    \* without its workers
    dlvMix

processes == <<redis, up, working, consumers>>
stores == <<inbox, heard, audit>>
dlvVars == <<processes, shape, change, job, stores, trouble, mishaps, stranded, dlvMix>>

Kinds == {"notice", "audit"}
Sweep == <<"sweep", "due">>
Tasks == (Kinds \X Changes) \cup {Sweep}

ChangeSteps == {"new", "write", "notify", "deliver", "emit", "answer", "record", "persist", "over"}

Handler == [step : ChangeSteps, wrote : BOOLEAN, answer : {"none", "ok", "error", "lost"}]

(* at: the due card a sweep is at; did: its handler has stored what it     *)
(* stores; stalls: how often its lock was lost.                            *)
Job == [st : {"none", "waiting", "active", "done", "failed"},
        tries : Nat, stalls : Nat, at : Nat, did : BOOLEAN]

NoJob == [st |-> "none", tries |-> 0, stalls |-> 0, at |-> 1, did |-> FALSE]

DeliveryTypeOK ==
    /\ redis \in BOOLEAN
    /\ up \in [{"api", "worker"} -> BOOLEAN]
    /\ working \in BOOLEAN /\ consumers \in BOOLEAN
    /\ working => up["api"] \/ up["worker"]
    /\ shape \in [Drafts -> Shape]
    /\ change \in [Changes -> Handler]
    /\ job \in [Tasks -> Job]
    /\ \A t \in Tasks : job[t].tries <= Attempts /\ job[t].stalls <= 2
    /\ inbox \in [Drafts -> [Users -> Nat]]
    /\ heard \in [Drafts -> [Users -> Nat]]
    /\ audit \in [Changes -> Nat]
    /\ trouble \in [Drafts -> Nat]
    /\ mishaps \in Nat
    /\ stranded \subseteq Tasks
    /\ dlvMix \in DeliveryMixes

(* The draft of a change nobody makes here.                                *)
Silent == [to |-> {}, actor |-> Nobody, fits |-> TRUE]

(* deliver: recipients once each, without the actor and super admins.      *)
Audience(d) == (shape[d].to \ {shape[d].actor}) \ SuperAdmins

(* The drafts a task delivers; an audit entry of a change counts as its.   *)
DraftsOf(t) == IF t = Sweep THEN {dlvMix.due[i] : i \in DOMAIN dlvMix.due} ELSE {t[2]}

DeliveryInit ==
    /\ dlvMix \in DeliveryMixes
    /\ redis = TRUE
    /\ up = [p \in {"api", "worker"} |-> p = "api" \/ dlvMix.split]
    /\ working = TRUE
    /\ consumers = TRUE
    /\ shape \in [Drafts -> dlvMix.shapes \cup {Silent}]
    /\ \A d \in Drafts :
          IF d \in dlvMix.changes \cup DraftsOf(Sweep)
          THEN shape[d] \in dlvMix.shapes /\ (d \in DueCards => shape[d].actor = Nobody)
          ELSE shape[d] = Silent
    /\ change = [q \in Changes |-> [step |-> "new", wrote |-> FALSE, answer |-> "none"]]
    /\ job = [t \in Tasks |-> NoJob]
    /\ inbox = [d \in Drafts |-> [u \in Users |-> 0]]
    /\ heard = [d \in Drafts |-> [u \in Users |-> 0]]
    /\ audit = [q \in Changes |-> 0]
    /\ trouble = [d \in Drafts |-> 0]
    /\ mishaps = 0
    /\ stranded = {}

(* A fault of one kind strikes the drafts in S.                            *)
Strikes(kind, S) ==
    /\ kind \in dlvMix.faults /\ mishaps < dlvMix.mishaps
    /\ mishaps' = mishaps + 1
    /\ trouble' = [d \in Drafts |-> trouble[d] + IF d \in S THEN 1 ELSE 0]

NoTrouble == UNCHANGED <<trouble, mishaps>>

-----------------------------------------------------------------------------
(* deliver                                                                 *)

\* Mutant: super admins are not left out, or the actor is not.
StoreForAll(d) ==
    inbox' = [inbox EXCEPT ![d] = [u \in Users |-> @[u] + IF u \in shape[d].to THEN 1 ELSE 0]]

Store(d) ==
    inbox' = [inbox EXCEPT ![d] = [u \in Users |-> @[u] + IF u \in Audience(d) THEN 1 ELSE 0]]

(* insertMany failing on the way has stored a part of the batch.           *)
StorePart(d) ==
    \E S \in SUBSET Audience(d) :
        inbox' = [inbox EXCEPT ![d] = [u \in Users |-> @[u] + IF u \in S THEN 1 ELSE 0]]

(* emitToUser: only a process that bound the realtime server sends; the    *)
(* worker process has none.                                                *)
Emit(d, process) ==
    heard' = IF process = "api"
             THEN [heard EXCEPT ![d] = [u \in Users |-> @[u] + IF u \in Audience(d) THEN 1 ELSE 0]]
             ELSE heard

Throws(d) == Audience(d) # {} /\ ~shape[d].fits

-----------------------------------------------------------------------------
(* A request                                                               *)

ChangeGo(q, step) == change' = [change EXCEPT ![q].step = step]

StartChange(q) ==
    /\ q \in dlvMix.changes
    /\ up["api"]
    /\ change[q].step = "new"
    /\ ChangeGo(q, "write")
    /\ UNCHANGED <<processes, shape, job, stores, stranded, dlvMix>> /\ NoTrouble

(* The service commits its write, or refuses and answers with an error.    *)
Commit(q) ==
    /\ change[q].step = "write"
    /\ \/ change' = [change EXCEPT ![q] = [step |-> "notify", wrote |-> TRUE, answer |-> "none"]]
       \/ change' = [change EXCEPT ![q] = [step |-> "over", wrote |-> FALSE, answer |-> "error"]]
    /\ UNCHANGED <<processes, shape, job, stores, stranded, dlvMix>> /\ NoTrouble

\* Mutant: without a queue there is nothing to do.
EnqueueOrForget(q, kind, queued, inline) ==
    /\ NoTrouble
    /\ ChangeGo(q, queued)
    /\ job' = IF redis /\ consumers
              THEN [job EXCEPT ![<<kind, q>>] = [NoJob EXCEPT !.st = "waiting"]]
              ELSE job

\* Mutant: consumersRunning is not looked at.
EnqueueBlindly(q, kind, queued, inline) ==
    \/ /\ redis
       /\ job' = [job EXCEPT ![<<kind, q>>] = [NoJob EXCEPT !.st = "waiting"]]
       /\ ChangeGo(q, queued) /\ NoTrouble
    \/ /\ ~redis
       /\ ChangeGo(q, inline)
       /\ UNCHANGED job /\ NoTrouble

(* enqueue: with Redis ready and consumers running the job is added;       *)
(* otherwise, or when the add fails, which it may do after Redis has       *)
(* stored the job, the handler runs inline.                                *)
Enqueue(q, kind, queued, inline) ==
    \/ /\ redis /\ consumers
       /\ job' = [job EXCEPT ![<<kind, q>>] = [NoJob EXCEPT !.st = "waiting"]]
       /\ \/ ChangeGo(q, queued) /\ NoTrouble
          \/ ChangeGo(q, inline) /\ Strikes("add", {q})
    \/ /\ ~(redis /\ consumers) \/ "add" \in dlvMix.faults
       /\ ChangeGo(q, inline)
       /\ UNCHANGED job /\ NoTrouble

Notify(q) ==
    /\ change[q].step = "notify"
    /\ Enqueue(q, "notice", "answer", "deliver")
    /\ UNCHANGED <<processes, shape, stores, stranded, dlvMix>>

(* deliver inside the request: what it throws fails the request.           *)
DeliverInline(q) ==
    /\ change[q].step = "deliver"
    /\ \/ /\ ~Throws(q)
          /\ Store(q) /\ ChangeGo(q, "emit") /\ NoTrouble
       \/ /\ Throws(q)
          /\ change' = [change EXCEPT ![q].step = "over", ![q].answer = "error"]
          /\ UNCHANGED inbox /\ NoTrouble
       \/ /\ Strikes("mongo", {q})
          /\ StorePart(q)
          /\ change' = [change EXCEPT ![q].step = "over", ![q].answer = "error"]
    /\ UNCHANGED <<processes, shape, job, heard, audit, stranded, dlvMix>>

EmitInline(q) ==
    /\ change[q].step = "emit"
    /\ Emit(q, "api")
    /\ ChangeGo(q, "answer")
    /\ UNCHANGED <<processes, shape, job, inbox, audit, stranded, dlvMix>> /\ NoTrouble

(* The response finishes; the finish listener records a success.           *)
AnswerChange(q) ==
    /\ change[q].step = "answer"
    /\ change' = [change EXCEPT ![q].step = "record", ![q].answer = "ok"]
    /\ UNCHANGED <<processes, shape, job, stores, stranded, dlvMix>> /\ NoTrouble

RecordEntry(q) ==
    /\ change[q].step = "record"
    /\ Enqueue(q, "audit", "over", "persist")
    /\ UNCHANGED <<processes, shape, stores, stranded, dlvMix>>

(* persist inside the request; record swallows its errors.                 *)
PersistInline(q) ==
    /\ change[q].step = "persist"
    /\ ChangeGo(q, "over")
    /\ \/ audit' = [audit EXCEPT ![q] = @ + 1] /\ NoTrouble
       \/ UNCHANGED audit /\ Strikes("mongo", {q})
    /\ UNCHANGED <<processes, shape, job, inbox, heard, stranded, dlvMix>>

-----------------------------------------------------------------------------
(* The queue and its workers                                               *)

(* The hourly sweep is due; it is the workers that move it to the queue.   *)
ScheduleSweep ==
    /\ redis /\ working /\ dlvMix.due # <<>>
    /\ job[Sweep].st = "none"
    /\ job' = [job EXCEPT ![Sweep].st = "waiting"]
    /\ UNCHANGED <<processes, shape, change, stores, stranded, dlvMix>> /\ NoTrouble

\* Mutant: no process that works on jobs has the realtime server.
WorkerProcessUnbound == "worker"

WorkerProcess == IF dlvMix.split THEN "worker" ELSE "api"

TakeJob(t) ==
    /\ redis /\ working
    /\ job[t].st = "waiting"
    /\ job' = [job EXCEPT ![t].st = "active", ![t].at = 1, ![t].did = FALSE]
    /\ UNCHANGED <<processes, shape, change, stores, stranded, dlvMix>> /\ NoTrouble

(* What a job's handler stores next: the audit entry, the notifications of *)
(* its draft, or those of the due card the sweep is at.                    *)
Current(t) == IF t = Sweep THEN dlvMix.due[job[t].at] ELSE t[2]

\* Mutant: attempts are counted and never compared.
TriedForEver(t) ==
    job' = [job EXCEPT ![t].tries = @ + 1, ![t].st = "waiting", ![t].did = FALSE]

(* A handler that throws spends an attempt; the last one fails the job.    *)
Tried(t) ==
    job' = [job EXCEPT ![t].tries = @ + 1,
                       ![t].st = IF job[t].tries + 1 < Attempts THEN "waiting" ELSE "failed",
                       ![t].did = FALSE]

RunJob(t) ==
    /\ working
    /\ job[t].st = "active" /\ ~job[t].did
    /\ \/ /\ t[1] = "audit"
          /\ audit' = [audit EXCEPT ![t[2]] = @ + 1]
          /\ UNCHANGED inbox
       \/ /\ t[1] # "audit" /\ ~Throws(Current(t))
          /\ Store(Current(t))
          /\ UNCHANGED audit
    /\ job' = [job EXCEPT ![t].did = TRUE]
    /\ UNCHANGED <<processes, shape, change, heard, stranded, dlvMix>> /\ NoTrouble

(* A lost lock makes the job available once more; the second loss fails it.*)
Stalled(t) ==
    [job[t] EXCEPT !.stalls = @ + 1, !.did = FALSE,
                   !.st = IF job[t].stalls = 0 THEN "waiting" ELSE "failed"]

(* The handler throws: a title is too long, or the database fails.  A      *)
(* sweep starts again from its first card.  While Redis is away nobody can *)
(* record that it failed, and the job is left to lose its lock.            *)
FailJob(t) ==
    /\ working
    /\ job[t].st = "active" /\ ~job[t].did
    /\ \/ /\ t[1] # "audit" /\ Throws(Current(t))
          /\ trouble' = [d \in Drafts |-> trouble[d] + IF d \in DraftsOf(t) THEN 1 ELSE 0]
          /\ UNCHANGED <<inbox, mishaps>>
       \/ /\ Strikes("mongo", DraftsOf(t))
          /\ IF t[1] = "audit" THEN UNCHANGED inbox ELSE StorePart(Current(t))
    /\ IF redis THEN Tried(t) ELSE job' = [job EXCEPT ![t] = Stalled(t)]
    /\ UNCHANGED <<processes, shape, change, heard, audit, stranded, dlvMix>>

(* The handler emits and returns, or a sweep goes on with the next card.   *)
FinishJob(t) ==
    /\ working
    /\ job[t].st = "active" /\ job[t].did
    /\ IF t[1] = "audit" THEN UNCHANGED heard ELSE Emit(Current(t), WorkerProcess)
    /\ \/ /\ t = Sweep /\ job[t].at < Len(dlvMix.due)
          /\ job' = [job EXCEPT ![t].at = @ + 1, ![t].did = FALSE]
       \/ /\ t # Sweep \/ job[t].at = Len(dlvMix.due)
          /\ redis
          /\ job' = [job EXCEPT ![t].st = "done"]
    /\ UNCHANGED <<processes, shape, change, inbox, audit, stranded, dlvMix>> /\ NoTrouble

Stall(t) ==
    /\ job[t].st = "active"
    /\ Strikes("stall", DraftsOf(t))
    /\ job' = [job EXCEPT ![t] = Stalled(t)]
    /\ UNCHANGED <<processes, shape, change, stores, stranded, dlvMix>>

-----------------------------------------------------------------------------
(* Redis and the processes                                                 *)

RedisDown ==
    /\ redis
    /\ Strikes("redis", {})
    /\ redis' = FALSE
    /\ UNCHANGED <<up, working, consumers, shape, change, job, stores, stranded, dlvMix>>

RedisUp ==
    /\ ~redis
    /\ redis' = TRUE
    /\ UNCHANGED <<up, working, consumers, shape, change, job, stores, stranded, dlvMix>> /\ NoTrouble

(* A process ends.  Its requests are never answered, its jobs stall; a     *)
(* shutdown waits for its workers first.                                   *)
Serving(q) == change[q].step \notin {"new", "over"}

Ended(p) ==
    LET api == p = "api"
        jobs == IF p = WorkerProcess THEN {t \in Tasks : job[t].st = "active"} ELSE {}
    IN  /\ up[p]
        /\ Strikes("crash", (UNION {DraftsOf(t) : t \in jobs})
                            \cup {q \in Changes : api /\ Serving(q)})
        /\ up' = [up EXCEPT ![p] = FALSE]
        /\ working' = (working /\ p # WorkerProcess)
        /\ change' = [q \in Changes |->
                        IF api /\ Serving(q)
                        THEN [change[q] EXCEPT !.step = "over",
                                               !.answer = IF @ = "none" THEN "lost" ELSE @]
                        ELSE change[q]]
        /\ job' = [t \in Tasks |-> IF t \in jobs THEN Stalled(t) ELSE job[t]]
        /\ UNCHANGED <<redis, consumers, shape, stores, stranded, dlvMix>>

(* server: workers start with the process when Redis answered by then.     *)
BootApi ==
    /\ ~up["api"]
    /\ up' = [up EXCEPT !["api"] = TRUE]
    /\ working' = IF dlvMix.split THEN working ELSE redis
    /\ consumers' = (dlvMix.split \/ redis)
    /\ stranded' = {t \in Tasks : ~working' /\ ~dlvMix.split /\ job[t].st = "waiting"}
    /\ UNCHANGED <<redis, shape, change, job, stores, dlvMix>> /\ NoTrouble

(* worker: gives up without Redis, and is started again until it has it.   *)
BootWorker ==
    /\ dlvMix.split /\ ~up["worker"]
    /\ redis
    /\ up' = [up EXCEPT !["worker"] = TRUE]
    /\ working' = TRUE
    /\ UNCHANGED <<redis, consumers, shape, change, job, stores, stranded, dlvMix>> /\ NoTrouble

Handling(q) ==
    \/ StartChange(q) \/ Commit(q) \/ Notify(q) \/ DeliverInline(q) \/ EmitInline(q)
    \/ AnswerChange(q) \/ RecordEntry(q) \/ PersistInline(q)

Work(t) == TakeJob(t) \/ RunJob(t) \/ FailJob(t) \/ FinishJob(t)

DeliveryNext ==
    \/ \E q \in Changes : Handling(q)
    \/ \E t \in Tasks : TakeJob(t) \/ RunJob(t) \/ FailJob(t) \/ FinishJob(t) \/ Stall(t)
    \/ ScheduleSweep
    \/ RedisDown \/ RedisUp
    \/ \E p \in {"api", "worker"} : Ended(p)
    \/ BootApi \/ BootWorker

(* The workers go on with what they have, a process that ended is started  *)
(* again (restart: unless-stopped), and Redis comes back.                  *)
DeliveryFairness ==
    /\ WF_dlvVars(\E t \in Tasks : Work(t))
    /\ WF_dlvVars(RedisUp) /\ WF_dlvVars(BootApi) /\ WF_dlvVars(BootWorker)

DeliverySpec == DeliveryInit /\ [][DeliveryNext]_dlvVars /\ DeliveryFairness

-----------------------------------------------------------------------------
Settled(t) == job[t].st \in {"done", "failed"}

(* Each draft stores at most one notification per user of its audience,    *)
(* each change at most one audit entry, and that only when it was answered *)
(* with a success; and one more for each fault that hit their work: nobody *)
(* else is told, and nothing is told or recorded twice without a fault.    *)
DuplicatesExplained ==
    /\ \A d \in Drafts, u \in Users :
          inbox[d][u] <= IF u \in Audience(d) THEN 1 + trouble[d] ELSE 0
    /\ \A q \in Changes :
          audit[q] <= IF change[q].answer = "ok" THEN 1 + trouble[q] ELSE 0

(* After a success was answered, everyone the change concerns has the      *)
(* notification, or a job that will store it is in Redis, or the job       *)
(* failed, its title too long or struck by a fault; and when its request   *)
(* is over, the same goes for its audit entry.                             *)
AnsweredMeansDelivered ==
    \A q \in Changes :
        change[q].answer = "ok" =>
            /\ \/ \A u \in Audience(q) : inbox[q][u] >= 1
               \/ job[<<"notice", q>>].st \in {"waiting", "active"}
               \/ Settled(<<"notice", q>>) /\ (Throws(q) \/ trouble[q] > 0)
            /\ \/ audit[q] >= 1 \/ change[q].step # "over" \/ trouble[q] > 0
               \/ job[<<"audit", q>>].st \in {"waiting", "active"}

(* Where one process serves and works, every stored notification of a      *)
(* change that no fault hit has also been sent to the user's sockets.      *)
StoredAreHeard ==
    \A q \in Changes :
        ~dlvMix.split /\ trouble[q] = 0 =>
            \/ heard[q] = inbox[q]
            \/ change[q].step = "emit"
            \/ job[<<"notice", q>>].st = "active"

(* A job in Redis is done or failed in the end, unless it was waiting when *)
(* the one process that would work on it started while Redis was away:     *)
(* such a process never starts its workers, and takes no new jobs.         *)
JobsSettle ==
    \A t \in Tasks : job[t].st = "waiting" ~> Settled(t) \/ t \in stranded
=============================================================================
