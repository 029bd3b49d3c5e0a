------------------------------- MODULE SyncJob -------------------------------
(***************************************************************************)
(* The backend's bulk jobs (backend/services/sync_service.py behind POST   *)
(* and GET /v1/products/sync), composed with ProductIndex: a job upserts   *)
(* its products one after the other, each as a call of its own, while      *)
(* other requests write and delete the same products.                      *)
(*                                                                         *)
(* The entry of a job is in the memory of the worker that accepted it:     *)
(* the other workers do not know it, and a restart forgets it.  Which      *)
(* products a job has is chosen when it comes to them.                     *)
(***************************************************************************)
EXTENDS ProductIndex, Naturals, FiniteSets

CONSTANTS
    Job,            \* jobs, named by their job_id
    Worker,         \* processes of the backend
    MaxProducts     \* bound on the products of one job

\* The calls of run_bulk_sync: <<j, i>> is the one for the i-th product of job j.
TaskCall == Job \X (1 .. MaxProducts)

ASSUME TaskCallAssumption == TaskCall \subseteq Call
ASSUME MaxProductsAssumption == MaxProducts \in Nat
ASSUME NothingIsNoWorker == Nothing \notin Worker

VARIABLES
    job,            \* job -> its entry, and the worker that has it in _jobs
    heard           \* jobs whose client was told that they are complete

syncVars == <<vars, job, heard>>

\* No job, or one that a restart has forgotten: its worker is Nothing.
NoJob == [worker |-> Nothing, status |-> "queued", total |-> 0, processed |-> 0,
          failed |-> 0, taken |-> 0]

SyncInit ==
    /\ Init
    /\ job = [j \in Job |-> NoJob]
    /\ heard = {}

Alive(j) == job[j].worker # Nothing
Ran(j) == job[j].processed + job[j].failed

(***************************************************************************)
(* The endpoints                                                           *)
(***************************************************************************)
\* bulk_sync: register_job and the 202, after which the background task runs.
RegisterJob(w, j) ==
    /\ job[j] = NoJob
    /\ \E total \in 1 .. MaxProducts :
          job' = [job EXCEPT ![j] = [NoJob EXCEPT !.worker = w, !.total = total]]
    /\ UNCHANGED <<vars, heard>>

\* get_sync_status, at whichever worker the poll arrives: one that does not have
\* the job answers 404.
GetJobStatus(w, j) ==
    /\ job[j].worker = w /\ job[j].status = "complete"
    /\ heard' = heard \cup {j}
    /\ UNCHANGED <<vars, job>>

(***************************************************************************)
(* run_bulk_sync                                                           *)
(***************************************************************************)
Start(j) ==
    /\ Alive(j) /\ job[j].status = "queued"
    /\ job' = [job EXCEPT ![j].status = "running"]
    /\ UNCHANGED <<vars, heard>>

\* The call of the product at hand.
InProduct(j) == Alive(j) /\ job[j].taken > Ran(j)
Outcome(j) == pc[<<j, job[j].taken>>]

\* The next product: upsert_product in a session of its own.
NextProduct(j) ==
    /\ Alive(j) /\ job[j].status = "running"
    /\ ~InProduct(j) /\ Ran(j) < job[j].total
    /\ LET c == <<j, job[j].taken + 1>>
       IN Receive(c) /\ body'[c].topic = "upsert"
    /\ job' = [job EXCEPT ![j].taken = @ + 1]
    /\ UNCHANGED heard

\* Mutants of Count: a product counts before its commit, and a failure ends the task.
CountEarly(j) ==
    /\ InProduct(j)
    /\ \/ /\ Outcome(j) \in {"indexed", "done"}
          /\ job' = [job EXCEPT ![j].processed = @ + 1]
       \/ /\ Outcome(j) \in {"done", "failed"}
          /\ job' = [job EXCEPT ![j].failed = @ + 1]
    /\ UNCHANGED <<vars, heard>>
CountSuccess(j) ==
    /\ InProduct(j)
    /\ Outcome(j) = "done"
    /\ job' = [job EXCEPT ![j].processed = @ + 1]
    /\ UNCHANGED <<vars, heard>>

\* "except Exception" takes every failure, also the lost answer to a commit that
\* took place.
Count(j) ==
    /\ InProduct(j)
    /\ \/ /\ Outcome(j) = "done"
          /\ job' = [job EXCEPT ![j].processed = @ + 1]
       \/ /\ Outcome(j) \in {"done", "failed"}
          /\ job' = [job EXCEPT ![j].failed = @ + 1]
    /\ UNCHANGED <<vars, heard>>

Complete(j) ==
    /\ Alive(j) /\ job[j].status = "running"
    /\ Ran(j) = job[j].total
    /\ job' = [job EXCEPT ![j].status = IF job[j].failed = 0 THEN "complete" ELSE "failed"]
    /\ UNCHANGED <<vars, heard>>

\* Mutant of Restart: the jobs of the old process get a status of their own.
RestartMarking(w) ==
    /\ \E j \in Job : job[j].worker = w
    /\ job' = [j \in Job |-> IF job[j].worker = w
                             THEN [job[j] EXCEPT !.worker = Nothing, !.status = "lost"]
                             ELSE job[j]]
    /\ UNCHANGED <<vars, heard>>

\* The process ends: its jobs are forgotten, the database rolls back what their
\* calls have not committed (Abort), or still executes the commit it was sent.
Restart(w) ==
    /\ \E j \in Job : job[j].worker = w
    /\ job' = [j \in Job |-> IF job[j].worker = w
                             THEN [job[j] EXCEPT !.worker = Nothing] ELSE job[j]]
    /\ UNCHANGED <<vars, heard>>

(***************************************************************************)
(* Specification                                                           *)
(***************************************************************************)
\* Calls of jobs that are forgotten only end.
Orphan(c) == c \in TaskCall /\ ~Alive(c[1])
Handle(c) == IF Orphan(c) THEN Commit(c) \/ Abort(c) ELSE Step(c)

\* The calls of jobs and those of other clients.
IndexNext ==
    \/ \E c \in Call \ TaskCall : Reject(c) \/ Receive(c) \/ DeleteUnknown(c)
    \/ \E c \in Call : Handle(c) \/ Abort(c)
    \/ Search \/ Refetch

Task(j) == Start(j) \/ Count(j) \/ Complete(j) \/ NextProduct(j)

SyncNext ==
    \/ IndexNext /\ UNCHANGED <<job, heard>>
    \/ \E j \in Job : Task(j)
    \/ \E w \in Worker : Restart(w) \/ \E j \in Job : RegisterJob(w, j) \/ GetJobStatus(w, j)

\* uvicorn runs a task that is ready; what a call awaits returns or fails.
SyncSpec ==
    /\ SyncInit /\ [][SyncNext]_syncVars
    /\ \A j \in Job : WF_syncVars(Task(j))
    /\ \A c \in Call : WF_syncVars(Handle(c) /\ UNCHANGED <<job, heard>>)

(***************************************************************************)
(* Properties                                                              *)
(***************************************************************************)
JobTypeOK ==
    /\ TypeOK
    /\ job \in [Job -> [worker : Worker \cup {Nothing}, total : 0 .. MaxProducts,
                        status : {"queued", "running", "complete", "failed"},
                        processed : Nat, failed : Nat, taken : 0 .. MaxProducts]]
    /\ heard \subseteq Job

\* A client that has heard "complete" can rely on it, whichever worker it asked
\* and whatever restarted since: each product of the job was committed.  While
\* the job runs, its count of processed products never runs ahead of the commits.
JobIsHonest ==
    \A j \in Job :
        LET committed == {i \in 1 .. MaxProducts : pc[<<j, i>>] = "done"}
        IN /\ job[j].processed <= Cardinality(committed)
           /\ j \in heard => committed = 1 .. job[j].total

\* A job that was accepted ends, unless its worker is restarted: no failure of a
\* product and no lock another call holds on one stops it for good.
JobEnds ==
    \A j \in Job : Alive(j) ~> ~Alive(j) \/ job[j].status \in {"complete", "failed"}
==============================================================================
