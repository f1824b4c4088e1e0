----------------------------- MODULE CronProofs -----------------------------
(***************************************************************************)
(* Proofs about Cron for any number of requests, sites, users and jobs.    *)
(***************************************************************************)
EXTENDS Cron, FiniteSetTheorems, TLAPS

Running(r) == pc[r] \notin {"idle", "informed"}
InsideTx == {"applied", "rendered", "written", "restoring"}

\* What a request has decided by the time it reaches a stage.
StageInv ==
    \A r \in Request :
        /\ pc[r] # "idle" => seen[r] \in Seen
        /\ Running(r) =>
             /\ call[r] \in Call
             /\ call[r].op # "delete" => call[r].job \in Job
             /\ call[r].op = "delete" => call[r].job = None
             /\ call[r].job # None => call[r].job.site = seen[r].site
        /\ pc[r] \in InsideTx \cup {"committed"} => call[r].id \in JobId

\* The write lock is held by a request inside its transaction only.
WriterInv == \A r \in Request : writer = r => pc[r] \in InsideTx

TypeInv == TypeOK /\ StageInv /\ WriterInv

USE ConstantsAssumption

LEMMA RenderType ==
    ASSUME NEW jobs \in Rows, NEW u \in User
    PROVE  renderCronFile(jobs, u) \in [JobId -> Line \cup {None}]
BY DEF renderCronFile, Rows, Job, Line

LEMMA RevisionType ==
    ASSUME NEW jobs \in Rows, NEW s \in Site
    PROVE  cronRevision(jobs, s) \in Revisions
BY DEF cronRevision, Revisions, JobsOf, Rows, Job

\* A request that returns leaves no trace but its lock being free.
LEMMA ReturnKeepsTypes ==
    ASSUME TypeInv, NEW r \in Request, Return(r),
           faults' \in 0..MaxFaults, torn' \subseteq User, crossed' \subseteq User,
           mislabelled' \subseteq JobId,
           cronJob' \in Rows, cronFile' \in [User -> File],
           metadata' \in [JobId -> Label \cup {None}]
    PROVE  TypeInv'
<1> USE DEF TypeInv, Return, Goto
<1>1. TypeOK'
  BY DEF TypeOK, Stage, Rows, File, NoRows
<1>2. StageInv'
  BY DEF TypeOK, StageInv, Running, InsideTx
<1>3. WriterInv'
  BY DEF TypeOK, WriterInv, InsideTx
<1>4. QED BY <1>1, <1>2, <1>3

LEMMA TypeInit == Init => TypeInv
BY DEF Init, TypeInv, TypeOK, StageInv, WriterInv, Rows, File, NoRows, Stage, Running, InsideTx

LEMMA TypeStep == TypeInv /\ [Next]_vars => TypeInv'
<1> SUFFICES ASSUME TypeInv, [Next]_vars PROVE TypeInv'
  OBVIOUS
<1> USE DEF Stores, Locals, Environment, History
<1>1. ASSUME NEW r \in Request, ListJobs(r) PROVE TypeInv'
  <2>1. PICK s \in Site :
          seen' = [seen EXCEPT ![r] = [site |-> s, rev |-> cronRevision(cronJob, s)]]
    BY <1>1 DEF ListJobs
  <2>2. cronRevision(cronJob, s) \in Revisions
    BY RevisionType DEF TypeInv, TypeOK
  <2>3. [site |-> s, rev |-> cronRevision(cronJob, s)] \in Seen
    BY <2>2 DEF Seen
  <2>4. TypeOK'
    BY <1>1, <2>1, <2>3 DEF TypeInv, TypeOK, ListJobs, Goto, Stage
  <2>5. StageInv' /\ WriterInv'
    BY <1>1, <2>1, <2>3 DEF TypeInv, TypeOK, StageInv, WriterInv, ListJobs, Goto,
       Running, InsideTx
  <2>6. QED BY <2>4, <2>5 DEF TypeInv
<1>2. ASSUME NEW r \in Request, Accept(r) PROVE TypeInv'
  <2>1. PICK sched \in Schedule, cmd \in Command, at \in Second, id \in JobId :
          LET row == [site |-> seen[r].site, sched |-> sched, cmd |-> cmd, at |-> at]
          IN \E c \in {[op |-> "create", id |-> None, job |-> row],
                       [op |-> "update", id |-> id, job |-> row],
                       [op |-> "delete", id |-> id, job |-> None]} :
               call' = [call EXCEPT ![r] = c]
    BY <1>2 DEF Accept
  <2> DEFINE row == [site |-> seen[r].site, sched |-> sched, cmd |-> cmd, at |-> at]
  <2>2. row \in Job /\ row # None /\ row.site = seen[r].site
    BY <1>2 DEF TypeInv, TypeOK, StageInv, Accept, Seen, Job
  <2>3. PICK c \in {[op |-> "create", id |-> None, job |-> row],
                    [op |-> "update", id |-> id, job |-> row],
                    [op |-> "delete", id |-> id, job |-> None]} :
          call' = [call EXCEPT ![r] = c]
    BY <2>1
  <2>4. c \in Call /\ (c.op # "delete" => c.job \in Job) /\ (c.op = "delete" => c.job = None)
        /\ (c.job # None => c.job.site = seen[r].site)
    BY <2>2, <2>3 DEF Call
  <2>8. /\ seen' = [seen EXCEPT ![r] = [seen[r] EXCEPT !.rev = {}]]
        /\ seen[r] \in Seen /\ [seen[r] EXCEPT !.rev = {}] \in Seen
        /\ [seen[r] EXCEPT !.rev = {}].site = seen[r].site
    BY <1>2 DEF TypeInv, TypeOK, StageInv, Accept, Seen, Revisions
  <2>5. TypeOK'
    BY <1>2, <2>3, <2>4, <2>8 DEF TypeInv, TypeOK, Accept, Goto, Stage
  <2>6. StageInv' /\ WriterInv'
    BY <1>2, <2>3, <2>4, <2>8 DEF TypeInv, TypeOK, StageInv, WriterInv, Accept, Goto,
       Running, InsideTx
  <2>7. QED BY <2>5, <2>6 DEF TypeInv
<1>3. ASSUME NEW r \in Request, Conflict(r) \/ Busy(r) \/ Refuse(r) PROVE TypeInv'
  BY <1>3, ReturnKeepsTypes DEF TypeInv, TypeOK, Conflict, Busy, Refuse
<1>4. ASSUME NEW r \in Request, Apply(r) PROVE TypeInv'
  <2>1. PICK id \in Targets(r) :
          /\ call' = [call EXCEPT ![r].id = id]
          /\ view' = [view EXCEPT ![r] = [cronJob EXCEPT ![id] = call[r].job]]
    BY <1>4 DEF Apply
  <2>2. call[r] \in Call /\ seen[r] \in Seen /\ Running(r)
    BY <1>4 DEF TypeInv, StageInv, Apply, Running
  <2>3. id \in JobId
    BY <1>4, <2>1, <2>2 DEF Targets, Apply, Feasible, JobsOf
  <2>4. [call[r] EXCEPT !.id = id] \in Call
    BY <2>2, <2>3 DEF Call
  <2>5. [cronJob EXCEPT ![id] = call[r].job] \in Rows
    BY <2>2 DEF TypeInv, TypeOK, Rows, Call
  <2>6. TypeOK'
    BY <1>4, <2>1, <2>4, <2>5 DEF TypeInv, TypeOK, Apply, Goto, Stage
  <2>7. StageInv'
    BY <1>4, <2>1, <2>2, <2>3, <2>4 DEF TypeInv, TypeOK, StageInv, Apply, Goto, Running, Call
  <2>8. WriterInv'
    BY <1>4 DEF TypeInv, TypeOK, WriterInv, Apply, Goto, InsideTx
  <2>9. QED BY <2>6, <2>7, <2>8 DEF TypeInv
<1>5. ASSUME NEW r \in Request, ReadFile(r) PROVE TypeInv'
  <2>1. UserFor(r) \in User
    BY <1>5 DEF TypeInv, StageInv, ReadFile, UserFor, Seen
  <2>2. QED
    BY <1>5, <2>1 DEF TypeInv, TypeOK, StageInv, WriterInv, ReadFile, Goto, Stage,
       Running, InsideTx
<1>6. ASSUME NEW r \in Request, WriteFile(r) PROVE TypeInv'
  <2>1. UserFor(r) \in User /\ view[r] \in Rows
    BY <1>6 DEF TypeInv, TypeOK, StageInv, WriteFile, UserFor, Seen
  <2>2. renderCronFile(view[r], UserFor(r)) \in File
    BY <2>1, RenderType DEF File
  <2>3. QED
    BY <1>6, <2>2 DEF TypeInv, TypeOK, StageInv, WriterInv, WriteFile, Goto, Stage,
       Running, InsideTx
<1>7. ASSUME NEW r \in Request, WriteFails(r) \/ MetadataFails(r) PROVE TypeInv'
  <2>1. pc[r] = "committed" => call[r].id \in JobId
    BY DEF TypeInv, StageInv
  <2>2. QED BY <1>7, <2>1, ReturnKeepsTypes DEF TypeInv, TypeOK, WriteFails, MetadataFails, MayFail
<1>8. ASSUME NEW r \in Request, Commit(r) PROVE TypeInv'
  <2>1. call[r].id \in JobId
    BY <1>8 DEF TypeInv, StageInv, Commit, InsideTx
  <2>2. QED
    BY <1>8, <2>1 DEF TypeInv, TypeOK, StageInv, WriterInv, Commit, Goto, Stage, Running,
       InsideTx, Rows, NoRows, File
<1>9. ASSUME NEW r \in Request, CommitFails(r) \/ CommitTooLate(r) PROVE TypeInv'
  BY <1>9 DEF TypeInv, TypeOK, StageInv, WriterInv, CommitFails, CommitTooLate,
     MayFail, Goto, Stage, Running, InsideTx
<1>10. ASSUME NEW r \in Request, RestoreFile(r) PROVE TypeInv'
  <2>1. cronFile' \in [User -> File]
    BY <1>10 DEF TypeInv, TypeOK, RestoreFile
  <2>2. QED
    BY <1>10, <2>1, ReturnKeepsTypes DEF TypeInv, TypeOK, RestoreFile
<1>11. ASSUME NEW r \in Request, WriteMetadata(r) PROVE TypeInv'
  <2>1. LabelFor(r) \in Label \cup {None}
    BY <1>11 DEF TypeInv, StageInv, WriteMetadata, LabelFor, Running, Label, Seen, Job
  <2>2. metadata' \in [JobId -> Label \cup {None}]
    BY <1>11, <2>1 DEF TypeInv, TypeOK, WriteMetadata
  <2>3. QED
    BY <1>11, <2>2, ReturnKeepsTypes DEF TypeInv, TypeOK, WriteMetadata
<1>12. ASSUME NEW r \in Request, DeadlineExpires(r) PROVE TypeInv'
  <2>1. CASE pc[r] = "applied" /\ Return(r)
    BY <1>12, <2>1, ReturnKeepsTypes DEF TypeInv, TypeOK, DeadlineExpires, MayFail
  <2>2. CASE writer' = None /\ UNCHANGED <<pc, Locals>>
    BY <1>12, <2>2 DEF TypeInv, TypeOK, StageInv, WriterInv, DeadlineExpires, MayFail,
       Running, InsideTx
  <2>3. QED BY <1>12, <2>1, <2>2 DEF DeadlineExpires
<1>13. ASSUME Crash PROVE TypeInv'
  <2>1. torn' \subseteq User
    BY <1>13 DEF TypeInv, TypeOK, StageInv, Crash, UserFor, Seen
  <2>2. mislabelled' \subseteq JobId
    BY <1>13 DEF TypeInv, TypeOK, StageInv, Crash
  <2>3. QED
    BY <1>13, <2>1, <2>2 DEF TypeInv, TypeOK, StageInv, WriterInv, Crash, MayFail, Running,
       Rows, NoRows, File, Stage, InsideTx
<1>15. CASE UNCHANGED vars
  BY <1>15 DEF TypeInv, TypeOK, StageInv, WriterInv, vars, Running, InsideTx
<1>16. ASSUME NEW r \in Request, RestoreFails(r) PROVE TypeInv'
  <2>1. UserFor(r) \in User /\ previous[r] \in File
    BY <1>16 DEF TypeInv, TypeOK, StageInv, RestoreFails, UserFor, Seen
  <2>2. CASE UNCHANGED cronFile
    BY <1>16, <2>1, <2>2, ReturnKeepsTypes DEF TypeInv, TypeOK, RestoreFails, MayFail
  <2>3. CASE /\ previous[r] # None
             /\ \E part \in SUBSET JobId :
                  cronFile' = [cronFile EXCEPT ![UserFor(r)] =
                    [id \in JobId |-> IF id \in part THEN previous[r][id] ELSE None]]
    <3>1. PICK part \in SUBSET JobId :
            cronFile' = [cronFile EXCEPT ![UserFor(r)] =
              [id \in JobId |-> IF id \in part THEN previous[r][id] ELSE None]]
      BY <2>3
    <3>2. [id \in JobId |-> IF id \in part THEN previous[r][id] ELSE None] \in File
      BY <2>1, <2>3 DEF File
    <3>3. cronFile' \in [User -> File]
      BY <3>1, <3>2 DEF TypeInv, TypeOK
    <3>4. QED BY <1>16, <2>1, <3>3, ReturnKeepsTypes DEF TypeInv, TypeOK, RestoreFails, MayFail
  <2>4. QED BY <1>16, <2>2, <2>3 DEF RestoreFails
<1>17. QED
  BY <1>1, <1>2, <1>3, <1>4, <1>5, <1>6, <1>7, <1>8, <1>9, <1>10, <1>11, <1>12, <1>13,
     <1>15, <1>16 DEF Next, Progress, Failure

\* Every reachable state is well typed, and the lock is held inside a
\* transaction only.
THEOREM TypeCorrect == Spec => []TypeInv
<1>1. QED BY TypeInit, TypeStep, PTL DEF Spec

\* The type invariant TLC checks.
THEOREM TypesOK == Spec => []TypeOK
<1>1. TypeInv => TypeOK
  BY DEF TypeInv
<1>2. QED BY <1>1, TypeCorrect, PTL

-----------------------------------------------------------------------------
\* The limit holds in the database and in the transaction of the writer.
WithinLimit(jobs) == \A s \in Site : Cardinality(JobsOf(jobs, s)) <= MaxJobs

LimitInv ==
    /\ WithinLimit(cronJob)
    /\ \A r \in Request : writer = r => WithinLimit(view[r])

LEMMA JobsAreFinite ==
    ASSUME NEW jobs, NEW s
    PROVE  IsFiniteSet(JobsOf(jobs, s)) /\ Cardinality(JobsOf(jobs, s)) \in Nat
BY FS_Subset, FS_CardinalityType DEF JobsOf

\* Fewer jobs of a site are still within the limit.
LEMMA SubsetWithinLimit ==
    ASSUME NEW S, NEW T, IsFiniteSet(S), T \subseteq S, Cardinality(S) <= MaxJobs
    PROVE  Cardinality(T) <= MaxJobs
<1>1. IsFiniteSet(T) /\ Cardinality(T) <= Cardinality(S)
  BY FS_Subset
<1>2. Cardinality(S) \in Nat /\ Cardinality(T) \in Nat
  BY <1>1, FS_CardinalityType
<1>3. QED BY <1>1, <1>2

\* One job more is within a limit that was not reached.
LEMMA OneMoreWithinLimit ==
    ASSUME NEW S, NEW T, NEW x, IsFiniteSet(S), T \subseteq S \cup {x},
           Cardinality(S) < MaxJobs
    PROVE  Cardinality(T) <= MaxJobs
<1>1. IsFiniteSet(S \cup {x}) /\ Cardinality(S \cup {x}) <= Cardinality(S) + 1
  <2>1. CASE x \in S
    <3>1. S \cup {x} = S
      BY <2>1
    <3>2. Cardinality(S) \in Nat
      BY FS_CardinalityType
    <3>3. IsFiniteSet(S \cup {x}) /\ Cardinality(S \cup {x}) = Cardinality(S)
      BY Zenon, <3>1
    <3>4. QED BY <3>2, <3>3
  <2>2. CASE x \notin S
    <3>1. IsFiniteSet(S \cup {x}) /\ Cardinality(S \cup {x}) = Cardinality(S) + 1
      BY <2>2, FS_AddElement
    <3>2. Cardinality(S) \in Nat
      BY FS_CardinalityType
    <3>3. QED BY <3>1, <3>2
  <2>3. QED BY <2>1, <2>2
<1>2. Cardinality(S) \in Nat /\ Cardinality(S \cup {x}) \in Nat
  BY <1>1, FS_CardinalityType
<1>3. Cardinality(S \cup {x}) <= MaxJobs
  BY <1>1, <1>2
<1>4. QED BY <1>1, <1>3, SubsetWithinLimit

\* What the statement of a transaction does: one row, of the request's site.
LEMMA ApplyChangesOneRow ==
    ASSUME TypeInv, NEW r \in Request, Apply(r)
    PROVE  \E id \in JobId :
             /\ view'[r] = [cronJob EXCEPT ![id] = call[r].job]
             /\ call'[r] = [call[r] EXCEPT !.id = id]
             /\ \A row \in {cronJob[id], call[r].job} \ {None} : row.site = seen[r].site
             /\ call[r].op = "create" => cronJob[id] = None /\ UnderLimit(seen[r].site)
             /\ call[r].op # "create" => id \in JobsOf(cronJob, seen[r].site)
<1>1. PICK id \in Targets(r) :
        /\ call' = [call EXCEPT ![r].id = id]
        /\ view' = [view EXCEPT ![r] = [cronJob EXCEPT ![id] = call[r].job]]
  BY DEF Apply
<1>2. call[r] \in Call /\ (call[r].job # None => call[r].job.site = seen[r].site)
  BY DEF TypeInv, StageInv, Apply, Running
<1>3. id \in JobId
  BY <1>1 DEF Targets, Apply, Feasible, JobsOf
<1>4. call[r].op = "create" => cronJob[id] = None /\ UnderLimit(seen[r].site)
  BY <1>1 DEF Targets, Apply, Feasible
<1>5. call[r].op # "create" => id \in JobsOf(cronJob, seen[r].site)
  BY <1>1 DEF Targets, Apply, Feasible
<1>6. \A row \in {cronJob[id], call[r].job} \ {None} : row.site = seen[r].site
  BY <1>2, <1>4, <1>5 DEF JobsOf
<1>7. view'[r] = [cronJob EXCEPT ![id] = call[r].job]
  BY <1>1 DEF TypeInv, TypeOK
<1>8. call'[r] = [call[r] EXCEPT !.id = id]
  BY <1>1 DEF TypeInv, TypeOK
<1>9. QED BY <1>3, <1>4, <1>5, <1>6, <1>7, <1>8

LEMMA ApplyWithinLimit ==
    ASSUME TypeInv, LimitInv, NEW r \in Request, Apply(r)
    PROVE  WithinLimit(view'[r])
<1>1. PICK id \in JobId :
        /\ view'[r] = [cronJob EXCEPT ![id] = call[r].job]
        /\ \A row \in {cronJob[id], call[r].job} \ {None} : row.site = seen[r].site
        /\ call[r].op = "create" => cronJob[id] = None /\ UnderLimit(seen[r].site)
        /\ call[r].op # "create" => id \in JobsOf(cronJob, seen[r].site)
  BY ApplyChangesOneRow
<1> SUFFICES ASSUME NEW s \in Site
             PROVE  Cardinality(JobsOf(view'[r], s)) <= MaxJobs
  BY DEF WithinLimit
<1>2. cronJob \in [JobId -> Job \cup {None}]
  BY DEF TypeInv, TypeOK, Rows
<1>3. JobsOf(view'[r], s) \subseteq JobsOf(cronJob, s) \cup {id}
  BY <1>1, <1>2 DEF JobsOf
<1>4. IsFiniteSet(JobsOf(cronJob, s)) /\ Cardinality(JobsOf(cronJob, s)) <= MaxJobs
  BY JobsAreFinite DEF LimitInv, WithinLimit
<1>5. CASE call[r].op = "create" /\ s = seen[r].site
  BY <1>1, <1>3, <1>4, <1>5, OneMoreWithinLimit DEF UnderLimit
<1>6. CASE call[r].op # "create" \/ s # seen[r].site
  <2>1. JobsOf(view'[r], s) \subseteq JobsOf(cronJob, s)
    BY <1>1, <1>2, <1>6 DEF JobsOf
  <2>2. QED BY <2>1, <1>4, SubsetWithinLimit
<1>7. QED BY <1>5, <1>6

LEMMA LimitStep == TypeInv /\ LimitInv /\ [Next]_vars => LimitInv'
<1> SUFFICES ASSUME TypeInv, LimitInv, [Next]_vars PROVE LimitInv'
  OBVIOUS
<1> USE DEF Stores, Locals, Environment, History
<1>1. ASSUME NEW r \in Request, Apply(r) PROVE LimitInv'
  <2>1. WithinLimit(view'[r])
    BY <1>1, ApplyWithinLimit
  <2>2. cronJob' = cronJob /\ writer' = r
    BY <1>1 DEF Apply
  <2>3. QED BY <2>1, <2>2 DEF LimitInv, WithinLimit
<1>2. ASSUME NEW r \in Request, Commit(r) PROVE LimitInv'
  BY <1>2 DEF Commit, LimitInv, WithinLimit, TypeInv, TypeOK
<1>3. ASSUME cronJob' = cronJob,
             \A r \in Request : writer' = r => writer = r /\ view'[r] = view[r]
      PROVE  LimitInv'
  BY <1>3 DEF LimitInv, WithinLimit
<1>4. ASSUME NEW r \in Request, Return(r), cronJob' = cronJob PROVE LimitInv'
  <2>1. \A q \in Request : writer' = q => writer = q /\ view'[q] = view[q]
    BY <1>4 DEF Return, TypeInv, TypeOK
  <2>2. QED BY <1>3, <1>4, <2>1
<1>5. ASSUME NEW r \in Request,
             Conflict(r) \/ Busy(r) \/ Refuse(r) \/ WriteFails(r) \/ MetadataFails(r)
             \/ RestoreFile(r) \/ RestoreFails(r) \/ WriteMetadata(r)
      PROVE  LimitInv'
  BY <1>4, <1>5 DEF Conflict, Busy, Refuse, WriteFails, MetadataFails, RestoreFile,
     RestoreFails, WriteMetadata
<1>6. ASSUME NEW r \in Request,
             ListJobs(r) \/ Accept(r) \/ ReadFile(r) \/ WriteFile(r)
             \/ CommitFails(r) \/ CommitTooLate(r)
      PROVE  LimitInv'
  BY <1>3, <1>6 DEF ListJobs, Accept, ReadFile, WriteFile, CommitFails, CommitTooLate
<1>7. ASSUME NEW r \in Request, DeadlineExpires(r) PROVE LimitInv'
  <2>1. CASE Return(r)
    BY <1>4, <1>7, <2>1 DEF DeadlineExpires
  <2>2. CASE writer' = None /\ UNCHANGED <<pc, Locals>>
    BY <1>3, <1>7, <2>2 DEF DeadlineExpires
  <2>3. QED BY <1>7, <2>1, <2>2 DEF DeadlineExpires
<1>8. ASSUME Crash PROVE LimitInv'
  BY <1>3, <1>8 DEF Crash
<1>9. CASE UNCHANGED vars
  BY <1>3, <1>9 DEF vars
<1>10. QED
  BY <1>1, <1>2, <1>5, <1>6, <1>7, <1>8, <1>9 DEF Next, Progress, Failure

LEMMA LimitInit == Init => LimitInv
<1> SUFFICES ASSUME Init, NEW s \in Site PROVE Cardinality(JobsOf(cronJob, s)) <= MaxJobs
  BY DEF Init, LimitInv, WithinLimit
<1>1. JobsOf(cronJob, s) = {}
  BY DEF Init, JobsOf, NoRows
<1>2. QED BY <1>1, FS_EmptySet

\* Whatever fails and however requests interleave, no site has more jobs than
\* maxCronJobs: the count is made under the lock that the INSERT needs.
THEOREM JobLimitHolds == Spec => []JobLimit
<1>1. LimitInv => JobLimit
  BY DEF LimitInv, WithinLimit, JobLimit
<1>2. QED BY <1>1, LimitInit, LimitStep, TypeCorrect, PTL DEF Spec

-----------------------------------------------------------------------------
\* The file of a user has exactly the jobs of a table.
Rendered(file, jobs, u) == Lines(file) = renderCronFile(jobs, u)

\* A transaction has changed one row, of a site of its user.
ViewInv ==
    \A r \in Request : writer = r =>
        /\ view[r] = [cronJob EXCEPT ![call[r].id] = call[r].job]
        /\ \A row \in {cronJob[call[r].id], call[r].job} \ {None} : row.site = seen[r].site

LEMMA ViewStep == TypeInv /\ ViewInv /\ [Next]_vars => ViewInv'
<1> SUFFICES ASSUME TypeInv, ViewInv, [Next]_vars PROVE ViewInv'
  OBVIOUS
<1> USE DEF Stores, Locals, Environment, History
<1>1. ASSUME NEW r \in Request, Apply(r) PROVE ViewInv'
  <2>1. PICK id \in JobId :
          /\ view'[r] = [cronJob EXCEPT ![id] = call[r].job]
          /\ call'[r] = [call[r] EXCEPT !.id = id]
          /\ \A row \in {cronJob[id], call[r].job} \ {None} : row.site = seen[r].site
    BY <1>1, ApplyChangesOneRow
  <2>2. call[r] \in Call
    BY <1>1 DEF TypeInv, StageInv, Apply, Running
  <2>3. call'[r].id = id /\ call'[r].job = call[r].job
    BY <2>1, <2>2 DEF Call
  <2>4. cronJob' = cronJob /\ writer' = r /\ seen' = seen
    BY <1>1 DEF Apply
  <2>5. QED BY <2>1, <2>3, <2>4 DEF ViewInv
<1>2. ASSUME cronJob' = cronJob,
             \A r \in Request : writer' = r =>
               writer = r /\ view'[r] = view[r] /\ call'[r] = call[r] /\ seen'[r] = seen[r]
      PROVE  ViewInv'
  BY <1>2 DEF ViewInv
<1>3. ASSUME NEW r \in Request, Return(r), cronJob' = cronJob PROVE ViewInv'
  <2>1. \A q \in Request : writer' = q =>
          writer = q /\ view'[q] = view[q] /\ call'[q] = call[q] /\ seen'[q] = seen[q]
    BY <1>3 DEF Return, TypeInv, TypeOK
  <2>2. QED BY <1>2, <1>3, <2>1
<1>4. ASSUME NEW r \in Request,
             Conflict(r) \/ Busy(r) \/ Refuse(r) \/ WriteFails(r) \/ MetadataFails(r)
             \/ RestoreFile(r) \/ RestoreFails(r) \/ WriteMetadata(r)
      PROVE  ViewInv'
  BY <1>3, <1>4 DEF Conflict, Busy, Refuse, WriteFails, MetadataFails, RestoreFile,
     RestoreFails, WriteMetadata
<1>5. ASSUME NEW r \in Request, ListJobs(r) \/ Accept(r) PROVE ViewInv'
  <2>1. writer # r
    BY <1>5 DEF ListJobs, Accept, TypeInv, WriterInv, InsideTx
  <2>2. cronJob' = cronJob /\ writer' = writer /\ view' = view
        /\ \A q \in Request \ {r} : call'[q] = call[q] /\ seen'[q] = seen[q]
    BY <1>5 DEF ListJobs, Accept, TypeInv, TypeOK
  <2>3. QED BY <1>2, <2>1, <2>2
<1>6. ASSUME NEW r \in Request,
             ReadFile(r) \/ WriteFile(r) \/ CommitFails(r) \/ CommitTooLate(r)
      PROVE  ViewInv'
  BY <1>2, <1>6 DEF ReadFile, WriteFile, CommitFails, CommitTooLate
<1>7. ASSUME NEW r \in Request, DeadlineExpires(r) PROVE ViewInv'
  <2>1. CASE Return(r)
    BY <1>3, <1>7, <2>1 DEF DeadlineExpires
  <2>2. CASE writer' = None /\ UNCHANGED <<pc, Locals>>
    BY <1>2, <1>7, <2>2 DEF DeadlineExpires
  <2>3. QED BY <1>7, <2>1, <2>2 DEF DeadlineExpires
<1>8. ASSUME NEW r \in Request, Commit(r) PROVE ViewInv'
  BY <1>8 DEF Commit, ViewInv
<1>9. ASSUME Crash PROVE ViewInv'
  BY <1>2, <1>9 DEF Crash
<1>10. CASE UNCHANGED vars
  BY <1>2, <1>10 DEF vars
<1>11. QED
  BY <1>1, <1>4, <1>5, <1>6, <1>7, <1>8, <1>9, <1>10 DEF Next, Progress, Failure

LEMMA ViewInit == Init => ViewInv
BY DEF Init, ViewInv

\* Rendering depends on the jobs of the user's sites only.
LEMMA RenderOthers ==
    ASSUME NEW jobs \in Rows, NEW id \in JobId, NEW row \in Job \cup {None},
           NEW owner, NEW u, u # owner,
           \A old \in {jobs[id], row} \ {None} : UserOf[old.site] = owner
    PROVE  renderCronFile([jobs EXCEPT ![id] = row], u) = renderCronFile(jobs, u)
<1>1. \A i \in JobId : i # id => [jobs EXCEPT ![id] = row][i] = jobs[i]
  BY DEF Rows
<1>2. [jobs EXCEPT ![id] = row][id] = row
  BY DEF Rows
<1>3. QED BY <1>1, <1>2 DEF renderCronFile

\* The files of other users do not depend on what a transaction has changed.
LEMMA ViewOfOthers ==
    ASSUME TypeInv, ViewInv, NEW r \in Request, writer = r, NEW u \in User, u # UserFor(r)
    PROVE  renderCronFile(view[r], u) = renderCronFile(cronJob, u)
<1>1. /\ call[r].id \in JobId /\ call[r].job \in Job \cup {None} /\ cronJob \in Rows
  BY DEF TypeInv, TypeOK, StageInv, WriterInv, InsideTx, Running, Call
<1>2. \A row \in {cronJob[call[r].id], call[r].job} \ {None} : UserOf[row.site] = UserFor(r)
  BY DEF ViewInv, UserFor
<1>3. ASSUME NEW id \in JobId, NEW row \in Job \cup {None}, id = call[r].id, row = call[r].job
      PROVE  renderCronFile([cronJob EXCEPT ![id] = row], u) = renderCronFile(cronJob, u)
  <2>1. ASSUME NEW owner, owner = UserFor(r)
        PROVE  renderCronFile([cronJob EXCEPT ![id] = row], u) = renderCronFile(cronJob, u)
    <3>1. u # owner /\ \A old \in {cronJob[id], row} \ {None} : UserOf[old.site] = owner
      BY <1>2, <1>3, <2>1
    <3>2. QED BY <1>1, <3>1, RenderOthers
  <2>2. QED BY <2>1
<1>4. renderCronFile([cronJob EXCEPT ![call[r].id] = call[r].job], u) = renderCronFile(cronJob, u)
  BY <1>1, <1>3
<1>5. QED BY <1>4 DEF ViewInv

LEMMA RenderedLines ==
    ASSUME NEW jobs \in Rows, NEW u \in User
    PROVE  Rendered(renderCronFile(jobs, u), jobs, u)
<1>1. renderCronFile(jobs, u) # None
  BY RenderType
<1>2. QED BY <1>1 DEF Rendered, Lines

LEMMA UserForType ==
    ASSUME TypeInv, NEW r \in Request, pc[r] # "idle"
    PROVE  UserFor(r) \in User
BY DEF TypeInv, StageInv, Seen, UserFor

\* Requests that have read a user's file and may still change it.
Opened(u) == {r \in Request : pc[r] \in Window /\ UserFor(r) = u}

\* At most one request is at the file of a user that is not crossed: what it has
\* written is what its transaction sees, what it remembers is what is committed, and
\* that is in the file while nobody is rewriting it.
Kept(u) ==
    /\ Rewriting(u) = {} => Rendered(cronFile[u], cronJob, u)
    /\ \A r \in Opened(u) : Rendered(previous[r], cronJob, u)

Synced(u) ==
    u \notin crossed =>
      /\ \A q, r \in Opened(u) : q = r
      /\ \A r \in Opened(u) : pc[r] = "written" /\ writer = r => Rendered(cronFile[u], view[r], u)
      /\ u \notin torn => Kept(u)

SyncInv == \A u \in User : Synced(u)

LEMMA SyncInit == Init => SyncInv
<1> SUFFICES ASSUME Init, NEW u \in User PROVE Synced(u)
  BY DEF SyncInv
<1>1. Opened(u) = {}
  BY DEF Init, Opened, Window
<1>2. Rendered(cronFile[u], cronJob, u)
  BY DEF Init, Rendered, Lines, renderCronFile, NoRows
<1>3. QED BY <1>1, <1>2 DEF Synced, Kept

\* A step that neither changes a user's file nor what is to be in it, and brings
\* nobody to it.
LEMMA Apart ==
    ASSUME NEW u \in User, Synced(u), crossed \subseteq crossed', u \in torn => u \in torn',
           u \notin torn' => (Rewriting(u)' = {} => Rewriting(u) = {}),
           cronFile'[u] = cronFile[u], renderCronFile(cronJob', u) = renderCronFile(cronJob, u),
           \A q \in Opened(u)' :
             /\ q \in Opened(u) /\ previous'[q] = previous[q]
             /\ pc'[q] = "written" /\ writer' = q =>
                  pc[q] = "written" /\ writer = q /\ view'[q] = view[q]
    PROVE  Synced(u)'
<1> SUFFICES ASSUME u \notin crossed' PROVE Synced(u)'
  BY DEF Synced
<1>1. /\ \A q, r \in Opened(u) : q = r
      /\ \A r \in Opened(u) : pc[r] = "written" /\ writer = r => Rendered(cronFile[u], view[r], u)
      /\ u \notin torn => Kept(u)
  BY DEF Synced
<1>2. \A q, r \in Opened(u)' : q = r
  BY <1>1
<1>3. ASSUME NEW r \in Opened(u)', pc'[r] = "written", writer' = r
      PROVE  Rendered(cronFile[u], view[r], u)'
  <2>1. Rendered(cronFile[u], view[r], u)
    BY <1>1, <1>3
  <2>2. QED BY <1>3, <2>1 DEF Rendered, Lines, renderCronFile
<1>4. ASSUME u \notin torn' PROVE Kept(u)'
  <2>1. Kept(u)
    BY <1>1, <1>4
  <2>2. Rewriting(u)' = {} => Rendered(cronFile[u], cronJob, u)'
    BY <1>4, <2>1 DEF Kept, Rendered, Lines
  <2>3. \A r \in Opened(u)' : Rendered(previous[r], cronJob, u)'
    BY <2>1 DEF Kept, Rendered, Lines
  <2>4. QED BY <2>2, <2>3 DEF Kept
<1>5. QED BY <1>2, <1>3, <1>4 DEF Synced

\* Each step at a file keeps it in sync, and so do the steps elsewhere.
LEMMA ReadFileSync ==
    ASSUME TypeInv, SyncInv, NEW r \in Request, ReadFile(r), NEW u \in User PROVE Synced(u)'
<1>1. /\ pc[r] = "applied" /\ pc'[r] = "rendered" /\ previous'[r] = cronFile[UserFor(r)]
      /\ \A q \in Request \ {r} : pc'[q] = pc[q] /\ previous'[q] = previous[q]
      /\ UNCHANGED <<cronJob, cronFile, writer, seen, view, torn>>
      /\ crossed' = IF Meets(r) THEN crossed \cup {UserFor(r)} ELSE crossed
  BY DEF ReadFile, Goto, TypeInv, TypeOK, Stores
<1>2. Synced(u) /\ Rewriting(u)' = Rewriting(u)
  BY <1>1 DEF SyncInv, Rewriting, UserFor
<1>3. CASE u # UserFor(r)
  <2>1. \A q \in Opened(u)' : q \in Opened(u) /\ q # r
    BY <1>1, <1>3 DEF Opened, UserFor
  <2>2. QED BY <1>1, <1>2, <2>1, Apart DEF Opened
<1>4. CASE u = UserFor(r) /\ Meets(r)
  BY <1>1, <1>4 DEF Synced
<1>5. CASE u = UserFor(r) /\ ~Meets(r)
  <2>1. Opened(u)' = {r} /\ Rewriting(u) = {}
    BY <1>1, <1>5 DEF Meets, Opened, Window, Rewriting, UserFor
  <2>2. u \notin torn /\ u \notin crossed => Rendered(cronFile[u], cronJob, u)
    BY <1>2, <2>1 DEF Synced, Kept
  <2>3. u \notin torn' /\ u \notin crossed' => Kept(u)'
    BY <1>1, <1>5, <2>1, <2>2 DEF Kept, Rendered, Lines
  <2>4. QED BY <1>1, <2>1, <2>3 DEF Synced
<1>6. QED BY <1>3, <1>4, <1>5

LEMMA WriteFileSync ==
    ASSUME TypeInv, SyncInv, NEW r \in Request, WriteFile(r), NEW u \in User PROVE Synced(u)'
<1> DEFINE owner == UserFor(r)
<1>1. owner \in User /\ view[r] \in Rows /\ pc[r] = "rendered"
  BY UserForType DEF WriteFile, TypeInv, TypeOK
<1>2. /\ pc'[r] = "written" /\ \A q \in Request \ {r} : pc'[q] = pc[q]
      /\ cronFile'[owner] = renderCronFile(view[r], owner)
      /\ \A v \in User \ {owner} : cronFile'[v] = cronFile[v]
      /\ UNCHANGED <<cronJob, writer, seen, view, previous, torn, crossed>>
  BY <1>1 DEF WriteFile, Goto, TypeInv, TypeOK, Locals, Environment, History
<1>3. Opened(u)' = Opened(u) /\ Synced(u)
  BY <1>1, <1>2 DEF Opened, Window, UserFor, SyncInv
<1>4. CASE u # owner
  <2>1. r \notin Opened(u) /\ Rewriting(u)' = Rewriting(u)
    BY <1>2, <1>4 DEF Opened, Rewriting, UserFor
  <2>2. QED BY <1>2, <1>3, <1>4, <2>1, Apart DEF Opened
<1>5. CASE u = owner /\ u \notin crossed
  <2>1. r \in Opened(u) /\ r \in Rewriting(u)'
    BY <1>1, <1>2, <1>5 DEF Opened, Window, Rewriting, UserFor
  <2>2. \A q \in Opened(u) : q = r
    BY <1>3, <1>5, <2>1 DEF Synced
  <2>3. Rendered(cronFile'[u], view[r], u)
    BY <1>1, <1>2, <1>5, RenderedLines
  <2>4. u \notin torn => Kept(u)'
    BY <1>2, <1>3, <1>5, <2>1 DEF Synced, Kept, Rendered, Lines
  <2>5. QED BY <1>2, <1>3, <2>2, <2>3, <2>4 DEF Synced, Rendered, Lines
<1>6. CASE u \in crossed
  BY <1>2, <1>6 DEF Synced
<1>7. QED BY <1>4, <1>5, <1>6

\* A request that ends its work at a user's file leaves nobody there.
LEMMA Leaves ==
    ASSUME TypeInv, SyncInv, NEW r \in Request, pc[r] \in Window, pc'[r] \notin Window,
           \A q \in Request \ {r} : pc'[q] = pc[q] /\ seen'[q] = seen[q],
           NEW u, u = UserFor(r), u \notin crossed
    PROVE  Opened(u)' = {} /\ Rewriting(u)' = {}
<1>1. u \in User
  BY UserForType DEF Window
<1>2. \A q \in Opened(u) : q = r
  BY <1>1 DEF SyncInv, Synced, Opened
<1>3. \A q \in Request \ {r} : UserFor(q)' = UserFor(q)
  BY DEF UserFor
<1>4. ASSUME NEW q \in Request, pc'[q] \in Window PROVE UserFor(q)' # u
  BY <1>2, <1>3, <1>4 DEF Opened
<1>5. \A q \in Request : pc'[q] \in {"written", "restoring"} => pc'[q] \in Window
  BY DEF Window
<1>6. QED
  BY <1>4, <1>5 DEF Opened, Rewriting

LEMMA CommitSync ==
    ASSUME TypeInv, ViewInv, SyncInv, NEW r \in Request, Commit(r), NEW u \in User PROVE Synced(u)'
<1> DEFINE owner == UserFor(r)
<1>1. /\ writer = r /\ pc[r] = "written" /\ pc'[r] = "committed"
      /\ \A q \in Request \ {r} : pc'[q] = pc[q]
      /\ cronJob' = view[r] /\ writer' = None /\ torn' = torn \ {owner}
      /\ \A q \in Request \ {r} : previous'[q] = previous[q] /\ view'[q] = view[q]
      /\ UNCHANGED <<cronFile, seen, crossed>>
  BY DEF Commit, Goto, TypeInv, TypeOK, Locals
<1>2. Synced(u)
  BY DEF SyncInv
<1>3. CASE u # owner
  <2>1. renderCronFile(cronJob', u) = renderCronFile(cronJob, u)
    BY <1>1, <1>3, ViewOfOthers
  <2>2. Opened(u)' = Opened(u) /\ Rewriting(u)' = Rewriting(u)
    BY <1>1, <1>3 DEF Opened, Window, Rewriting, UserFor
  <2>3. QED BY <1>1, <1>2, <1>3, <2>1, <2>2, Apart DEF Opened
<1>4. CASE u = owner /\ u \notin crossed
  <2>1. Opened(u)' = {}
    BY <1>1, <1>4, Leaves DEF Window
  <2>2. Rendered(cronFile[u], view[r], u)
    BY <1>1, <1>2, <1>4 DEF Synced, Opened, Window
  <2>3. Rendered(cronFile[u], cronJob, u)'
    BY <1>1, <2>2 DEF Rendered, Lines
  <2>4. QED BY <2>1, <2>3 DEF Synced, Kept
<1>5. CASE u \in crossed
  BY <1>1, <1>5 DEF Synced
<1>6. QED BY <1>3, <1>4, <1>5

LEMMA RestoreSync ==
    ASSUME TypeInv, SyncInv, NEW r \in Request, RestoreFile(r), NEW u \in User PROVE Synced(u)'
<1> DEFINE owner == UserFor(r)
<1>1. pc[r] = "restoring" /\ owner \in User
  BY UserForType DEF RestoreFile
<1>2. /\ pc'[r] = "idle" /\ writer' # r
      /\ \A q \in Request \ {r} : /\ pc'[q] = pc[q] /\ seen'[q] = seen[q] /\ view'[q] = view[q]
                                  /\ previous'[q] = previous[q]
                                  /\ writer' = q => writer = q
      /\ cronFile'[owner] = previous[r]
      /\ \A v \in User \ {owner} : cronFile'[v] = cronFile[v]
      /\ UNCHANGED <<cronJob, torn, crossed>>
  BY <1>1 DEF RestoreFile, Return, Goto, TypeInv, TypeOK, Environment, History
<1>3. Synced(u)
  BY DEF SyncInv
<1>4. CASE u # owner
  <2>1. \A q \in Opened(u)' : q \in Opened(u) /\ q # r
    BY <1>2, <1>4 DEF Opened, Window, UserFor
  <2>2. Rewriting(u)' = {} => Rewriting(u) = {}
    BY <1>2, <1>4 DEF Rewriting, UserFor
  <2>3. QED BY <1>2, <1>3, <1>4, <2>1, <2>2, Apart DEF Opened
<1>5. CASE u = owner /\ u \notin crossed
  <2>1. Opened(u)' = {}
    BY <1>1, <1>2, <1>5, Leaves DEF Window
  <2>2. u \notin torn => Rendered(previous[r], cronJob, u)
    BY <1>1, <1>3, <1>5 DEF Synced, Kept, Opened, Window
  <2>3. u \notin torn => Rendered(cronFile[u], cronJob, u)'
    BY <1>2, <1>5, <2>2 DEF Rendered, Lines
  <2>4. QED BY <1>2, <2>1, <2>3 DEF Synced, Kept
<1>6. CASE u \in crossed
  BY <1>2, <1>6 DEF Synced
<1>7. QED BY <1>4, <1>5, <1>6

LEMMA RestoreFailsSync ==
    ASSUME TypeInv, SyncInv, NEW r \in Request, RestoreFails(r), NEW u \in User PROVE Synced(u)'
<1> DEFINE owner == UserFor(r)
<1>1. pc[r] = "restoring" /\ owner \in User
  BY UserForType DEF RestoreFails
<1>2. /\ pc'[r] = "idle" /\ writer' # r
      /\ \A q \in Request \ {r} : /\ pc'[q] = pc[q] /\ seen'[q] = seen[q] /\ view'[q] = view[q]
                                  /\ previous'[q] = previous[q]
                                  /\ writer' = q => writer = q
      /\ torn' = torn \cup {owner}
      /\ UNCHANGED <<cronJob, crossed>>
  BY <1>1 DEF RestoreFails, Return, Goto, TypeInv, TypeOK
<1>3. \A v \in User \ {owner} : cronFile'[v] = cronFile[v]
  BY <1>1 DEF RestoreFails, TypeInv, TypeOK
<1>4. CASE u # owner
  <2>1. \A q \in Opened(u)' : q \in Opened(u) /\ q # r
    BY <1>2, <1>4 DEF Opened, Window, UserFor
  <2>2. Rewriting(u)' = {} => Rewriting(u) = {}
    BY <1>2, <1>4 DEF Rewriting, UserFor
  <2>3. Synced(u)
    BY DEF SyncInv
  <2>4. QED BY <1>2, <1>3, <1>4, <2>1, <2>2, <2>3, Apart DEF Opened
<1>5. CASE u = owner /\ u \notin crossed
  <2>1. Opened(u)' = {}
    BY <1>1, <1>2, <1>5, Leaves DEF Window
  <2>2. QED BY <1>2, <1>5, <2>1 DEF Synced
<1>6. CASE u \in crossed
  BY <1>2, <1>6 DEF Synced
<1>7. QED BY <1>4, <1>5, <1>6

\* A request outside every file, before or after the step, leaves the files alone.
LEMMA ElsewhereSync ==
    ASSUME TypeInv, SyncInv, NEW r \in Request, NEW u \in User,
           UNCHANGED <<cronJob, cronFile, torn, crossed>>,
           pc[r] \notin {"written", "restoring"}, pc'[r] \notin Window,
           \A q \in Request \ {r} : /\ pc'[q] = pc[q] /\ seen'[q] = seen[q] /\ view'[q] = view[q]
                                    /\ previous'[q] = previous[q]
                                    /\ writer' = q => writer = q
    PROVE  Synced(u)'
<1>1. \A q \in Opened(u)' : q \in Opened(u) /\ q # r
  BY DEF Opened, UserFor
<1>2. Rewriting(u)' = {} => Rewriting(u) = {}
  BY DEF Rewriting, UserFor, Window
<1>3. Synced(u)
  BY DEF SyncInv
<1>4. QED BY <1>1, <1>2, <1>3, Apart DEF Opened

LEMMA SyncStep == TypeInv /\ ViewInv /\ SyncInv /\ [Next]_vars => SyncInv'
<1> SUFFICES ASSUME TypeInv, ViewInv, SyncInv, [Next]_vars, NEW u \in User PROVE Synced(u)'
  BY DEF SyncInv
<1> USE DEF Stores, Locals, Environment, History
<1>1. ASSUME NEW r \in Request, ListJobs(r) \/ Accept(r) \/ Apply(r) PROVE Synced(u)'
  BY <1>1, ElsewhereSync DEF ListJobs, Accept, Apply, Goto, TypeInv, TypeOK, Window
<1>2. ASSUME NEW r \in Request,
             \/ Conflict(r) \/ Busy(r) \/ Refuse(r) \/ WriteFails(r)
             \/ WriteMetadata(r) \/ MetadataFails(r)
      PROVE  Synced(u)'
  <2>1. /\ Return(r) /\ UNCHANGED <<cronJob, cronFile, torn, crossed>>
        /\ pc[r] \notin {"written", "restoring"}
    BY <1>2 DEF Conflict, Busy, Refuse, WriteFails, WriteMetadata, MetadataFails
  <2>2. QED BY <2>1, ElsewhereSync DEF Return, Goto, TypeInv, TypeOK, Window
<1>3. ASSUME NEW r \in Request, CommitFails(r) \/ CommitTooLate(r) \/ DeadlineExpires(r)
      PROVE  Synced(u)'
  <2>0. CASE DeadlineExpires(r) /\ Return(r)
    <3>1. UNCHANGED <<cronJob, cronFile, torn, crossed>> /\ pc[r] \notin {"written", "restoring"}
      BY <1>3, <2>0 DEF DeadlineExpires, Return, Goto, TypeInv, TypeOK
    <3>2. QED BY <2>0, <3>1, ElsewhereSync DEF Return, Goto, TypeInv, TypeOK, Window
  <2> SUFFICES ASSUME ~(DeadlineExpires(r) /\ Return(r)) PROVE Synced(u)'
    BY <2>0
  <2>1. /\ pc' = pc \/ (pc[r] = "written" /\ pc' = [pc EXCEPT ![r] = "restoring"])
        /\ UNCHANGED <<cronJob, cronFile, torn, crossed, seen, view, previous>>
        /\ writer' = writer \/ writer' = None
    BY <1>3 DEF CommitFails, CommitTooLate, DeadlineExpires, Goto
  <2>2. Opened(u)' = Opened(u) /\ Rewriting(u)' = Rewriting(u)
        /\ \A q \in Request : pc'[q] = "written" => pc[q] = "written"
    BY <2>1 DEF Opened, Rewriting, Window, UserFor, TypeInv, TypeOK
  <2>3. \A q \in Request : writer' = q => writer = q
    BY <2>1
  <2>4. Synced(u)
    BY DEF SyncInv
  <2>5. QED BY <2>1, <2>2, <2>3, <2>4, Apart DEF Opened
<1>4. ASSUME NEW r \in Request,
             ReadFile(r) \/ WriteFile(r) \/ Commit(r) \/ RestoreFile(r) \/ RestoreFails(r)
      PROVE  Synced(u)'
  BY <1>4, ReadFileSync, WriteFileSync, CommitSync, RestoreSync, RestoreFailsSync
<1>5. CASE Crash
  <2>1. Opened(u)' = {}
    BY <1>5 DEF Crash, Opened, Window
  <2>2. u \notin torn' => u \notin torn /\ Rewriting(u) = {}
    BY <1>5 DEF Crash, Rewriting
  <2>3. UNCHANGED <<cronJob, cronFile, crossed>> /\ Synced(u)
    BY <1>5 DEF Crash, SyncInv
  <2>4. QED BY <2>1, <2>2, <2>3, Apart
<1>6. CASE UNCHANGED vars
  <2>1. UNCHANGED <<cronJob, cronFile, torn, crossed, pc, seen, view, previous, writer>>
    BY <1>6 DEF vars
  <2>2. Opened(u)' = Opened(u) /\ Rewriting(u)' = Rewriting(u) /\ Synced(u)
    BY <2>1 DEF Opened, Rewriting, UserFor, SyncInv
  <2>3. QED BY <2>1, <2>2, Apart
<1>7. QED
  BY <1>1, <1>2, <1>3, <1>4, <1>5, <1>6 DEF Next, Progress, Failure

\* However requests interleave and whatever fails, deadlines included, the file of a
\* user is the one its committed jobs describe whenever nobody is rewriting it; but
\* for a user whose writer died or could not put the file back, until the next
\* commit, and one whose file a request went on with after its deadline while
\* another was at it.
THEOREM FileFollowsDatabase == Spec => []FileMatchesDatabase
<1>1. SyncInv => FileMatchesDatabase
  BY DEF SyncInv, Synced, Kept, Rendered, FileMatchesDatabase
<1>2. QED BY <1>1, SyncInit, SyncStep, ViewInit, ViewStep, TypeCorrect, PTL DEF Spec

-----------------------------------------------------------------------------
\* Undisturbed, with nobody between a rename and its outcome, the files are in sync.
LEMMA InSync ==
    ASSUME SyncInv, torn = {}, crossed = {}, \A u \in User : Rewriting(u) = {}
    PROVE  Stored = Shown
BY DEF SyncInv, Synced, Kept, Rendered, Stored, Shown

LEMMA WriteFileShows ==
    ASSUME TypeInv, SyncInv, Undisturbed, Undisturbed', NEW r \in Request, WriteFile(r)
    PROVE  Implements!Show(UserFor(r))
<1> DEFINE owner == UserFor(r)
<1>1. /\ pc[r] = "rendered" /\ pc'[r] = "written" /\ writer' = writer
      /\ \A q \in Request \ {r} : pc'[q] = pc[q]
  BY DEF WriteFile, Goto, TypeInv, TypeOK
<1>2. \A q \in Request : pc[q] \notin {"written", "restoring"}
  BY <1>1 DEF Undisturbed, Late
<1>3. Stored = Shown
  BY <1>2, InSync DEF Rewriting, Undisturbed
<1>4. owner \in User /\ view[r] \in Rows
  BY <1>1, UserForType DEF TypeInv, TypeOK
<1>5. renderCronFile(view[r], owner) \in [JobId -> Line \cup {None}]
  BY <1>4, RenderType
<1>6. Lines(renderCronFile(view[r], owner)) = renderCronFile(view[r], owner)
  BY <1>5 DEF Lines
<1>7. cronFile' = [cronFile EXCEPT ![owner] = renderCronFile(view[r], owner)]
  BY DEF WriteFile
<1>8. Shown' = [Shown EXCEPT ![owner] = renderCronFile(view[r], owner)]
  BY <1>4, <1>6, <1>7 DEF Shown, TypeInv, TypeOK, Lines
<1>9. Stored' = Stored
  BY DEF WriteFile, Locals, Stored, renderCronFile
<1>10. QED BY <1>3, <1>5, <1>8, <1>9 DEF Implements!Show

LEMMA OutcomeInSync ==
    ASSUME TypeInv, SyncInv', Undisturbed, Undisturbed', NEW r \in Request,
           Commit(r) \/ RestoreFile(r)
    PROVE  Stored' = Shown'
<1>1. /\ pc[r] \in {"written", "restoring"} /\ pc'[r] \notin {"written", "restoring"}
      /\ \A q \in Request \ {r} : pc'[q] = pc[q]
  BY DEF Commit, RestoreFile, Return, Goto, TypeInv, TypeOK
<1>2. \A q \in Request \ {r} : pc[q] \notin {"written", "restoring"}
  BY <1>1 DEF Undisturbed, Late
<1>3. \A u \in User : Rewriting(u)' = {}
  BY <1>1, <1>2 DEF Rewriting
<1>4. \A u \in User : Lines(cronFile'[u]) = renderCronFile(cronJob', u)
  BY <1>3 DEF SyncInv, Synced, Kept, Rendered, Undisturbed, Lines, renderCronFile
<1>5. QED BY <1>4 DEF Stored, Shown, Lines, renderCronFile

LEMMA RefinementStep ==
    TypeInv /\ SyncInv /\ SyncInv' /\ [Next]_vars =>
      [Undisturbed /\ Undisturbed' => Implements!Next]_(Implements!vars)
<1> SUFFICES ASSUME TypeInv, SyncInv, SyncInv', [Next]_vars, Undisturbed, Undisturbed'
             PROVE  Implements!Next \/ UNCHANGED Implements!vars
  OBVIOUS
<1>1. ASSUME NEW r \in Request, WriteFile(r) PROVE Implements!Next
  <2>1. UserFor(r) \in User
    BY <1>1, UserForType DEF WriteFile
  <2>2. QED BY <1>1, <2>1, WriteFileShows DEF Implements!Next
<1>2. ASSUME NEW r \in Request, Commit(r) PROVE Implements!Keep
  <2>1. Stored' = Shown'
    BY <1>2, OutcomeInSync
  <2>2. Shown' = Shown
    BY <1>2 DEF Commit, Shown, Lines
  <2>3. QED BY <2>1, <2>2 DEF Implements!Keep
<1>3. ASSUME NEW r \in Request, RestoreFile(r) PROVE Implements!Undo
  <2>1. Stored' = Shown'
    BY <1>3, OutcomeInSync
  <2>2. Stored' = Stored
    BY <1>3 DEF RestoreFile, Stored, renderCronFile
  <2>3. QED BY <2>1, <2>2 DEF Implements!Undo
<1>4. ASSUME NEW r \in Request, RestoreFails(r) PROVE FALSE
  BY <1>4 DEF RestoreFails, Undisturbed
<1>5. ASSUME UNCHANGED <<cronJob, cronFile>> PROVE UNCHANGED Implements!vars
  BY <1>5 DEF Implements!vars, Stored, Shown, Lines, renderCronFile
<1>6. ASSUME NEW r \in Request,
             \/ ListJobs(r) \/ Accept(r) \/ Conflict(r) \/ Busy(r) \/ Apply(r) \/ Refuse(r)
             \/ ReadFile(r) \/ CommitTooLate(r) \/ WriteMetadata(r)
             \/ WriteFails(r) \/ CommitFails(r) \/ MetadataFails(r) \/ DeadlineExpires(r)
      PROVE  UNCHANGED <<cronJob, cronFile>>
  BY <1>6 DEF Stores, Locals, ListJobs, Accept, Conflict, Busy, Apply, Refuse, ReadFile,
     CommitTooLate, WriteMetadata, WriteFails, CommitFails, MetadataFails, DeadlineExpires
<1>7. ASSUME Crash \/ UNCHANGED vars PROVE UNCHANGED <<cronJob, cronFile>>
  BY <1>7 DEF Crash, Stores, vars
<1>8. QED
  BY <1>1, <1>2, <1>3, <1>4, <1>5, <1>6, <1>7 DEF Next, Progress, Failure, Implements!Next

LEMMA RefinementInit == Init => Implements!Init
<1> SUFFICES ASSUME Init PROVE Implements!Init
  OBVIOUS
<1>1. SyncInv /\ TypeInv
  BY SyncInit, TypeInit
<1>2. Stored = Shown
  BY <1>1, InSync DEF Init, Rewriting
<1>3. Stored \in [User -> [JobId -> Line \cup {None}]]
  BY <1>1, RenderType DEF Stored, TypeInv, TypeOK
<1>4. QED BY <1>2, <1>3 DEF Implements!Init

\* executeCron implements the write-through specification, whatever fails and however
\* requests interleave: the rename of a file is followed by its commit or its restoration
\* before any other file of /etc/cron.d changes, unless a file was left torn or crossed
\* or a request has gone on after its deadline beside another.
THEOREM CronWritesThrough == Spec => WritesThrough
<1>1. QED
  BY SyncInit, SyncStep, ViewInit, ViewStep, RefinementInit, RefinementStep, TypeCorrect, PTL
     DEF Spec, WritesThrough

-----------------------------------------------------------------------------
\* The label of a listed job, as the job has it.
Shows(id) == cronJob[id] # None =>
    metadata[id] = [site |-> cronJob[id].site, cmd |-> cronJob[id].cmd]

\* What a request has committed and is about to label.
Applied(r) == cronJob[call[r].id] = call[r].job

\* A job that is not mislabelled is labelled by at most one request at a time, which
\* has what the row says; without one its label is right.
LabelInv ==
    \A id \in JobId \ mislabelled :
        /\ \A q, r \in Labelling(id) : q = r
        /\ \A r \in Labelling(id) : Applied(r)
        /\ Labelling(id) = {} => Shows(id)

\* A step that neither changes a job nor its label nor who labels it.
LEMMA OtherJob ==
    ASSUME NEW id \in JobId \ mislabelled', id \notin mislabelled, LabelInv,
           cronJob'[id] = cronJob[id], metadata'[id] = metadata[id],
           Labelling(id)' = Labelling(id), \A r \in Labelling(id) : call'[r] = call[r]
    PROVE  /\ \A q, r \in Labelling(id)' : q = r
           /\ \A r \in Labelling(id)' : Applied(r)'
           /\ Labelling(id)' = {} => Shows(id)'
<1>1. \A r \in Labelling(id) : call[r].id = id
  BY DEF Labelling
<1>2. \A r \in Labelling(id) : Applied(r) => Applied(r)'
  BY <1>1 DEF Applied
<1>3. Shows(id) => Shows(id)'
  BY DEF Shows
<1>4. QED BY <1>2, <1>3 DEF LabelInv

\* A step of a request that commits and labels nothing.
LEMMA SilentLabels ==
    ASSUME LabelInv, NEW r \in Request, UNCHANGED <<cronJob, metadata>>,
           mislabelled \subseteq mislabelled',
           pc[r] # "committed", pc'[r] # "committed",
           \A q \in Request \ {r} : pc'[q] = pc[q] /\ call'[q] = call[q]
    PROVE  LabelInv'
<1> SUFFICES ASSUME NEW id \in JobId \ mislabelled'
             PROVE  /\ \A q, p \in Labelling(id)' : q = p
                    /\ \A q \in Labelling(id)' : Applied(q)'
                    /\ Labelling(id)' = {} => Shows(id)'
  BY DEF LabelInv
<1>1. Labelling(id)' = Labelling(id) /\ \A q \in Labelling(id) : call'[q] = call[q]
  BY DEF Labelling
<1>2. QED BY <1>1, OtherJob

LEMMA CommitLabels ==
    ASSUME TypeInv, ViewInv, LabelInv, NEW r \in Request, Commit(r) PROVE LabelInv'
<1>1. /\ pc[r] = "written" /\ pc'[r] = "committed" /\ call' = call /\ metadata' = metadata
      /\ \A q \in Request \ {r} : pc'[q] = pc[q]
      /\ cronJob' = [cronJob EXCEPT ![call[r].id] = call[r].job]
      /\ call[r].id \in JobId /\ cronJob \in Rows
  BY DEF Commit, Goto, TypeInv, TypeOK, Locals, ViewInv, StageInv, InsideTx
<1>2. /\ \A id \in JobId : cronJob'[id] = IF id = call[r].id THEN call[r].job ELSE cronJob[id]
      /\ mislabelled' = IF Labelling(call[r].id) = {} THEN mislabelled \ {call[r].id}
                                                     ELSE mislabelled \cup {call[r].id}
  BY <1>1 DEF Rows, Commit
<1> SUFFICES ASSUME NEW id \in JobId \ mislabelled'
             PROVE  /\ \A q, p \in Labelling(id)' : q = p
                    /\ \A q \in Labelling(id)' : Applied(q)'
                    /\ Labelling(id)' = {} => Shows(id)'
  BY DEF LabelInv
<1>3. CASE id = call[r].id
  <2>1. Labelling(id) = {}
    BY <1>2, <1>3
  <2>2. Labelling(id)' = {r}
    BY <1>1, <1>3, <2>1 DEF Labelling
  <2>3. Applied(r)'
    BY <1>1, <1>2 DEF Applied
  <2>4. QED BY <2>2, <2>3
<1>4. CASE id # call[r].id
  <2>1. id \notin mislabelled
    BY <1>2, <1>4
  <2>2. Labelling(id)' = Labelling(id)
    BY <1>1, <1>4 DEF Labelling
  <2>3. QED BY <1>1, <1>2, <1>4, <2>1, <2>2, OtherJob
<1>5. QED BY <1>3, <1>4

LEMMA MetadataLabels ==
    ASSUME TypeInv, LabelInv, NEW r \in Request, WriteMetadata(r) PROVE LabelInv'
<1>1. /\ pc[r] = "committed" /\ pc'[r] = "idle" /\ cronJob' = cronJob
      /\ mislabelled' = mislabelled
      /\ \A q \in Request \ {r} : pc'[q] = pc[q] /\ call'[q] = call[q]
      /\ call[r] \in Call /\ call[r].id \in JobId
      /\ \A id \in JobId : metadata'[id] = IF id = call[r].id THEN LabelFor(r) ELSE metadata[id]
  BY DEF WriteMetadata, Return, Goto, Running, TypeInv, TypeOK, StageInv, Environment, History
<1> SUFFICES ASSUME NEW id \in JobId \ mislabelled
             PROVE  /\ \A q, p \in Labelling(id)' : q = p
                    /\ \A q \in Labelling(id)' : Applied(q)'
                    /\ Labelling(id)' = {} => Shows(id)'
  BY <1>1 DEF LabelInv
<1>2. CASE id = call[r].id
  <2>1. Applied(r) /\ Labelling(id) = {r}
    BY <1>1, <1>2 DEF LabelInv, Labelling
  <2>2. Labelling(id)' = {}
    BY <1>1, <2>1 DEF Labelling
  <2>3. cronJob[id] # None => call[r].op # "delete" /\ call[r].job.site = seen[r].site
    <3>1. cronJob[id] = call[r].job
      BY <1>2, <2>1 DEF Applied
    <3>2. /\ call[r].op = "delete" => call[r].job = None
          /\ call[r].job # None => call[r].job.site = seen[r].site
      BY <1>1 DEF TypeInv, StageInv, Running
    <3>3. QED BY <3>1, <3>2
  <2>4. Shows(id)'
    BY <1>1, <1>2, <2>1, <2>3 DEF Shows, LabelFor, Applied
  <2>5. QED BY <2>2, <2>4
<1>3. CASE id # call[r].id
  <2>1. Labelling(id)' = Labelling(id)
    BY <1>1, <1>3 DEF Labelling
  <2>2. \A q \in Labelling(id) : call'[q] = call[q]
    BY <1>1, <1>3 DEF Labelling
  <2>3. QED BY <1>1, <1>3, <2>1, <2>2, OtherJob
<1>4. QED BY <1>2, <1>3

LEMMA MetadataFailsLabels ==
    ASSUME TypeInv, LabelInv, NEW r \in Request, MetadataFails(r) PROVE LabelInv'
<1>1. /\ pc[r] = "committed" /\ pc'[r] = "idle" /\ UNCHANGED <<cronJob, metadata>>
      /\ mislabelled' = mislabelled \cup {call[r].id}
      /\ \A q \in Request \ {r} : pc'[q] = pc[q] /\ call'[q] = call[q]
  BY DEF MetadataFails, Return, Goto, TypeInv, TypeOK, Stores
<1> SUFFICES ASSUME NEW id \in JobId \ mislabelled'
             PROVE  /\ \A q, p \in Labelling(id)' : q = p
                    /\ \A q \in Labelling(id)' : Applied(q)'
                    /\ Labelling(id)' = {} => Shows(id)'
  BY DEF LabelInv
<1>2. Labelling(id)' = Labelling(id) /\ \A q \in Labelling(id) : call'[q] = call[q]
  BY <1>1 DEF Labelling
<1>3. QED BY <1>1, <1>2, OtherJob

LEMMA LabelStep == TypeInv /\ ViewInv /\ LabelInv /\ [Next]_vars => LabelInv'
<1> SUFFICES ASSUME TypeInv, ViewInv, LabelInv, [Next]_vars PROVE LabelInv'
  OBVIOUS
<1> USE DEF Stores, Locals, Environment, History
<1>1. ASSUME NEW r \in Request,
             \/ ListJobs(r) \/ Accept(r) \/ Apply(r) \/ ReadFile(r) \/ WriteFile(r)
             \/ CommitFails(r) \/ CommitTooLate(r)
      PROVE  LabelInv'
  BY <1>1, SilentLabels DEF ListJobs, Accept, Apply, ReadFile, WriteFile, CommitFails,
     CommitTooLate, Goto, TypeInv, TypeOK
<1>2. ASSUME NEW r \in Request,
             \/ Conflict(r) \/ Busy(r) \/ Refuse(r) \/ WriteFails(r)
             \/ RestoreFile(r) \/ RestoreFails(r)
      PROVE  LabelInv'
  <2>1. /\ Return(r) /\ UNCHANGED <<cronJob, metadata, mislabelled>> /\ pc[r] # "committed"
    BY <1>2 DEF Conflict, Busy, Refuse, WriteFails, RestoreFile, RestoreFails
  <2>2. QED BY <2>1, SilentLabels DEF Return, Goto, TypeInv, TypeOK
<1>3. ASSUME NEW r \in Request, DeadlineExpires(r) PROVE LabelInv'
  <2>1. /\ pc' = pc \/ pc' = [pc EXCEPT ![r] = "idle"]
        /\ call' = call \/ call' = [call EXCEPT ![r] = None]
        /\ UNCHANGED <<cronJob, metadata, mislabelled>> /\ pc[r] # "committed"
    BY <1>3 DEF DeadlineExpires, Return, Goto
  <2>2. QED BY <2>1, SilentLabels DEF TypeInv, TypeOK
<1>4. ASSUME NEW r \in Request, Commit(r) \/ WriteMetadata(r) \/ MetadataFails(r)
      PROVE  LabelInv'
  BY <1>4, CommitLabels, MetadataLabels, MetadataFailsLabels
<1>5. ASSUME Crash PROVE LabelInv'
  <2> SUFFICES ASSUME NEW id \in JobId \ mislabelled'
               PROVE  /\ \A q, p \in Labelling(id)' : q = p
                      /\ \A q \in Labelling(id)' : Applied(q)'
                      /\ Labelling(id)' = {} => Shows(id)'
    BY DEF LabelInv
  <2>1. Labelling(id) = {} /\ Labelling(id)' = {} /\ id \notin mislabelled
    BY <1>5 DEF Crash, Labelling
  <2>2. UNCHANGED <<cronJob, metadata>>
    BY <1>5 DEF Crash
  <2>3. QED BY <2>1, <2>2, OtherJob
<1>6. CASE UNCHANGED vars
  BY <1>6 DEF vars, LabelInv, Labelling, Applied, Shows
<1>7. QED
  BY <1>1, <1>2, <1>3, <1>4, <1>5, <1>6 DEF Next, Progress, Failure

LEMMA LabelInit == Init => LabelInv
BY DEF Init, LabelInv, Labelling, Shows, NoRows

\* Whatever fails and however requests interleave, a listed job is shown with the runner
\* it was made with once nobody is about to label it; but for the jobs whose label a
\* crash or an error has kept from being written, or that two requests labelled at once,
\* until the next commit that is alone in labelling them.
THEOREM LabelsAlwaysMatch == Spec => []LabelsMatch
<1>1. TypeInv /\ LabelInv => LabelsMatch
  <2> SUFFICES ASSUME TypeInv, LabelInv, NEW id \in JobId \ mislabelled, cronJob[id] # None,
                      Labelling(id) = {}
               PROVE  cronJob[id].cmd \in ShownRunner(id)
    BY DEF LabelsMatch
  <2>1. metadata[id] = [site |-> cronJob[id].site, cmd |-> cronJob[id].cmd]
    BY DEF LabelInv, Shows
  <2>2. cronJob[id] \in Job
    BY DEF TypeInv, TypeOK, Rows
  <2>3. metadata[id] # None
    BY <2>1, <2>2 DEF Job, Label
  <2>4. QED BY <2>1, <2>3 DEF ShownRunner
<1>2. QED BY <1>1, LabelInit, LabelStep, ViewInit, ViewStep, TypeCorrect, PTL DEF Spec
=============================================================================
