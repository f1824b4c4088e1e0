-------------------------------- MODULE Cron --------------------------------
(***************************************************************************)
(* Site cron jobs: internal/gateway/cron.go, executeCron, run by the root  *)
(* helper, one goroutine per connection.                                   *)
(*                                                                         *)
(* The rows of CloudPanel's cron_job table are the jobs; /etc/cron.d/<user>*)
(* is rendered from them inside the SQLite transaction, for all the sites  *)
(* of the site's Linux user; cron_metadata, in the gateway's own database, *)
(* is written after the commit.                                            *)
(*                                                                         *)
(* Abstractions.  A revision is the data its HMAC is computed from.  A     *)
(* command stands for both the runner and the shell command rendered from  *)
(* it.  A cron file is the set of its lines, keyed by the id that orders   *)
(* them.  SQLite is modelled by its promise: one writer at a time, whose   *)
(* changes nobody else sees before COMMIT.                                 *)
(***************************************************************************)
EXTENDS Naturals, FiniteSets

CONSTANTS
    Request,    \* connections the helper serves at once
    Site,       \* rows of CloudPanel's site table
    User,       \* Linux users that own sites
    UserOf,     \* the owner of each site
    JobId,      \* primary keys of cron_job
    Schedule,   \* the five time fields of a job
    Command,    \* runner and rendered command line
    Second,     \* what the clock may show: updated_at has whole seconds
    MaxJobs,    \* maxCronJobs
    Faults,     \* the kinds of failure that may happen
    MaxFaults,  \* bound: how many of them in one behaviour, but for "restore"
    None        \* no row, no line, no file, no request

Job == [site : Site, sched : Schedule, cmd : Command, at : Second]
Line == [sched : Schedule, cmd : Command]
Label == [site : Site, cmd : Command]
FaultKind == {"crash", "deadline", "commit", "write", "restore", "metadata"}

ASSUME ConstantsAssumption ==
    /\ UserOf \in [Site -> User]
    /\ IsFiniteSet(JobId)
    /\ MaxJobs \in Nat /\ MaxFaults \in Nat
    /\ Faults \subseteq FaultKind
    /\ None \notin Job \cup Line \cup Label \cup [JobId -> Line \cup {None}]
    /\ None \notin Request \cup JobId

VARIABLES
    cronJob,    \* committed rows of cron_job
    cronFile,   \* /etc/cron.d/<user>
    metadata,   \* cron_metadata
    writer,     \* the request that holds SQLite's write lock
    pc,         \* where each request is in executeCron
    seen,       \* the site it is for and the revision the client listed
    call,       \* the operation: the row it sets, and to what
    view,       \* cron_job as its transaction sees it
    previous,   \* the cron file it read before writing
    faults,     \* failures so far
    torn,       \* history: users whose file nobody is left to put right
    crossed,    \* history: users whose file two requests were rewriting at once
    mislabelled \* history: jobs whose label was lost, or written by two at once

vars == <<cronJob, cronFile, metadata, writer, pc, seen, call, view, previous,
          faults, torn, crossed, mislabelled>>

-----------------------------------------------------------------------------
Rows == [JobId -> Job \cup {None}]
File == [JobId -> Line \cup {None}] \cup {None}
Stage == {"idle", "informed", "accepted", "applied", "rendered", "written",
          "restoring", "committed"}
Revisions == SUBSET (JobId \X Schedule \X Second)
Seen == [site : Site, rev : Revisions]
Call == [op : {"create", "update", "delete"},
         id : JobId \cup {None}, job : Job \cup {None}]

NoRows == [id \in JobId |-> None]

JobsOf(jobs, s) == {id \in JobId : jobs[id] # None /\ jobs[id].site = s}

\* Ids, time fields and updated_at, not the commands.
cronRevision(jobs, s) ==
    {<<id, jobs[id].sched, jobs[id].at>> : id \in JobsOf(jobs, s)}

\* Every job of every site of the user, in the order of the ids.
renderCronFile(jobs, u) ==
    [id \in JobId |-> IF jobs[id] # None /\ UserOf[jobs[id].site] = u
                      THEN [sched |-> jobs[id].sched, cmd |-> jobs[id].cmd]
                      ELSE None]

\* What cron runs: nothing when there is no file.
Lines(file) == IF file = None THEN NoRows ELSE file

MayFail(kind) == kind \in Faults /\ faults < MaxFaults

TypeOK ==
    /\ cronJob \in Rows
    /\ cronFile \in [User -> File]
    /\ metadata \in [JobId -> Label \cup {None}]
    /\ writer \in Request \cup {None}
    /\ pc \in [Request -> Stage]
    /\ seen \in [Request -> Seen \cup {None}]
    /\ call \in [Request -> Call \cup {None}]
    /\ view \in [Request -> Rows]
    /\ previous \in [Request -> File]
    /\ faults \in 0..MaxFaults
    /\ torn \subseteq User /\ crossed \subseteq User
    /\ mislabelled \subseteq JobId

Init ==
    /\ cronJob = NoRows
    /\ cronFile = [u \in User |-> None]
    /\ metadata = [id \in JobId |-> None]
    /\ writer = None
    /\ pc = [r \in Request |-> "idle"]
    /\ seen = [r \in Request |-> None]
    /\ call = [r \in Request |-> None]
    /\ view = [r \in Request |-> NoRows]
    /\ previous = [r \in Request |-> None]
    /\ faults = 0
    /\ torn = {} /\ crossed = {} /\ mislabelled = {}

-----------------------------------------------------------------------------
Goto(r, stage) == pc' = [pc EXCEPT ![r] = stage]

\* executeCron returns: the deferred Rollback and Close free the write lock.
Return(r) ==
    /\ Goto(r, "idle")
    /\ writer' = IF writer = r THEN None ELSE writer
    /\ seen' = [seen EXCEPT ![r] = None]
    /\ call' = [call EXCEPT ![r] = None]
    /\ view' = [view EXCEPT ![r] = NoRows]
    /\ previous' = [previous EXCEPT ![r] = None]

Stores == <<cronJob, cronFile, metadata>>
Locals == <<seen, call, view, previous>>
History == <<torn, crossed, mislabelled>>
Environment == <<faults, History>>

\* A client lists the jobs of a site and learns the revision to send back.
ListJobs(r) ==
    /\ pc[r] = "idle"
    /\ \E s \in Site :
         seen' = [seen EXCEPT ![r] = [site |-> s, rev |-> cronRevision(cronJob, s)]]
    /\ Goto(r, "informed")
    /\ UNCHANGED <<Stores, Environment, writer, call, view, previous>>

RevisionMatches(r) == seen[r].rev = cronRevision(cronJob, seen[r].site)

\* The request is read, its revision compared and its fields validated before
\* the transaction begins, and it is not looked at again; updated_at is taken from the
\* clock.
Accept(r) ==
    /\ pc[r] = "informed"
    /\ RevisionMatches(r)
    /\ \E sched \in Schedule, cmd \in Command, at \in Second, id \in JobId :
         LET row == [site |-> seen[r].site, sched |-> sched, cmd |-> cmd, at |-> at]
         IN \E c \in {[op |-> "create", id |-> None, job |-> row],
                      [op |-> "update", id |-> id, job |-> row],
                      [op |-> "delete", id |-> id, job |-> None]} :
              call' = [call EXCEPT ![r] = c]
    /\ seen' = [seen EXCEPT ![r].rev = {}]
    /\ Goto(r, "accepted")
    /\ UNCHANGED <<Stores, Environment, writer, view, previous>>

Conflict(r) ==
    /\ pc[r] = "informed"
    /\ ~RevisionMatches(r)
    /\ Return(r)
    /\ UNCHANGED <<Stores, Environment>>

\* Another connection holds the write lock for the whole busy_timeout, or
\* holds it when the count of cronCreate has to be upgraded to a write.
BusyNever(r) == FALSE  \* mutant: no busy_timeout, the lock is awaited for ever
Busy(r) ==
    /\ pc[r] = "accepted"
    /\ writer # None
    /\ Return(r)
    /\ UNCHANGED <<Stores, Environment>>

\* The checks of the transaction: the limit, and the row's id and site_id.
\* Mutant: the limit counts the rows of cron_metadata, written after the commit.
UnderLabelLimit(s) ==
    Cardinality({id \in JobsOf(cronJob, s) : metadata[id] # None}) < MaxJobs
UnderLimit(s) == Cardinality(JobsOf(cronJob, s)) < MaxJobs

Feasible(r) ==
    IF call[r].op = "create" THEN UnderLimit(seen[r].site)
                             ELSE call[r].id \in JobsOf(cronJob, seen[r].site)

\* Row ids the statement may touch: an unused one for INSERT.
Targets(r) ==
    IF call[r].op = "create" THEN {id \in JobId : cronJob[id] = None}
                             ELSE {call[r].id}

\* INSERT, UPDATE or DELETE, which takes the write lock.
Apply(r) ==
    /\ pc[r] = "accepted"
    /\ writer = None
    /\ Feasible(r)
    /\ \E id \in Targets(r) :
         /\ call' = [call EXCEPT ![r].id = id]
         /\ view' = [view EXCEPT ![r] = [cronJob EXCEPT ![id] = call[r].job]]
    /\ writer' = r
    /\ Goto(r, "applied")
    /\ UNCHANGED <<Stores, Environment, seen, previous>>

Refuse(r) ==
    /\ pc[r] = "accepted"
    /\ writer = None
    /\ ~Feasible(r)
    /\ Return(r)
    /\ UNCHANGED <<Stores, Environment>>

UserFor(r) == UserOf[seen[r].site]

\* From reading a user's file until it is committed or put back.
Window == {"rendered", "written", "restoring"}
Meets(r) == \E q \in Request \ {r} : pc[q] \in Window /\ UserFor(q) = UserFor(r)

\* cronJobsForUser through the transaction, then readSafeCronFile.
ReadFile(r) ==
    /\ pc[r] = "applied"
    /\ previous' = [previous EXCEPT ![r] = cronFile[UserFor(r)]]
    /\ crossed' = IF Meets(r) THEN crossed \cup {UserFor(r)} ELSE crossed
    /\ Goto(r, "rendered")
    /\ UNCHANGED <<Stores, faults, torn, mislabelled, writer, seen, call, view>>

\* Mutant: the jobs are read outside the transaction, without its change.
WriteCommittedJobs(r) ==
    /\ pc[r] = "rendered"
    /\ cronFile' = [cronFile EXCEPT ![UserFor(r)] = renderCronFile(cronJob, UserFor(r))]
    /\ Goto(r, "written")
    /\ UNCHANGED <<Locals, Environment, cronJob, metadata, writer>>

\* The temporary file is renamed over /etc/cron.d/<user>.
WriteFile(r) ==
    /\ pc[r] = "rendered"
    /\ cronFile' = [cronFile EXCEPT ![UserFor(r)] = renderCronFile(view[r], UserFor(r))]
    /\ Goto(r, "written")
    /\ UNCHANGED <<Locals, Environment, cronJob, metadata, writer>>

WriteFails(r) ==
    /\ pc[r] = "rendered"
    /\ MayFail("write")
    /\ faults' = faults + 1
    /\ Return(r)
    /\ UNCHANGED <<Stores, History>>

\* Requests that have committed a job and have yet to write its label.
Labelling(id) == {r \in Request : pc[r] = "committed" /\ call[r].id = id}

Commit(r) ==
    /\ pc[r] = "written"
    /\ writer = r
    /\ cronJob' = view[r]
    /\ writer' = None
    /\ torn' = torn \ {UserFor(r)}
    /\ mislabelled' = IF Labelling(call[r].id) = {} THEN mislabelled \ {call[r].id}
                                                   ELSE mislabelled \cup {call[r].id}
    /\ view' = [view EXCEPT ![r] = NoRows]
    /\ previous' = [previous EXCEPT ![r] = None]
    /\ Goto(r, "committed")
    /\ UNCHANGED <<seen, call, cronFile, metadata, faults, crossed>>

\* SQLITE_BUSY because of a reader: the connection keeps the lock until Close.
CommitFails(r) ==
    /\ pc[r] = "written"
    /\ writer = r
    /\ MayFail("commit")
    /\ faults' = faults + 1
    /\ Goto(r, "restoring")
    /\ UNCHANGED <<Stores, Locals, writer, History>>

\* database/sql has already rolled the transaction back: Commit is an error.
CommitTooLate(r) ==
    /\ pc[r] = "written"
    /\ writer # r
    /\ Goto(r, "restoring")
    /\ UNCHANGED <<Stores, Locals, Environment, writer>>

RestoreFile(r) ==
    /\ pc[r] = "restoring"
    /\ cronFile' = [cronFile EXCEPT ![UserFor(r)] = previous[r]]
    /\ Return(r)
    /\ UNCHANGED <<Environment, cronJob, metadata>>

\* os.WriteFile truncates the file and may write a part, or the new file cannot be
\* removed; the error is dropped.  It comes with the failure that is being undone and
\* is not counted again.
RestoreFails(r) ==
    /\ pc[r] = "restoring"
    /\ "restore" \in Faults
    /\ torn' = torn \cup {UserFor(r)}
    /\ \/ UNCHANGED cronFile
       \/ /\ previous[r] # None
          /\ \E part \in SUBSET JobId :
               cronFile' = [cronFile EXCEPT ![UserFor(r)] =
                 [id \in JobId |-> IF id \in part THEN previous[r][id] ELSE None]]
    /\ Return(r)
    /\ UNCHANGED <<cronJob, metadata, faults, crossed, mislabelled>>

\* Mutants: a deleted job is upserted too; an update inserts or ignores.
LabelAlways(r) ==
    [site |-> seen[r].site,
     cmd |-> IF call[r].op = "delete" THEN None ELSE call[r].job.cmd]
LabelOnce(r) ==
    IF call[r].op = "delete" THEN None
    ELSE IF metadata[call[r].id] # None THEN metadata[call[r].id]
    ELSE [site |-> seen[r].site, cmd |-> call[r].job.cmd]

LabelFor(r) ==
    IF call[r].op = "delete" THEN None
                             ELSE [site |-> seen[r].site, cmd |-> call[r].job.cmd]

WriteMetadata(r) ==
    /\ pc[r] = "committed"
    /\ metadata' = [metadata EXCEPT ![call[r].id] = LabelFor(r)]
    /\ Return(r)
    /\ UNCHANGED <<Environment, cronJob, cronFile>>

\* The error of s.DB.Exec is dropped and the operation succeeds.
MetadataFails(r) ==
    /\ pc[r] = "committed"
    /\ MayFail("metadata")
    /\ faults' = faults + 1
    /\ mislabelled' = mislabelled \cup {call[r].id}
    /\ Return(r)
    /\ UNCHANGED <<Stores, torn, crossed>>

\* The context of the helper call ends while the transaction is open: it is
\* rolled back behind executeCron's back, which notices at its next query.
DeadlineExpires(r) ==
    /\ writer = r
    /\ MayFail("deadline")
    /\ faults' = faults + 1
    /\ \/ pc[r] = "applied" /\ Return(r)
       \/ /\ pc[r] \in {"rendered", "written"}
          /\ writer' = None
          /\ UNCHANGED <<pc, Locals>>
    /\ UNCHANGED <<Stores, History>>

\* The helper process dies with its goroutines; SQLite rolls back.
Crash ==
    /\ MayFail("crash")
    /\ faults' = faults + 1
    /\ torn' = torn \cup {UserFor(r) : r \in {q \in Request : pc[q] \in {"written", "restoring"}}}
    /\ mislabelled' = mislabelled \cup
         {call[r].id : r \in {q \in Request : pc[q] = "committed"}}
    /\ pc' = [r \in Request |-> "idle"]
    /\ seen' = [r \in Request |-> None]
    /\ call' = [r \in Request |-> None]
    /\ view' = [r \in Request |-> NoRows]
    /\ previous' = [r \in Request |-> None]
    /\ writer' = None
    /\ UNCHANGED <<Stores, crossed>>

Progress(r) ==
    \/ Accept(r) \/ Conflict(r) \/ Busy(r) \/ Apply(r) \/ Refuse(r)
    \/ ReadFile(r) \/ WriteFile(r) \/ Commit(r) \/ CommitTooLate(r)
    \/ RestoreFile(r) \/ WriteMetadata(r)

Failure(r) ==
    \/ WriteFails(r) \/ CommitFails(r) \/ RestoreFails(r) \/ MetadataFails(r)
    \/ DeadlineExpires(r)

Next ==
    \/ \E r \in Request : ListJobs(r) \/ Progress(r) \/ Failure(r)
    \/ Crash

Spec == Init /\ [][Next]_vars

\* Goroutines are scheduled and busy_timeout is finite: a request goes on.
FairSpec == Spec /\ \A r \in Request : WF_vars(Progress(r))

-----------------------------------------------------------------------------
\* Requests that may be between the rename of a user's file and its outcome.
Rewriting(u) ==
    {r \in Request : pc[r] \in {"written", "restoring"} /\ UserFor(r) = u}

\* Outside the window of a writer the file of a user has exactly the jobs the
\* database has: executeCron writes the file while it holds the write lock and puts
\* the old one back when the commit fails.  Three things break that: a helper that
\* dies in the window or a file that cannot be put back, until the next committed
\* change of that user's jobs; and a request that outlives its deadline in the
\* window and meets the next one there.
FileMatchesDatabase ==
    \A u \in User \ (torn \cup crossed) : Rewriting(u) = {} =>
        Lines(cronFile[u]) = renderCronFile(cronJob, u)

\* cronCreate counts inside its transaction: concurrent creates never take a
\* site past maxCronJobs.
JobLimit == \A s \in Site : Cardinality(JobsOf(cronJob, s)) <= MaxJobs

\* The runner that readCronResult shows: raw_command without a metadata row of
\* that domain.
ShownRunner(id) ==
    IF metadata[id] # None /\ metadata[id].site = cronJob[id].site
    THEN {metadata[id].cmd} ELSE {}

\* Once nobody is about to write its label, a listed job is shown with the runner
\* its command was rendered from, also when its id was used before and whatever
\* happens to other jobs meanwhile.  Excepted are labels that two requests wrote at
\* once or none could, until the job is next changed by itself.
LabelsMatch ==
    \A id \in JobId \ mislabelled :
        cronJob[id] # None /\ Labelling(id) = {} => cronJob[id].cmd \in ShownRunner(id)

-----------------------------------------------------------------------------
\* executeCron as a write-through: cron_job is the store, the lines of a user's
\* file are what it shows.
Stored == [u \in User |-> renderCronFile(cronJob, u)]
Shown == [u \in User |-> Lines(cronFile[u])]

Implements == INSTANCE WriteThrough WITH
    Key <- User, Value <- [JobId -> Line \cup {None}], stored <- Stored, shown <- Shown

\* A request that has written a file although its deadline has ended its transaction.
Late(r) == pc[r] \in {"written", "restoring"} /\ writer # r

\* No file is beyond repair, and no late request is beside another.
Undisturbed ==
    /\ torn = {} /\ crossed = {}
    /\ \A r \in Request : Late(r) =>
         \A q \in Request \ {r} : pc[q] \notin {"written", "restoring"}

\* The file of a user is changed only to be stored or undone next, whatever fails and
\* whatever the other requests do.
WritesThrough ==
    Implements!Init /\ [][Undisturbed /\ Undisturbed' => Implements!Next]_(Implements!vars)

\* An accepted request is answered although others hold the write lock.
RequestsAreAnswered ==
    \A r \in Request : (pc[r] = "accepted") ~> (pc[r] = "idle")
=============================================================================
