# Verification of cloudpanel-gateway

TLA+ models of the parts of cloudpanel-gateway in which several requests, two
databases, configuration files and external commands have to agree, with the
TLC runs that check them and the proofs TLAPS checks. `PROJECT.json` lists the
components, runs, mutants, findings, hazards and theorems, and maps every
definition to the source lines it models.

## The system

Three processes:

- **serve** (unprivileged): REST and MCP server. Authenticates bearer tokens,
  checks scope and policy, keeps artifact uploads and the audit log, and sends
  typed requests to the helper.
- **helper** (root, `ListenHelper`): one goroutine per connection with a
  deadline of 90 s (15 min for backups). Executes `clpctl`, settings, cron,
  static, Node.js, artifact, backup, log and TLS operations.
- **nginx-commit** (root, `ListenNginxCommit`): one goroutine per connection
  with a deadline of 45 s. Replaces one vhost, tests Nginx and reloads it.

They share the gateway's SQLite database (tokens, policy, domains, audit,
artifacts, uploads, backups, Node.js configuration and releases, cron
metadata), CloudPanel's SQLite database, the vhosts and `nginx.conf`,
`/etc/cron.d`, the artifact and backup directories, the backup key, systemd
units and the sites' directories.

### Components

| Component | State | Operations | What makes it hard |
|---|---|---|---|
| Cron jobs (`cron.go`) | `cron_job`, `/etc/cron.d/<user>`, `cron_metadata` | list, create, update, delete | a file written inside a transaction; sites that share a user; metadata after the commit; deadline and crash in between |
| Nginx commit service (`nginx_commit.go`) | vhosts, `nginx.conf`, running Nginx | commit | concurrent connections without a lock; two files and two commands; rollback of what others may have changed |
| Site settings (`settings.go`) | `site`, `php_settings`, vhosts | root directory, PHP, PageSpeed, password, purge | a database transaction held open across a call to another process; revision checked before |
| Static hosting (`static.go`) | vhost | routing | no lock at all |
| Node.js releases (`node.go`) | `nodejs_settings`, `node_configs`, `node_releases`, symlinks, units, vhost | settings, deploy, restart, rollback, build | many steps with partial rollback; waits of up to 30 s in between |
| Artifact uploads (`http.go`, `operations.go`) | `artifact_uploads`, part files, `artifacts` | begin, chunk, complete, upload in one piece, expire, cleanup | file and row change one after the other; resumption after a crash; a cleaner |
| Artifact deployment (`operations.go`) | site root, extraction directory | deploy | directory swap by two renames; safety backup |
| Backups (`operations.go`) | `backups`, archive files, key | create, list, restore, prune | retention against a restore that makes a backup itself |
| Access (`core.go`, `http.go`, `cli.go`) | `tokens`, `policy`, `domains`, `audit` | token create, revoke, rotate; policy; authenticate; audit | a check in one process, the effect in another |
| Logs, TLS inspection | none | read | bounded reads |
| Command line (`cli.go`) | none of its own | the tokens, policies and domains above; operations asked of the helper | several processes at once; each stops where it fails |
| Sandboxed builds, installation, lab | none that the gateway reads back | - | - |

## Modules

| Module | Models |
|---|---|
| `WriteThrough` | abstract: a value stored in a database and shown in a file changes in the file first and is then stored or undone before anything else changes |
| `ArtifactStore` | abstract: what was announced can be read as a whole, appears at most once, stays as it is until it expires and does not come back |
| `Cron` | `executeCron` in concurrent goroutines of the helper, with its transaction, file, metadata and failures |
| `CronProofs` | theorems about `Cron` |
| `NginxCommit` | `commitNginxVhost` in concurrent goroutines of the commit service |
| `SiteSettings` | `mutateSite`, `executeStatic` and `updateCloudPanelNodeSettings`, composed with `NginxCommit` (`INSTANCE`) |
| `ArtifactUpload` | uploads in chunks and in one piece, and `CleanupArtifacts` in server and helper |
| `ArtifactUploadProofs`, `ArtifactRetentionProofs` | theorems about `ArtifactUpload` |
| `NginxCommitProofs` | theorems about `NginxCommit` |
| `SiteSettingsProofs` | theorems about `SiteSettings` and the commit service under it |
| `NodeReleaseProofs` | theorems about `NodeRelease` |
| `SiteBackupsProofs` | theorems about `SiteBackups` |
| `NodeRelease` | deploy, update, rollback, restart and adoption of one Node.js site, with what systemd does meanwhile |
| `SiteBackups` | creation, retention and restoring of backups and the replacement of a site's root, in concurrent goroutines of the helper |
| `Endpoints` | what REST and MCP offer: per endpoint the operation, the scopes and the audit event; which policies gate an operation |
| `Access` | tokens, policies, audit, calls of the helper and the gateway's own domains, across server, helper and commands of root (extends `Endpoints`) |
| `AccessProofs` | theorems about `Access` |
| `MCCron`, `MCNginxCommit`, `MCSiteSettings`, `MCArtifactUpload`, `MCNodeRelease`, `MCSiteBackups`, `MCAccess` | constants for TLC |

### Cron

`cronJob` is the table, `cronFile` the files (`None` where there is none),
`metadata` the gateway's table. `pc[r]` says where request `r` is in
`executeCron`; `seen`, `call`, `view` and `previous` are its locals: the
revision the client sent, the statement, the table as the transaction sees it,
and the file read before it is overwritten. `writer` is the holder of SQLite's
write lock. `Accept` covers everything before the transaction, revision check
included; `Apply` the statement that takes the lock; `ReadFile`, `WriteFile`,
`Commit`, `RestoreFile`, `WriteMetadata` the steps after it in the code's order.
`updated_at` is any of a set of seconds, as the clock may stand still between two
changes. Both errors the code drops are actions: `RestoreFails`, which may leave the
written file, a part of the old one or an empty one, and `MetadataFails`. History:
`torn`, the users whose writer died between the rename of the file and the end of its
transaction or could not put the file back; `crossed`, the users whose file two
requests were rewriting at once, which takes a deadline; `mislabelled`, the jobs whose
label was lost or that two requests labelled at once. A commit takes its user out of
`torn`, and one that labels its job alone takes the job out of `mislabelled`.

SQLite's promise is assumed: one writer, nobody sees uncommitted changes, a
process that dies is rolled back. The reads of the CloudPanel database need no
lock of their own in the model. `database/sql` rolls a transaction back as soon
as its context ends, also between two statements: `DeadlineExpires` does that
while the request goes on until its next use of the transaction.

### NginxCommit and SiteSettings

`NginxCommit` has the files (`vhost`, `nginxConf`), what Nginx runs (`live`) and
per connection the stage, the request and what was read for the rollback. A
vhost is replaced by rename, one step; `nginx.conf` is truncated and then
written in place, two steps, and two writers can leave a mixture. `Accepts` is
`nginx -t`: it looks at all files. `committed` is history: what was last
answered with OK, per domain. Every write may fail: the first ones end the request
(`PatchGlobalFails`, `WriteVhostFails`), those of the rollback are dropped
(`RestoreVhostFails`, `RestoreGlobalUnopened`, `RestoreGlobalFails`) and leave the
refused vhost, the patched `nginx.conf` or one that was truncated and cut short
(`CutShort`); the answer is then the same error as after a rollback that worked.

`SiteSettings` adds the rows, the write lock and the helper's requests, and
takes every step of the commit service from `Service == INSTANCE NginxCommit`.
A request's connection to the service bears its name. Root directory stands for
PHP settings as well: both are hashed columns with lines in the vhost.
A PageSpeed update sends the `nginx.conf` prerequisite; a static update has no
row; a port update reads the old port without a lock, commits its row and stores the
old port again when Nginx refuses it, and only that. `Asks` gives each request what it may
ask for. `lost` is history: sites whose helper request or commit died half-way or
whose vhost could not be put back; `torn` of `NginxCommit`: domains whose writer died
before it was done or could not put the vhost back, and `skipped`: what a failed write
or reload left undone since the last good reload.

### ArtifactUpload

`uploads` and `artifacts` are the tables, `parts` and `files` the part files and
finished files, `uploadMu` the server's mutex. A worker is a request of the
server or a deployment of the helper; `pc`, `id`, `row`, `digest`, `due` and
`paths` are its locals. `Begin`, `StartChunk` and `Complete` stand for everything
up to the first change and take the mutex; the steps after them follow the code:
append to the file, then advance the row; rename the file, insert the artifact,
delete the upload. `Receive` to `RefuseFile` are the upload in one piece, which
takes no mutex. Every worker may clean up: select rows, remove files one by one,
delete rows, first artifacts and then uploads, with the instant at which the
cleaning began. A file is the sequence of chunks in it and `Cut` a chunk written in
part, so a file's length says as little about its content as in the code. History:
`announced`, the number of chunks a client began with, and `maimed`, the identifiers
on whose own file or row an operation failed: a request stopped between the two
(`CreatePartFails` at the `Close` of the new file, `AppendFails`, `ProbeFails`, a
crash), could not take its file back (`UndoFails`), or a cleaner could not remove the
file (`RemoveFails`) or did not read its row (`SelectArtifactsInPart`,
`SelectUploadsInPart`) and deleted the row all the same.

`PublishesOnce` is the refinement of `ArtifactStore`. What can be read is `Readable`,
the file a row leads to; only a row that has expired may have lost it. So the run
checks `KeptUntilExpiry` with it. `promised` is what was announced, and `closed` the
identifiers that are `Settled`, for which no worker can any more give a part file,
a file or a row. Upload stages and failures become stutters, the two steps that
begin an upload `Announce`, `PutArtifact` becomes `Publish`, a cleaner's removal of a
file `Withdraw`.

### NodeRelease

The operations of `node.go` change a link, a unit file, two rows, a port and
systemd one after the other; `Plan` lists the steps of each operation in the
code's order, and `todo[q]` is what remains of the list that `mode[q]` names.
`NotDone` is the code's error handling: some errors end the operation where it
is, some turn it into another list (`revert` is `rollbackNodePointer`, `clear` is
`deactivateFailedNode`, `restore` the way back of an update), some are dropped.
The port change is a step with three outcomes: done, nothing changed
(`SetPortFails`), or stored in CloudPanel's database without Nginx
(`SetPortHalfWay`), because the vhost cannot be read after the commit or the
statement that takes the port back fails.
`next[q]` is the code's `n`, `before[q]` its `previous` or `old`. `process` is what
systemd runs: it can fail and come back (`Restart=on-failure`), exit, and be
restarted by another request at any time. A deploy of a site the gateway has not
seen is `Adopt` followed by `Deploy`, as in the code. `undone` is history: steps
that failed requests left undone; a deploy or rollback that succeeds makes most of
them good.

### SiteBackups

A site is its parts, the files and each database, in `live`; `row` and `inserted`
are the table with its order of insertion, `file` the encrypted files with the key
they were made with, `keyFile` what the key file holds. `step[q]` says where a
request is, `ask` to `todo` are its locals. A backup is `Archive`, the key
(`ReadKey`, or `OpenKey` and `WriteKey` for the first one), `Encrypt`, `Record`,
then the retention: `List` chooses once, in the code's order, what is `doomed`,
`RemoveFile` and `DeleteRow` take it away one by one. The list may fail (`ListFails`),
which ends the retention and nobody is told; an error of `os.Remove` is dropped, so a
file may stay when its row goes (`RemoveFile`, `RecordFails`). A restore, and a deployment
of the root, is such a backup first (`Saved` tells where it goes on), then
`Decrypt`, `Unpack`, `SetAside` and `MoveIn` for the root and `Import` for each
database. `aside` has the roots renamed out of the way.

History: `began`, what the site held when the request began, so that
`ReplacedIsSaved` can say what a safety backup must have saved; `retired`, what a
retention removed; `keyLost`, that two first backups made a key each; `overdue`,
that a retention could not list the backups or was cut short. `ContentSurvives` is about the root: it is in its
place, set aside, or in the hands of a request.

### Endpoints and Access

`Endpoints` is a table: routes, tools, `clpctl` actions and their scopes as the
handlers write them. `Access` takes from it what a request may ask for.

A request is `Ask`ed with a printed token, `Authorize`d or denied with the token as
it is then, `Hand`ed to the helper or `Serve`d by the server itself, `Receive`d and
`Record`ed. The client may `Leave` at any time, which only keeps the server from
dialling. The helper `Check`s the policy when it has the job, `Perform`s it, runs
into its deadline or dies. Root's commands share token table and helper: creation,
rotation, revocation, policies, the gateway's own domains (create a proxy, then
store it; adopt; delete, then unmap), certificates and operations. Each step of a
command may be its last (`kill`).

`marks` is history and says of a caller: its token was valid when it was used; its
policy was enabled at some moment after the helper was asked; the insertion of its
audit row failed; nobody can know whether its operation was done. `strayed` has the
domains whose mapping a failure, or a request that deletes the site, may have left
wrong; `excused` that a token was revoked on purpose, or a rotation killed.

## Runs

| Run | Instance | Result |
|---|---|---|
| `cron` | two requests for one site, limit 1, two ids that are reused, two commands, one of crash, deadline, failed file write, commit or metadata write, and restorations that fail; weak fairness | file and database agree outside a writer's window, and `Cron` implements `WriteThrough`; the limit holds; the listed runner is that of the rendered command; accepted requests are answered |
| `nginx_commits` | two connections, own domains, two of crash, failing command, write, write of the rollback | answered commits stay in the vhosts; at rest the files are valid and loaded, unless one is known not to have been put back |
| `nginx_global_write` | one PageSpeed request, failing write | **violated**: `nginx.conf` is left empty |
| `settings_serial` | two sites, one update at a time, two seconds, one of crash, restart, failing command, commit | rows and vhosts change together or not at all; only the site being changed drifts; an update changes its own setting |
| `settings_concurrent` | updates of two sites at once, one failure; weak fairness | the write lock serialises the commit service; `mutateSite` implements `WriteThrough`; the lock is always freed |
| `settings_lost_update` | two updates of one site | **violated**: a committed update is undone by the next |
| `artifact_uploads` | two requests and a deployment, two uploads of up to two chunks, expiry, two of crash, cut write, unreadable file, rows that are not read, file that cannot be removed, failing statement | artifacts are what was sent; sessions can go on; no file is orphaned but one an operation itself failed on; `ArtifactUpload` implements `ArtifactStore`: artifacts appear once and stay until they expire |
| `node_releases` | one site, one request at a time, restarts at any time, three releases of which one never listens, two ports, one of crash, deadline, failing command, write, statement, port change | link, unit, systemd, configuration and port agree at rest; a deploy or update that fails keeps release and port |
| `node_stale_process` | two releases that work, no failure | **violated**: a deploy is answered OK while the previous release runs |
| `backups` | two requests for two sites, each replacing parts of one and backing up the other, a quota that two backups exceed, expiry, one of crash, failing command, write, rename, statement, key read, unnoticed close | no root is lost; what is replaced is in a recorded backup; a recorded backup has its file, under the key there is; the retention takes only what is expired or oldest and keeps the quota unless it could not list or was cut short |
| `access` | a request for one of four endpoints, two of which audit nothing, beside a process of root for tokens and policies and one for rotation and domains, expiry, one of failing statement, deadline, helper or server that dies, killed command; weak fairness | nothing is done without token and policy; the audit table tells what was done; a rotation leaves a token; mapped domains have a site; one operation has one rule; requests are answered |
| `access_unaudited` | `site.create_php` through the API or the tools, one failing statement | **violated**: through the tool the site is made and no audit row written |

The four violated runs are findings: the line of the code and the sentence of
the documentation or comment that disagree are in `PROJECT.json`.

What the passing runs exclude, because the code does not promise it; each of
these behaviours appears once the restriction is dropped:

- When the context of a cron request ends between the rename of the file and the
  commit, `database/sql` rolls back at once and frees the lock, while the request has
  yet to put the file back. Another request can commit in between, and its file is
  overwritten. `FileMatchesDatabase` excepts the users in `crossed`, `WritesThrough`
  the steps beside such a late request.
- Two cron requests with one revision both commit: the revision is compared before
  the transaction. No property of `Cron` says otherwise; `settings_lost_update` shows
  the same check before the lock, with what it costs.
- A helper that dies between the rename of a cron file and the commit, or a file that
  cannot be put back after a failed commit (`cron.go:184` drops that error), leaves
  cron with other jobs than the database, until the next change for that user.
  `FileMatchesDatabase` excepts the users in `torn`.
- The label of a job is written after its commit and its error dropped: a crash or a
  failing statement in between, or two requests that label one id at once, may leave
  the label of another command, until the job is changed again. `LabelsMatch` excepts
  those jobs (`mislabelled`); it is not about a job that another one replaced under the
  same id and whose own label is still to come.
- The writes of a rollback in the commit service may fail, silently: the vhost that
  was refused stays (`torn`), or `nginx.conf` stays patched, empty or cut
  (`skipped`). `CommittedStays`, `RestIsValid` and `LiveFollowsFiles` except the file
  itself and go on holding the rest to the promise. A `RestIsValid` of `SiteSettings`
  excepts `lost` sites altogether: a vhost left with PageSpeed may be accepted while
  another update has its `nginx.conf` patch in place for a moment, and be refused
  when that update is rolled back.
- The rollback of a routing, port or settings change puts back the vhost it read
  and with it undoes what another request committed to that domain in between.
  `nginx_commits` gives each connection its own domain.
- A port that Nginx refused stays in CloudPanel's database if it is busy when the
  old one is to be stored back. `settings_concurrent` gives each site its own
  request.
- If the helper restarts while the commit service still works for it, two PageSpeed
  commits can be in the service, and the rollback of one takes the `nginx.conf`
  prerequisite from under the other.
- A crash or a failing statement after a chunk was written wedges its upload
  session: its next chunk is refused as inconsistent until the session expires.
  `Resumable` excepts the uploads in `maimed`.
- Files for which no row is left stay for ever. A failing `INSERT` at completion renames
  the part file back although the cleaner may have removed the expired upload's row; a
  request may be interrupted before it inserts a row; and the cleaner deletes the rows
  of all that has expired, also of a file `os.Remove` refused and of a row it could not
  scan (`operations.go:163-172`, `182-191`). `NoOrphans` excepts exactly the file such
  an operation failed on.
- An update that stores the port and then cannot read the vhost, or cannot take the
  port back, leaves CloudPanel with a port that Nginx and the gateway do not have.
  `PortsAgree` excepts it (`undone` has `port`) until an update succeeds.
- Two operations on one Node.js site: nothing joins or serialises them. With two
  requests every property of `node_releases` but `TypeOK` falls; an update that waits for its service stores the configuration it read before over
  that of a release deployed meanwhile.
- A rollback that fails is not taken back: `AllOrNothing` is not about rollbacks.
  After a failed deploy the failed release is the previous one, so a rollback then
  activates it.
- The deadline that fails an update also fails the commands and the port change that
  should take it back: `undone` has them.

- Backups: a key file that a crash left empty or cut makes every later backup or
  restore fail (and a short key panic). Two first backups at once make a key each,
  and one of them is encrypted with the key that is overwritten. The retention of a
  safety backup can remove the very backup that is being restored; of backups of one
  second it takes the last inserted first, so a safety backup can also be removed by its
  own retention. `ReplacedIsSaved` and `RecordedIsThere` except what is in `retired`,
  a lost key and an archive whose last write failed unnoticed. A crash between the
  two renames of a root leaves the site without one, and neither a deployment nor a
  restore gets past its safety backup then; the documentation calls that swap atomic
  (`docs/api-mcp.md:136-137`, `docs/usage.md:169`), and what `ContentSurvives` says is
  weaker: the old root is then still there under its other name. A retention that
  cannot list the backups removes nothing and says nothing, so `QuotaHolds` excepts
  the time until the next one that can (`overdue`). Unencrypted archives and half-written
  encrypted ones are never swept.
- Access: a rotation that cannot revoke the old token leaves a new one that was never
  printed, a replacement never expires, and an identifier that names no token makes a
  token all the same. If the site of a mapped domain is deleted through the API, its
  row stays and `unmap` cannot remove it; if the row cannot be stored after the proxy
  was made, only `adopt` gets out of it, and `adopt` does not look whether there is a
  site. The tools of MCP that run `clpctl` and the artifact endpoints audit nothing
  although the documentation says that every operation is audited: `AuditTells` is
  about the others, and `EveryOperationAudited`, about all, is violated.

Two more things the model of `node.go` makes visible: `Deploy` needs the site's own
port to be free, so a deploy is refused for as long as the site's present release
listens on it; and a deploy does not change the status of the release it replaces,
so several releases of a site are listed as active. Arguments and health path, which
a rollback keeps from the release it leaves, are not in the model.

### Bounds

Two requests: every hazard listed is between two actors or between an actor and
a failure, and a third adds only more of the same interleavings; uploads have the
helper's cleaner as a third. Two job ids and limit 1 (cron): enough to be at and
below the limit and for ids to be reused; one second, the case in which a change does
not change a revision; one site, as the requests that meet are those of one user, and
`CronProofs` has any number of both. A cron file that cannot be put back is not
counted as a failure of its own, since it takes a failed commit to get there. Two values per setting, two sites of one
user or of two: enough for a change to be seen, lost or misplaced. Two chunks:
enough for an upload to be at its beginning, in the middle and complete, and for
a chunk to be repeated, cut or appended to a cut one. `MaxFaults` bounds failures
in one behaviour: two where double failures must be survived or make a difference (a
rollback whose write fails, in `nginx_commits`; a file that cannot be removed after a
crash), one where the code promises nothing for two. `MaxTime` bounds the
clock: one second, as revisions have second resolution; two for uploads, so that
an upload and the artifact made of it expire one after the other.
Three backup identifiers and a quota that two exceed: one to restore, its safety
backup, and one that has to go. Three tokens: the one of bootstrap and one for each
of two commands that make one. One request beside two commands: requests do not
touch each other's state in `Access`, the commands are what changes under them.
Three releases: one to return to, one that replaces it, one that never listens.
`MaxRunning = 1` (settings) makes requests run one at a time. Behaviours are unbounded
in length: cron and settings requests repeat for ever, uploads until the identifiers
are used up.

### Fairness

Goroutines are scheduled and `busy_timeout` is finite, so each request's own
steps are weakly fair. Failures, crashes, new requests and the clock are not.
`nginx -t` and the reload have the 45 s deadline; the reload of a rollback has
none in the code and is assumed to end by systemd's own timeout. In `Access` each
request's handler and the helper's goroutine of each call are weakly fair, root's
commands are not: an answer waits for no command.

## Proofs

`CronProofs`, for any number of requests, sites, users and jobs, from
`ConstantsAssumption`:

- `TypeCorrect`, `TypesOK`: `TypeOK` is inductive once `StageInv` (what a request
  has decided at each stage: its call and its job belong to the site it names)
  and `WriterInv` (the write lock is held inside a transaction only) are added.
- `JobLimitHolds`: with it the invariant that what the holder of the lock will
  commit is itself within the limit and that the table does not change meanwhile.
- `FileFollowsDatabase`, whatever fails: a request inside its transaction holds the
  lock, so there is one; its view is the table with its own change (`ViewInv`). A
  deadline breaks that, so `SyncInv` follows each user's file instead of each request:
  unless torn or crossed, it is the file of the table, or one request is at it which
  renders its view, and whose `previous` is the file of the table.
- `CronWritesThrough`: with the same invariant every step is a step of `WriteThrough`
  or a stutter as long as no file is torn or crossed and no late request is beside
  another (`Undisturbed`), which is part of the property.
- `LabelsAlwaysMatch`: `LabelInv` says that a job is shown with its runner unless a
  request that has committed it is about to write its label, what that request will
  write, and that it is the only one, but for the jobs in `mislabelled`.

No assumption beyond `ConstantsAssumption` is left: these theorems are about any
number of concurrent requests and every failure, deadlines and failing restorations
included.

`ArtifactUploadProofs`, for any number of handlers, cleaners, identifiers, chunks
and failures, from `ArtifactUploadAssumption`:

- `TypeCorrect` and `ArtifactsStayWhole` follow from one inductive invariant. That
  an artifact is whole is decided many steps before its row exists, so the
  invariant follows the content back: `WholeAt` (registered), `Holding` (what the
  holder of the mutex knows of row, file and digest at each stage), `Session` (a
  part file holds what its row counts or is longer, and then the session is stuck
  short of its end), `Mutexed` (all chunked stages are inside the mutex), `Alone`
  (an upload in one piece shares its identifier with nobody) and `Fresh`. The
  cleaners respect no mutex; every part of the invariant is therefore written so
  that it survives a row or a file being taken away, and one lemma (`StepKeeps`)
  shows that for all steps at once.

`ArtifactRetentionProofs`, from the same assumption and with that invariant:

- `ArtifactsAreKept`: a cleaner removes what it selected long before, without a lock.
  `KeepInv` says why that is safe: an identifier whose artifact has once been
  registered is `Settled` - no worker can register it again or give it a part file -
  and stays so (`StepSettles`); so what a cleaner has selected, which had expired, is
  still what it removes.
- `UploadsAreResumable` and `NothingIsOrphaned`: both relate a file to its row while
  requests and cleaners change one after the other, so neither is inductive. `TendInv`
  says at every step who sees to what is not yet true: a session that is not expired
  can go on or the holder of the mutex is about to count, rename or end it
  (`Resuming`); a file without a row belongs to a worker that is about to insert it
  (`LeadsToPart`, `LeadsToFile`). A cleaner reads rows, removes files and deletes rows
  in three steps without a lock, and the third selects again: `ClearingParts` and
  `ClearingFiles` say that whatever had expired by its instant was among what it
  selected, `Choosing` that none of it belongs to an upload that is beginning,
  `Reading` that a row that went under a worker had expired when the worker read it -
  which is why a failing registration marks such an upload `maimed`. What a cleaner
  failed to remove or to read is `maimed` at that step. `ResumingStays`,
  `PartStays`, `FileStays`, `ReadingStays` and the like say once what a step must
  leave alone.
- `ArtifactsArePublished`: every step is a step of `ArtifactStore` or a stutter.
  `Fades` is what nearly all steps do to an identifier, at most taking away what has
  expired (`FadesWithdraws`). That the file is complete when its row is inserted is
  `Holding` and `Held`; that this happens once is `Settled`, which holds of no
  identifier with a worker about to insert its row and of every one that has a row
  (`PutArtifactPublishes`), and never ends (`StepSettles`).

`AccessProofs`, for any number of requests, commands, tokens, domains and policies,
from `AccessAssumption`:

- `TypesOK`: `TypeOK` is inductive with what a request has asked, a job been given and
  a command's task holds at each step (`RequestInv`, `JobInv`, `CommandInv`).
- `AuthorityIsKept`: `RequestInv` says that a token that was not valid when the request
  came is not valid later (no step revives a token), so that an authorized request
  bears `valid`, and that its token opens the endpoint whatever becomes of it: scopes
  never change, since only revocation touches a row.
  `JobInv` says that a job that got past `Check` bears `permitted`, which every step
  that enables a policy keeps up for the calls that are waiting.
- `AuditIsTold`: `RequestInv` follows the outcome from the job to the row, `JobInv`
  the job to its effect; `ServedAreSilent`, about the table of `Endpoints`, says that
  what the server does itself has no audit event. `JobsMove`, `TokensMove` and
  `CommandAsks` say what a step does to a job, a token or a call, so that each part of
  the invariant looks at a few cases instead of at every action.
- `RotationIsSafe`, for any number of rotations at once: two commands may replace the
  same token, or one the other's token that is not printed yet, so no single token can
  be followed. `MoreStand` counts: the tokens that last and that root has or is about
  to have (`Standing`) are more than the rotations whose own token was revoked already
  and that will revoke another (`Waning`). A revocation by a rotation takes one away
  and gives one, or makes one rotation waning, or ends one that was.
- `DomainsAgreeApart`, while mappings and unmappings by commands do not overlap
  (`Apart`), and `DomainsAgreeAlone` when only one command does any: `Agreed` says that
  table and sites differ only by what a command has just had done (`Ended`). Requests
  that make and delete sites, adoptions and other commands may come at any time.
  Commands take no lock: of two unmappings and a mapping that overlap, the second
  unmapping can delete the site that the mapping has just made and find no row, and
  then the mapping stores its row for no site.
- `OneRuleHolds`: the tables of the API and of the tools agree with one list of rules
  (`Ruled`), and a rule has one set of scopes per operation.

`NginxCommitProofs`, for any number of connections and domains, any vhosts and any
failures, from `NginxCommitAssumption`:

- `TypesOK`: `TypeOK` with what the locals hold at each stage (`LocalsInv`).
- `CommitsStay`: if connections that are served at once ask for different domains
  (`DomainsDiffer`), `CommittedStays` is inductive with `VhostInv`: what a request may
  still put back is what was last answered with OK, unless an earlier one could not.
- `FilesAreValid` and `NginxFollows`: if besides only one of them patches `nginx.conf`
  or has a vhost that needs the patch (`OnePatches`), `RestIsValid` and
  `LiveFollowsFiles` hold. Nothing makes a tested vhost stay accepted until the
  reload, and a rollback can itself be refused because of another request's vhost. The
  invariant therefore speaks of all of them: `ConfInv` (answered vhosts suit any
  `nginx.conf` there is or that may be put back), `GlobalInv` (what `nginx.conf`
  holds at each stage) and `LoadInv` (whenever Nginx does not run what the files say,
  somebody who will load them is under way, or it is known that something is
  missing). All three hold also when the rollback's own writes fail. `UndisturbedIsValid` closes it: a reload that is refused at the end of a
  rollback is refused because of another request that is still at work.

  Both conditions are about the callers, not about the service: the helper waits for
  the service inside a transaction that holds CloudPanel's write lock (the run
  `settings_concurrent` shows that), but static routing takes no lock, and the
  conditions fail when the helper restarts. What happens then is listed under the
  runs.

`SiteSettingsProofs`, for any number of requests, sites and values, from the
assumptions of `SiteSettings` and `NginxCommit`:

- `TypeCorrect`: `TypeOK` with what a helper request (`Working`) and its connection
  (`Serving`) hold at each stage, whatever fails and whichever process dies.
- `KeepsOtherSettingsHolds`, if requests that run at once change different sites
  (`Conflictless`; the helper has no lock that would see to it, and the run
  `settings_lost_update` shows what happens otherwise): `CommitInv` says what vhost, job
  and rollback are in terms of the last answered commit and the request.
- `RestIsValidHolds`, on the same condition, for any number of failures of both
  processes, as long as no site is `lost`: what
  `NginxCommitProofs` has to assume of its callers (`OnePatches`) follows here from the
  write lock, which lets one PageSpeed update at a time into the service. `ConfInv`
  says that vhosts in place find their prerequisite in `nginx.conf` or in what somebody
  is about to write there.
- `WritesThroughHolds`, with one failure of a command, a commit or a read and no process
  that dies: `RowInv` says that
  row and committed vhost agree but for the one change that waits, and `Spotless` that
  an undoing has used up the failure. Each step is then a `Show`, `Keep` or `Undo` of
  `WriteThrough` or changes nothing (`Silent`). A second failure would be a rollback
  that fails as well.
- `NoDriftHolds`, with one request at a time and one failure other than an unreadable
  vhost: the port is stored before the service is asked, so `PortInv` follows what a
  request still owes. A vhost that cannot be read leaves a stored port without its
  vhost, and the answer is an error.

`NodeReleaseProofs`, for any releases and ports and any number of failures, from
`NodeReleaseAssumption`:

- `TypeCorrect`, for any number of requests: with `TypeOK` goes `Sound`, what a request
  knows of its own work. That `todo` is always the end of the plan that `mode` names
  makes the plan a program counter: the lemmas `PlanIsInjective`, `EndOfPlan` and
  `TailOfPlan` turn "this step remains" into "the steps before it are done".
- `UnitFollowsConfigHolds`, `PortsAgreeHolds`, `PreviousCanReturnHolds` and
  `AllOrNothingHolds`, for operations one at a time (`Alone`; with two requests they
  fail, see the runs): `Inv` says of link, unit, row, port and what systemd has read
  that each is as the configuration has it, or a step that remains in the plan will make
  it so, or a failure is in `undone`. It has a part for each (`Switching`, `Aims`,
  `UnitInv`, `ReadInv`, `RowInv`, `PortInv`), which each action keeps for every plan it
  occurs in; `NotDoneCases` says what an error turns the plan into.

`SiteBackupsProofs`, for any number of requests, sites, backups, keys and failures,
from `SiteBackupsAssumption`:

- `TypeCorrect` and `RecordedIsThereHolds` follow from one invariant: a key that is
  read or sealed with is that of the key file unless `keyLost` (`Keyed`), a row lists
  what its file holds until a retention removes it (`Filed`), and what each request
  holds at its step.
- `ContentSurvivesHolds`: `RootInv` says who has the root that is not in its place; any
  requests may be at it at once.
- `ReplacedIsSavedHolds`, if no two requests replace parts of one site (`SitesDiffer`;
  the root is protected by its safety backup only from what the request itself does, and
  another deployment in between is not in it): `Replaces` says what the site, the
  archive and the backup hold at each step of a replacement.
- `QuotaHoldsAlways`: when there is too much, some retention has its list before it or
  one that is long enough. A retention chooses once, later backups have retentions of
  their own.
- `RetentionOnlyHolds`: what a retention is about to remove is still in excess when its
  turn comes (`Justified`), because backups recorded meanwhile are newer. Retentions
  that overlap are excepted (`crossed`): of two, one removes what the other's removals
  have already made room for, in the model as in the code.

The sums these two rest on are proved by well-founded induction on sets, in the form
that needs no operator parameter (`WFMin` with
`FS_StrictSubsetOrderingWellFounded`): a least set for which a formula fails.

Only model-checked: liveness; `Endpoints.Handler` and the other tables as such (they
are data). Every invariant and action property of the passing runs is a theorem.
Liveness needs `ENABLED`, which the provers cannot expand.

## Not modelled

- Log reading and TLS inspection: no state of their own. Who may ask for them is in
  `Endpoints`.
- The sandboxed build: `systemd-run` and `npm`; its outcome is an input of a deploy.
- The deployment into a subdirectory, which makes no safety backup, and the limits of
  ZIP archives.
- Password rotation and cache purge of the settings: one external command each.
- Grammar and wording: cron fields, sizes and other values (a size with many digits
  wraps in `int64` before it is compared, `settings.go:541`), generated vhosts, units
  and commands, ownership and modes of files, arguments of endpoints.
- The transport: HTTP, the MCP library, rate limits, framing on the Unix sockets.
- Parsing of flags, printing, installation and lab scripts.

## Plan

In the order of what they would add:

1. Two operations on one Node.js site at once, and on the root of one site, with the
   properties that still hold then.
2. Pure algorithms against reference definitions: `validCronField`, `sizeBytes`, ZIP
   limits, the log read budget.
