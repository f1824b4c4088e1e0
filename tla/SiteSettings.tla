---------------------------- MODULE SiteSettings ----------------------------
(***************************************************************************)
(* Changing the settings of a site: executeSettings and mutateSite of       *)
(* internal/gateway/settings.go, executeStatic of static.go and             *)
(* updateCloudPanelNodeSettings of node.go, run by the helper's goroutines, *)
(* each of which sends its vhost to the service of NginxCommit.             *)
(*                                                                         *)
(* Root directory (PHP settings alike) and PageSpeed are columns of         *)
(* CloudPanel's site row and lines of the vhost; the change of the row      *)
(* waits in an open transaction for Nginx.  The proxy port is stored before *)
(* the vhost is changed; the SPA fallback is in the vhost only.             *)
(*                                                                         *)
(* Abstractions.  A vhost is its four managed settings, a revision the data *)
(* its HMAC is computed from; a request's connection to the service bears   *)
(* the request's name.  SQLite is modelled as in Cron.                      *)
(***************************************************************************)
EXTENDS Naturals, FiniteSets

CONSTANTS
    Request,     \* connections the helper serves at once
    Domain,      \* sites
    Asks,        \* the updates each request may make: an operation of a site
    Value,       \* root directories, and proxy ports
    Default,     \* their values before the first request
    Faults,      \* the kinds of failure that may happen
    MaxFaults,   \* bound: how many of them in one behaviour
    MaxTime,     \* bound: the last second the clock shows
    MaxRunning,  \* bound: requests past their revision check at once
    None

Operation == {"root", "pagespeed", "static", "port"}
Vhost == [root : Value, pagespeed : BOOLEAN, port : Value, static : BOOLEAN]
Row == [root : Value, pagespeed : BOOLEAN, port : Value, at : Nat]
Ask == [op : Operation, domain : Domain]

ASSUME SiteSettingsAssumption ==
    /\ Asks \in [Request -> SUBSET Ask]
    /\ Default \in Value
    /\ IsFiniteSet(Request)
    /\ MaxFaults \in Nat /\ MaxTime \in Nat /\ MaxRunning \in Nat
    /\ None \notin Request \cup Ask \cup Value \cup Vhost \cup Row \cup {"plain", "cached"}
    /\ None \notin [domain : Domain, content : Vhost, global : BOOLEAN]

VARIABLES
    site,     \* committed rows of site, with the port of nodejs_settings
    writer,   \* the request that holds SQLite's write lock
    step,     \* where each request is
    ask,      \* the operation and the site it names
    seen,     \* the revision the client was given
    change,   \* the value to set
    original, \* the vhost it read
    pending,  \* the row its transaction commits, or the row it is to replace
    now,      \* the clock, in seconds
    lost      \* history: sites whose request or commit died half-way or was not undone

VARIABLES vhost, nginxConf, live, pc, job, before, globalBefore, committed,
          torn, skipped, faults

serviceVars == <<vhost, nginxConf, live, pc, job, before, globalBefore,
                 committed, torn, skipped, faults>>
vars == <<site, writer, step, ask, seen, change, original, pending, now, lost, serviceVars>>

Fresh == [root |-> Default, pagespeed |-> FALSE, port |-> Default, static |-> FALSE]

Service == INSTANCE NginxCommit WITH
    Connection <- Request,
    Initial <- [d \in Domain |-> Fresh],
    Rejected <- {},
    Speedy <- {v \in Vhost : v.pagespeed},
    Requests <- [r \in Request |-> {}]

-----------------------------------------------------------------------------
Stage == {"idle", "informed", "verified", "stored", "patched", "committing", "undoing"}
Stored == {"root", "pagespeed"}  \* operations of mutateSite
Values(op) == IF op \in {"root", "port"} THEN Value ELSE BOOLEAN

\* page_speed_settings are hashed and are empty until PageSpeed is on; the port is
\* not hashed.  The static revision hashes the vhost; the port has the revision of
\* the gateway's own Node.js settings.
Revision(a) ==
    CASE a.op \in Stored -> [root |-> site[a.domain].root,
                             pagespeed |-> site[a.domain].pagespeed,
                             at |-> site[a.domain].at]
      [] a.op = "static" -> vhost[a.domain]
      [] a.op = "port"   -> None

TypeOK ==
    /\ Service!TypeOK
    /\ site \in [Domain -> Row]
    /\ writer \in {r \in Request : step[r] \in {"committing", "undoing"}} \cup {None}
    /\ step \in [Request -> Stage]
    /\ ask \in [Request -> Ask \cup {None}]
    /\ seen \in [Request -> Vhost \cup [root : Value, pagespeed : BOOLEAN, at : Nat] \cup {None}]
    /\ change \in [Request -> Value \cup BOOLEAN \cup {None}]
    /\ original \in [Request -> Vhost \cup {None}]
    /\ pending \in [Request -> Row \cup {None}]
    /\ now \in 0..MaxTime
    /\ lost \subseteq Domain

Init ==
    /\ Service!Init
    /\ site = [d \in Domain |->
                 [root |-> Default, pagespeed |-> FALSE, port |-> Default, at |-> 0]]
    /\ writer = None
    /\ step = [r \in Request |-> "idle"]
    /\ ask = [r \in Request |-> None]
    /\ seen = [r \in Request |-> None]
    /\ change = [r \in Request |-> None]
    /\ original = [r \in Request |-> None]
    /\ pending = [r \in Request |-> None]
    /\ now = 0
    /\ lost = {}

-----------------------------------------------------------------------------
Locals == <<ask, seen, change, original, pending>>
Database == <<site, writer>>
Rest == <<vhost, nginxConf, live, before, globalBefore, committed, torn, skipped>>

MayFail(kind) == kind \in Faults /\ faults < MaxFaults
Fail(kind) == MayFail(kind) /\ faults' = faults + 1

Goto(r, stage) == step' = [step EXCEPT ![r] = stage]

\* Mutant: the transaction is neither rolled back nor closed.
ReturnOpen(r) ==
    /\ Goto(r, "idle")
    /\ UNCHANGED writer
    /\ ask' = [ask EXCEPT ![r] = None]
    /\ seen' = [seen EXCEPT ![r] = None]
    /\ change' = [change EXCEPT ![r] = None]
    /\ original' = [original EXCEPT ![r] = None]
    /\ pending' = [pending EXCEPT ![r] = None]

\* The operation returns: a transaction that is still open is rolled back.
Return(r) ==
    /\ Goto(r, "idle")
    /\ writer' = IF writer = r THEN None ELSE writer
    /\ ask' = [ask EXCEPT ![r] = None]
    /\ seen' = [seen EXCEPT ![r] = None]
    /\ change' = [change EXCEPT ![r] = None]
    /\ original' = [original EXCEPT ![r] = None]
    /\ pending' = [pending EXCEPT ![r] = None]

\* CallNginxCommit, with or without the PageSpeed prerequisite.
Call(r, content, global) ==
    /\ job' = [job EXCEPT ![r] = [domain |-> ask[r].domain, content |-> content,
                                  global |-> global]]
    /\ pc' = [pc EXCEPT ![r] = "received"]

\* The answer has been taken and the connection closed.
HangUp(r) == pc' = [pc EXCEPT ![r] = "idle"]

\* A client reads the settings of a site and gets the revision to send back.
Get(r) ==
    /\ step[r] = "idle" /\ pc[r] = "idle"
    /\ \E a \in Asks[r] : /\ ask' = [ask EXCEPT ![r] = a]
                          /\ seen' = [seen EXCEPT ![r] = Revision(a)]
    /\ Goto(r, "informed")
    /\ UNCHANGED <<serviceVars, Database, change, original, pending, now, lost>>

Running(r) == step[r] \notin {"idle", "informed"}

\* The revision is compared with what is read now and the value validated; the
\* routing of a static site is patched into the very content compared, and the
\* port to return to is read with the revision.
Verify(r) ==
    /\ step[r] = "informed"
    /\ seen[r] = Revision(ask[r])
    /\ Cardinality({q \in Request : Running(q)}) < MaxRunning
    /\ \E v \in Values(ask[r].op) : change' = [change EXCEPT ![r] = v]
    /\ \/ /\ ask[r].op = "static"
          /\ original' = [original EXCEPT ![r] = vhost[ask[r].domain]]
          /\ Goto(r, "patched")
       \/ /\ ask[r].op # "static"
          /\ Goto(r, "verified")
          /\ UNCHANGED original
    /\ pending' = IF ask[r].op = "port"
                  THEN [pending EXCEPT ![r] = site[ask[r].domain]] ELSE pending
    /\ UNCHANGED <<serviceVars, Database, ask, seen, now, lost>>

Conflict(r) ==
    /\ step[r] = "informed"
    /\ seen[r] # Revision(ask[r])
    /\ Return(r)
    /\ UNCHANGED <<serviceVars, site, now, lost>>

\* updateCloudPanelNodeSettings: one transaction, committed before the vhost
\* is read.
StorePort(r) ==
    /\ step[r] = "verified"
    /\ ask[r].op = "port"
    /\ writer = None
    /\ site' = [site EXCEPT ![ask[r].domain].port = change[r],
                            ![ask[r].domain].at = now]
    /\ Goto(r, "stored")
    /\ UNCHANGED <<serviceVars, writer, Locals, now, lost>>

ReadsVhost(r) ==
    \/ step[r] = "verified" /\ ask[r].op \in Stored
    \/ step[r] = "stored"

\* The vhost is read, and for PageSpeed nginx.conf before it.
ReadOriginal(r) ==
    /\ ReadsVhost(r)
    /\ ask[r].op = "pagespeed" => nginxConf \in {"plain", "cached"}
    /\ original' = [original EXCEPT ![r] = vhost[ask[r].domain]]
    /\ Goto(r, "patched")
    /\ UNCHANGED <<serviceVars, Database, ask, seen, change, pending, now, lost>>

\* No recognisable nginx.conf, or the vhost cannot be read.
ReadFails(r) ==
    /\ ReadsVhost(r)
    /\ \/ ask[r].op = "pagespeed" /\ nginxConf \in {"empty", "mixed"} /\ UNCHANGED faults
       \/ Fail("read")
    /\ Return(r)
    /\ UNCHANGED <<site, now, lost, Rest, pc, job>>

\* Mutant: the vhost is generated again instead of being patched.
RenderedVhost(r) == [Fresh EXCEPT ![ask[r].op] = change[r]]
PatchedVhost(r) == [original[r] EXCEPT ![ask[r].op] = change[r]]

\* Mutant: the row is not written before Nginx is asked, so no lock is held.
UpdateUnlocked(r) ==
    /\ step[r] = "patched"
    /\ ask[r].op \in Stored
    /\ pending' = [pending EXCEPT ![r] =
                     [site[ask[r].domain] EXCEPT ![ask[r].op] = change[r], !.at = now]]
    /\ Call(r, PatchedVhost(r), ask[r].op = "pagespeed")
    /\ Goto(r, "committing")
    /\ UNCHANGED <<Rest, faults, Database, ask, seen, change, original, now, lost>>

\* The UPDATE takes the write lock; then Nginx is asked.
Update(r) ==
    /\ step[r] = "patched"
    /\ ask[r].op \in Stored
    /\ writer = None
    /\ writer' = r
    /\ pending' = [pending EXCEPT ![r] =
                     [site[ask[r].domain] EXCEPT ![ask[r].op] = change[r], !.at = now]]
    /\ Call(r, PatchedVhost(r), ask[r].op = "pagespeed")
    /\ Goto(r, "committing")
    /\ UNCHANGED <<Rest, faults, site, ask, seen, change, original, now, lost>>

\* Another request holds the write lock for the whole busy_timeout.
Busy(r) ==
    /\ \/ step[r] = "patched" /\ ask[r].op \in Stored
       \/ step[r] = "verified" /\ ask[r].op = "port"
    /\ writer # None
    /\ Return(r)
    /\ UNCHANGED <<serviceVars, site, now, lost>>

\* Static and Node.js sites ask Nginx without a transaction.
Send(r) ==
    /\ step[r] = "patched"
    /\ ask[r].op \notin Stored
    /\ Call(r, PatchedVhost(r), FALSE)
    /\ Goto(r, "committing")
    /\ UNCHANGED <<Rest, faults, Database, Locals, now, lost>>

Commit(r) ==
    /\ step[r] = "committing" /\ pc[r] = "ok"
    /\ ask[r].op \in Stored
    /\ site' = [site EXCEPT ![ask[r].domain] = pending[r]]
    /\ HangUp(r)
    /\ Return(r)
    /\ UNCHANGED <<Rest, job, faults, now, lost>>

\* Mutant: a failed commit is only reported.
ReportCommitFailure(r) ==
    /\ step[r] = "committing" /\ pc[r] = "ok"
    /\ ask[r].op \in Stored
    /\ Fail("commit")
    /\ HangUp(r)
    /\ Return(r)
    /\ UNCHANGED <<Rest, job, site, now, lost>>

\* The commit fails: Nginx is given the old vhost back, the lock still held.
CommitFails(r) ==
    /\ step[r] = "committing" /\ pc[r] = "ok"
    /\ ask[r].op \in Stored
    /\ Fail("commit")
    /\ Call(r, original[r], FALSE)
    /\ Goto(r, "undoing")
    /\ UNCHANGED <<Rest, Database, Locals, now, lost>>

\* Mutant: the transaction is not ended when Nginx refuses.
FinishAccepted(r) ==
    /\ \/ step[r] = "committing" /\ pc[r] = "ok" /\ ask[r].op \notin Stored
       \/ step[r] = "undoing" /\ pc[r] = "ok"
    /\ HangUp(r)
    /\ Return(r)
    /\ UNCHANGED <<Rest, job, faults, site, now, lost>>

\* Nginx refused or has taken the old vhost back, or no row waits for it.
Finish(r) ==
    /\ \/ step[r] = "committing" /\ pc[r] = "error" /\ ask[r].op # "port"
       \/ step[r] = "committing" /\ pc[r] = "ok" /\ ask[r].op \notin Stored
       \/ step[r] = "undoing" /\ pc[r] \in {"ok", "error"}
    /\ HangUp(r)
    /\ Return(r)
    /\ UNCHANGED <<Rest, job, faults, site, now, lost>>

\* Mutant: the stored port stays when Nginx refuses the vhost.
KeepPort(r) ==
    /\ step[r] = "committing" /\ pc[r] = "error"
    /\ ask[r].op = "port"
    /\ HangUp(r)
    /\ Return(r)
    /\ UNCHANGED <<Rest, job, faults, site, now, lost>>

\* The old port is stored again, and nothing else of the row, unless the lock
\* cannot be had: that error is dropped.
RestorePort(r) ==
    /\ step[r] = "committing" /\ pc[r] = "error"
    /\ ask[r].op = "port"
    /\ \/ /\ writer = None
          /\ site' = [site EXCEPT ![ask[r].domain].port = pending[r].port]
       \/ writer # None /\ UNCHANGED site
    /\ HangUp(r)
    /\ Return(r)
    /\ UNCHANGED <<Rest, job, faults, now, lost>>

\* The helper dies; SQLite rolls back, the Nginx service goes on.
HelperCrash ==
    /\ Fail("restart")
    /\ lost' = lost \cup
         {ask[r].domain : r \in {q \in Request : step[q] \in {"stored", "patched", "committing", "undoing"}}}
    /\ step' = [r \in Request |-> "idle"]
    /\ writer' = None
    /\ ask' = [r \in Request |-> None]
    /\ seen' = [r \in Request |-> None]
    /\ change' = [r \in Request |-> None]
    /\ original' = [r \in Request |-> None]
    /\ pending' = [r \in Request |-> None]
    /\ UNCHANGED <<Rest, pc, job, site, now>>

\* An answer that nobody waits for.
Unheard(r) ==
    /\ step[r] = "idle" /\ pc[r] \in {"ok", "error"}
    /\ HangUp(r)
    /\ UNCHANGED <<Rest, job, faults, Database, step, Locals, now, lost>>

Tick ==
    /\ now < MaxTime
    /\ now' = now + 1
    /\ UNCHANGED <<serviceVars, Database, step, Locals, lost>>

Handle(r) ==
    \/ Verify(r) \/ Conflict(r) \/ StorePort(r) \/ ReadOriginal(r)
    \/ Update(r) \/ Busy(r) \/ Send(r) \/ Commit(r) \/ Finish(r) \/ RestorePort(r)
    \/ Unheard(r)

\* The service works for a request, fails for it, or dies.
Serve(r) ==
    /\ Service!Serve(r)
    /\ UNCHANGED <<Database, step, Locals, now, lost>>

ServiceFails ==
    /\ \/ \E r \in Request : Service!Failure(r)
       \/ Service!Crash
    /\ lost' = lost \cup torn'
    /\ UNCHANGED <<Database, step, Locals, now>>

Next ==
    \/ \E r \in Request :
         Get(r) \/ Handle(r) \/ Serve(r) \/ ReadFails(r) \/ CommitFails(r)
    \/ ServiceFails
    \/ HelperCrash
    \/ Tick

Spec == Init /\ [][Next]_vars

\* The goroutines of both processes are scheduled; commands have a deadline.
FairSpec == Spec /\ \A r \in Request : WF_vars(Handle(r)) /\ WF_vars(Serve(r))

-----------------------------------------------------------------------------
AtRest == /\ \A r \in Request : step[r] \in {"idle", "informed"}
          /\ Service!AtRest

\* When nothing is running, the vhost of a site has the root, PageSpeed and port
\* its row has: a change is made in both or in neither.  Left out are sites whose request
\* or commit died half-way or whose vhost could not be put back: the drift GET reports.
NoDrift ==
    AtRest => \A d \in Domain \ lost :
        /\ vhost[d].root = site[d].root
        /\ vhost[d].pagespeed = site[d].pagespeed
        /\ vhost[d].port = site[d].port

\* usage.md: stale changes fail instead of overwriting a newer configuration.
\* What a successful update puts into effect differs from what was in effect in
\* the one setting it names.
KeepsOtherSettings ==
    [][\A r \in Request :
        (pc[r] = "tested" /\ pc'[r] = "ok" /\ step[r] = "committing"
            /\ ask[r].domain \notin lost) =>
        \A f \in Operation \ {ask[r].op} :
            job[r].content[f] = committed[ask[r].domain][f]]_vars

\* The write lock is held while Nginx is asked, so two PageSpeed updates are never
\* in the service at once and no rollback takes FileCachePath away from a vhost
\* that needs it: while no site is lost, the service rests on files Nginx accepts.
RestIsValid == lost = {} => Service!RestIsValid

\* The write lock is held across a call of another process and yet always freed,
\* also when that process refuses or dies.
LockIsFreed == \A r \in Request : writer = r ~> writer # r

-----------------------------------------------------------------------------
\* mutateSite as a write-through: the row is the store, the vhost shows it.
Settings == [root : Value, pagespeed : BOOLEAN]
SettingsOf(r) == [root |-> r.root, pagespeed |-> r.pagespeed]

Implements == INSTANCE WriteThrough WITH
    Key <- Domain, Value <- Settings,
    stored <- [d \in Domain |-> SettingsOf(site[d])],
    shown <- [d \in Domain |-> SettingsOf(vhost[d])]

\* With one failure at a time, a vhost is changed only to have its row committed
\* or to be put back, and no other vhost is changed until then.
WritesThrough == Implements!Spec
=============================================================================
