------------------------------ MODULE NodeRelease ------------------------------
(***************************************************************************)
(* The Node.js release of one site, as internal/gateway/node.go manages it: *)
(* executeNode with its helpers deployNodeRelease, deactivateFailedNode,    *)
(* rollbackNodeRelease, rollbackNodePointer and currentNodeSettings.        *)
(*                                                                         *)
(* Every operation is a list of steps on things that no transaction joins:  *)
(* the link "current", the unit file, the row of node_configs, the row of   *)
(* node_releases, CloudPanel's port, systemd.  Some failures end it where   *)
(* it is, some turn it into another list that takes back what was done.     *)
(* todo[q] is what remains of the list, mode[q] which list it is.           *)
(*                                                                         *)
(* Abstractions.  A unit is a release and a port; version, entrypoint,      *)
(* arguments and health path are carried along like the port and left out.  *)
(* updateCloudPanelNodeSettings, with its own rollback, is one step:        *)
(* SiteSettings has its parts.  What is refused before the first change -   *)
(* policy, confirmation, a stale revision, a bad archive - is no step.      *)
(***************************************************************************)
EXTENDS Naturals, Sequences

CONSTANTS
    Request,    \* requests the helper works on at once
    Release,    \* identifiers of releases
    Broken,     \* releases that never listen
    Port,       \* loopback ports
    Faults,     \* the kinds of failure that may happen
    MaxFaults,  \* bound: how many of them in one behaviour
    None

ASSUME NodeReleaseAssumption ==
    /\ Broken \subseteq Release
    /\ None \notin Release \cup Port /\ Port # {}
    /\ None \notin [active : Release \cup {None}, previous : Release \cup {None}, port : Port]
    /\ None \notin [release : Release, port : Port]
    /\ None \notin [release : Release, port : Port, state : {"starting", "listening", "down"}]
    /\ MaxFaults \in Nat

Config == [active : Release \cup {None}, previous : Release \cup {None}, port : Port]
Unit == [release : Release, port : Port]
Process == [release : Release, port : Port, state : {"starting", "listening", "down"}]

VARIABLES
    config,          \* the site's row of node_configs
    rows,            \* node_releases: the status of each release
    current,         \* the release the link "current" names
    unit,            \* the unit file
    loaded,          \* the unit systemd has read
    process,         \* what systemd runs
    cloudPanelPort,  \* port in CloudPanel's database
    mode, todo,      \* what each request does, and the steps that remain
    next,            \* the configuration it works towards
    before,          \* the configuration it began with
    expired,         \* whether its deadline has passed
    answer,          \* how it was answered last
    undone,          \* history: steps that failed requests left undone
    faults           \* failures so far

vars == <<config, rows, current, unit, loaded, process, cloudPanelPort, mode, todo,
          next, before, expired, answer, undone, faults>>

-----------------------------------------------------------------------------
\* The steps of each operation, in the order of the code.
Plan ==
    [idle     |-> <<>>,
     adopt    |-> <<"config">>,
     deploy   |-> <<"link", "unit", "config", "row", "reload", "start", "wait">>,
     revert   |-> <<"link", "unit", "config", "reload", "start">>,
     clear    |-> <<"stop", "remove", "reload", "config", "fail">>,
     rollback |-> <<"link", "unit", "config", "reload", "start", "wait", "mark">>,
     update   |-> <<"port", "unit", "reload", "start", "wait", "config">>,
     restore  |-> <<"port", "unit", "reload", "start">>]

Mode == DOMAIN Plan
Undoing == {"revert", "clear", "restore"}
StepName == {"link", "unit", "config", "row", "reload", "start", "wait", "stop",
             "remove", "fail", "mark", "port"}

TypeOK ==
    /\ config \in Config \cup {None}
    /\ rows \in [Release -> {"none", "active", "previous", "failed"}]
    /\ current \in Release \cup {None}
    /\ unit \in Unit \cup {None} /\ loaded \in Unit \cup {None}
    /\ process \in Process \cup {None}
    /\ cloudPanelPort \in Port
    /\ mode \in [Request -> Mode] /\ todo \in [Request -> Seq(StepName)]
    /\ \A q \in Request : \E k \in 0..Len(Plan[mode[q]]) :
         todo[q] = SubSeq(Plan[mode[q]], k + 1, Len(Plan[mode[q]]))
    /\ next \in [Request -> Config \cup {None}]
    /\ before \in [Request -> Config \cup {None}]
    /\ \A q \in Request : /\ next[q] = None <=> mode[q] = "idle"
                          /\ mode[q] \in {"deploy", "rollback", "revert"} => next[q].active # None
    /\ expired \in [Request -> BOOLEAN]
    /\ answer \in [Request -> {"none", "ok", "error"}]
    /\ undone \subseteq StepName
    /\ faults \in 0..MaxFaults

Init ==
    /\ config = None
    /\ rows = [x \in Release |-> "none"]
    /\ current = None /\ unit = None /\ loaded = None /\ process = None
    /\ cloudPanelPort \in Port
    /\ mode = [q \in Request |-> "idle"] /\ todo = [q \in Request |-> <<>>]
    /\ next = [q \in Request |-> None] /\ before = [q \in Request |-> None]
    /\ expired = [q \in Request |-> FALSE]
    /\ answer = [q \in Request |-> "none"]
    /\ undone = {} /\ faults = 0

-----------------------------------------------------------------------------
Files == <<current, unit>>
Tables == <<config, rows>>
Systemd == <<loaded, process>>
Locals == <<mode, todo, next, before, expired, answer>>

Fail(kind) == kind \in Faults /\ faults < MaxFaults /\ faults' = faults + 1

At(q, step) == todo[q] # <<>> /\ Head(todo[q]) = step

Remaining(q) == {todo[q][i] : i \in DOMAIN todo[q]}

UnitOf(n) == [release |-> n.active, port |-> n.port]

\* portInUse
PortInUse(p) == process # None /\ process.state = "listening" /\ process.port = p

Begin(q, m, n) ==
    /\ mode[q] = "idle"
    /\ mode' = [mode EXCEPT ![q] = m]
    /\ todo' = [todo EXCEPT ![q] = Plan[m]]
    /\ next' = [next EXCEPT ![q] = n]
    /\ before' = [before EXCEPT ![q] = config]
    /\ answer' = [answer EXCEPT ![q] = "none"]
    /\ UNCHANGED <<expired, undone>>

Finish(q, a) ==
    /\ mode' = [mode EXCEPT ![q] = "idle"]
    /\ todo' = [todo EXCEPT ![q] = <<>>]
    /\ next' = [next EXCEPT ![q] = None]
    /\ before' = [before EXCEPT ![q] = None]
    /\ expired' = [expired EXCEPT ![q] = FALSE]
    /\ answer' = [answer EXCEPT ![q] = a]

\* What an operation that gets to its end has made good.
Healed(q) ==
    IF mode[q] \in {"deploy", "rollback", "revert"} THEN {"link", "unit", "config", "remove"}
    ELSE IF mode[q] = "update" THEN {"port"} ELSE {}

\* A step is done, the next one follows; a list that takes back ends in an error.
Proceed(q, good) ==
    \/ /\ Len(todo[q]) > 1
       /\ todo' = [todo EXCEPT ![q] = Tail(@)]
       /\ undone' = undone \ good
       /\ UNCHANGED <<mode, next, before, expired, answer>>
    \/ /\ Len(todo[q]) = 1
       /\ Finish(q, IF mode[q] \in Undoing THEN "error" ELSE "ok")
       /\ undone' = undone \ (good \cup Healed(q))

\* What a request that ends too early leaves undone: nothing if nothing was done;
\* otherwise what remains, and for an update the agreement on the port.
LeftUndone(q) ==
    IF mode[q] \notin Undoing /\ todo[q] = Plan[mode[q]] THEN {}
    ELSE Remaining(q) \cup (IF mode[q] = "update" THEN {"port"} ELSE {})

Stop(q) == Finish(q, "error") /\ undone' = undone \cup LeftUndone(q)

\* The operation becomes one that takes back what was done.
Turn(q, m, n) ==
    /\ mode' = [mode EXCEPT ![q] = m]
    /\ todo' = [todo EXCEPT ![q] = Plan[m]]
    /\ next' = [next EXCEPT ![q] = n]
    /\ UNCHANGED <<before, expired, answer, undone>>

\* The error of this step is dropped.
Skip(q) ==
    /\ undone' = undone \cup {Head(todo[q])}
    /\ \/ /\ Len(todo[q]) > 1
          /\ todo' = [todo EXCEPT ![q] = Tail(@)]
          /\ UNCHANGED <<mode, next, before, expired, answer>>
       \/ Len(todo[q]) = 1 /\ Finish(q, "error")

\* What the code does about a step that fails.
NotDone(q) ==
    \/ /\ \/ mode[q] \in {"adopt", "rollback", "revert"}
          \/ mode[q] = "deploy" /\ Head(todo[q]) \in {"link", "unit", "config", "row"}
          \/ mode[q] = "update" /\ Head(todo[q]) \in {"port", "config"}
          \/ mode[q] = "clear" /\ Head(todo[q]) = "config"
       /\ Stop(q)
    \/ /\ mode[q] = "deploy" /\ Head(todo[q]) \in {"reload", "start", "wait"}
       /\ LET old == before[q].active
              back == [active |-> old, previous |-> next[q].active, port |-> next[q].port]
              away == [active |-> None, previous |-> next[q].active, port |-> next[q].port]
          IN  \/ old = None /\ Turn(q, "clear", away)
              \/ old # None /\ rows[old] # "none" /\ Turn(q, "revert", back)
              \/ old # None /\ rows[old] = "none" /\ Stop(q)
    \/ /\ mode[q] = "update" /\ Head(todo[q]) \in {"unit", "reload", "start", "wait"}
       /\ Turn(q, "restore", before[q])
    \/ /\ \/ mode[q] = "restore"
          \/ mode[q] = "clear" /\ Head(todo[q]) # "config"
       /\ Skip(q)

-----------------------------------------------------------------------------
\* currentNodeSettings: the first look at a site takes over CloudPanel's settings.
Adopt(q) ==
    /\ config = None
    /\ Begin(q, "adopt", [active |-> None, previous |-> None, port |-> cloudPanelPort])
    /\ UNCHANGED <<Tables, Files, Systemd, cloudPanelPort, faults>>

\* newID: random, so nothing refers to it yet.
Unused(x) ==
    /\ rows[x] = "none" /\ current # x
    /\ \A c \in {config} \ {None} : x \notin {c.active, c.previous}
    /\ \A u \in {unit, loaded, process} \ {None} : u.release # x

\* deployNodeRelease, up to the release directory.
Deploy(q) ==
    /\ config # None
    /\ ~PortInUse(config.port)
    /\ \E x \in Release :
         /\ Unused(x)
         /\ Begin(q, "deploy", [active |-> x, previous |-> config.active, port |-> config.port])
    /\ UNCHANGED <<Tables, Files, Systemd, cloudPanelPort, faults>>

\* Mutant: nobody checks whether there is a release to return to.
RollbackBlindly(q) ==
    /\ config # None
    /\ Begin(q, "rollback", [active |-> config.previous, previous |-> config.active,
                             port |-> config.port])
    /\ UNCHANGED <<Tables, Files, Systemd, cloudPanelPort, faults>>

\* rollbackNodeRelease, up to the link.
Rollback(q) ==
    /\ config # None
    /\ config.previous # None
    /\ rows[config.previous] # "none"
    /\ Begin(q, "rollback", [active |-> config.previous, previous |-> config.active,
                             port |-> config.port])
    /\ UNCHANGED <<Tables, Files, Systemd, cloudPanelPort, faults>>

\* executeNode (nodeUpdate), up to the change of CloudPanel's settings.
Update(q) ==
    /\ config # None
    /\ \E p \in Port :
         /\ p # config.port => ~PortInUse(p)
         /\ Begin(q, "update", [config EXCEPT !.port = p])
    /\ UNCHANGED <<Tables, Files, Systemd, cloudPanelPort, faults>>

-----------------------------------------------------------------------------
\* os.Symlink and os.Rename of "current"
Link(q) ==
    /\ At(q, "link")
    /\ current' = next[q].active
    /\ Proceed(q, {})
    /\ UNCHANGED <<Tables, unit, Systemd, cloudPanelPort, faults>>

\* writeNodeUnit; an update first looks the active release up.
WriteUnit(q) ==
    /\ At(q, "unit")
    /\ mode[q] = "update" => rows[next[q].active] # "none"
    /\ unit' = UnitOf(next[q])
    /\ Proceed(q, {})
    /\ UNCHANGED <<Tables, current, Systemd, cloudPanelPort, faults>>

\* An active release without a row ends an update although the port is changed.
ReleaseUnavailable(q) ==
    /\ At(q, "unit")
    /\ mode[q] = "update" /\ rows[next[q].active] = "none"
    /\ Stop(q)
    /\ UNCHANGED <<Tables, Files, Systemd, cloudPanelPort, faults>>

\* Mutant: the unit of a failed first deploy is disabled only.
LeaveUnit(q) ==
    /\ At(q, "remove")
    /\ Proceed(q, {})
    /\ UNCHANGED <<Tables, Files, Systemd, cloudPanelPort, faults>>

RemoveUnit(q) ==
    /\ At(q, "remove")
    /\ unit' = None
    /\ Proceed(q, {})
    /\ UNCHANGED <<Tables, current, Systemd, cloudPanelPort, faults>>

\* Mutant: the way back forgets the configuration.
PutConfigForward(q) ==
    /\ At(q, "config")
    /\ config' = IF mode[q] \in Undoing THEN config ELSE next[q]
    /\ Proceed(q, {})
    /\ UNCHANGED <<rows, Files, Systemd, cloudPanelPort, faults>>

\* putNodeConfig, an upsert of all columns; a failed first deploy leaves no trace.
PutConfig(q) ==
    /\ At(q, "config")
    /\ config' = IF mode[q] = "clear" THEN [next[q] EXCEPT !.previous = None] ELSE next[q]
    /\ Proceed(q, {})
    /\ UNCHANGED <<rows, Files, Systemd, cloudPanelPort, faults>>

\* Mutant: an UPDATE in place of the INSERT.
UpdateRow(q) ==
    /\ At(q, "row")
    /\ rows' = [rows EXCEPT ![next[q].active] = IF @ = "none" THEN @ ELSE "active"]
    /\ Proceed(q, {})
    /\ UNCHANGED <<config, Files, Systemd, cloudPanelPort, faults>>

\* INSERT INTO node_releases
InsertRow(q) ==
    /\ At(q, "row")
    /\ rows' = [rows EXCEPT ![next[q].active] = "active"]
    /\ Proceed(q, {})
    /\ UNCHANGED <<config, Files, Systemd, cloudPanelPort, faults>>

\* A file cannot be written, or the database is busy.
WriteFails(q) ==
    /\ \/ \E step \in {"link", "unit", "remove"} : At(q, step) /\ Fail("write")
       \/ \E step \in {"config", "row"} : At(q, step) /\ Fail("database")
    /\ NotDone(q)
    /\ UNCHANGED <<Tables, Files, Systemd, cloudPanelPort>>

\* The statuses at the end of a rollback and of a failed first deploy; an error
\* of either statement is dropped.
MarkRows(q) ==
    /\ \/ /\ At(q, "mark")
          /\ rows' = [x \in Release |->
                        IF rows[x] = "none" THEN "none"
                        ELSE IF x = next[q].active THEN "active"
                        ELSE IF x = next[q].previous THEN "previous" ELSE rows[x]]
       \/ At(q, "fail") /\ rows' = [rows EXCEPT ![next[q].previous] = "failed"]
    /\ Proceed(q, {})
    /\ UNCHANGED <<config, Files, Systemd, cloudPanelPort, faults>>

RowsNotMarked(q) ==
    /\ At(q, "mark") \/ At(q, "fail")
    /\ Fail("database")
    /\ Proceed(q, {})
    /\ UNCHANGED <<Tables, Files, Systemd, cloudPanelPort>>

\* Mutant: a failed update keeps the new port.
SetPortForward(q) ==
    /\ At(q, "port")
    /\ cloudPanelPort' = IF mode[q] = "restore" THEN cloudPanelPort ELSE next[q].port
    /\ \/ next[q].active # None /\ Proceed(q, {})
       \/ /\ next[q].active = None
          /\ todo' = [todo EXCEPT ![q] = <<"config">>]
          /\ UNCHANGED <<mode, next, before, expired, answer, undone>>
    /\ ~expired[q]
    /\ UNCHANGED <<Tables, Files, Systemd, faults>>

\* updateCloudPanelNodeSettings; without an active release nothing runs yet.
SetPort(q) ==
    /\ At(q, "port")
    /\ cloudPanelPort' = next[q].port
    /\ \/ next[q].active # None /\ Proceed(q, {})
       \/ /\ next[q].active = None
          /\ todo' = [todo EXCEPT ![q] = <<"config">>]
          /\ UNCHANGED <<mode, next, before, expired, answer, undone>>
    /\ ~expired[q]
    /\ UNCHANGED <<Tables, Files, Systemd, faults>>

SetPortFails(q) ==
    /\ At(q, "port")
    /\ \/ expired[q] /\ UNCHANGED faults
       \/ Fail("nginx")
    /\ NotDone(q)
    /\ UNCHANGED <<Tables, Files, Systemd, cloudPanelPort>>

\* The row is committed, but Nginx does not get the port: the vhost cannot be read
\* and nothing is taken back, or the error of the UPDATE that takes it back is dropped.
SetPortHalfWay(q) ==
    /\ At(q, "port")
    /\ \/ expired[q] /\ UNCHANGED faults
       \/ Fail("nginx")
    /\ cloudPanelPort' = next[q].port
    /\ \/ mode[q] = "update" /\ Finish(q, "error") /\ undone' = undone \cup {"port"}
       \/ mode[q] = "restore" /\ Skip(q)
    /\ UNCHANGED <<Tables, Files, Systemd>>

-----------------------------------------------------------------------------
\* systemd reads a unit it does not know when it is asked to start it.
Known == IF loaded = None THEN unit ELSE loaded

Starting(u) == [release |-> u.release, port |-> u.port, state |-> "starting"]

Active == process # None /\ process.state # "down"

\* What systemctl does: daemon-reload; restart, or for a deploy enable --now,
\* which leaves an active service alone; disable --now.
Effect(q) ==
    \/ At(q, "reload") /\ loaded' = unit /\ UNCHANGED process
    \/ /\ At(q, "start") /\ Known # None
       /\ loaded' = Known
       /\ process' = IF mode[q] = "deploy" /\ Active THEN process ELSE Starting(Known)
    \/ At(q, "stop") /\ process' = None /\ UNCHANGED loaded

Systemctl(q) ==
    /\ ~expired[q]
    /\ Effect(q)
    /\ Proceed(q, {Head(todo[q])} \cap {"reload"})
    /\ UNCHANGED <<Tables, Files, cloudPanelPort, faults>>

\* The command fails, or is killed when it has done its work; after the deadline
\* it is not run at all.
SystemctlFails(q) ==
    /\ \E step \in {"reload", "start", "stop"} : At(q, step)
    /\ \/ Fail("command") /\ (Effect(q) \/ UNCHANGED Systemd)
       \/ expired[q] /\ UNCHANGED <<Systemd, faults>>
       \/ At(q, "start") /\ Known = None /\ UNCHANGED <<Systemd, faults>>
    /\ NotDone(q)
    /\ UNCHANGED <<Tables, Files, cloudPanelPort>>

\* waitNodeReady: somebody listens on the port.
Ready(q) ==
    /\ At(q, "wait")
    /\ ~expired[q] /\ PortInUse(next[q].port)
    /\ Proceed(q, {})
    /\ UNCHANGED <<Tables, Files, Systemd, cloudPanelPort, faults>>

NotReady(q) ==
    /\ At(q, "wait")
    /\ expired[q] \/ ~PortInUse(next[q].port)
    /\ NotDone(q)
    /\ UNCHANGED <<Tables, Files, Systemd, cloudPanelPort, faults>>

\* executeNode (nodeRestart)
Restart ==
    /\ config # None /\ Known # None
    /\ loaded' = Known /\ process' = Starting(Known)
    /\ UNCHANGED <<Tables, Files, cloudPanelPort, Locals, undone, faults>>

-----------------------------------------------------------------------------
Listen ==
    /\ process # None
    /\ process.state = "starting" /\ process.release \notin Broken
    /\ process' = [process EXCEPT !.state = "listening"]
    /\ UNCHANGED <<Tables, Files, loaded, cloudPanelPort, Locals, undone, faults>>

\* Restart=on-failure: a service that failed comes back, one that exited does not.
Exit ==
    /\ Active
    /\ \/ process' = [process EXCEPT !.state = "down"]
       \/ process' = None
    /\ UNCHANGED <<Tables, Files, loaded, cloudPanelPort, Locals, undone, faults>>

ComeBack ==
    /\ process # None /\ process.state = "down" /\ loaded # None
    /\ process' = Starting(loaded)
    /\ UNCHANGED <<Tables, Files, loaded, cloudPanelPort, Locals, undone, faults>>

\* The 90 seconds of the helper are over.
Expire(q) ==
    /\ mode[q] # "idle" /\ ~expired[q]
    /\ Fail("deadline")
    /\ expired' = [expired EXCEPT ![q] = TRUE]
    /\ UNCHANGED <<Tables, Files, Systemd, cloudPanelPort, mode, todo, next, before,
                   answer, undone>>

\* The helper dies and starts again.
Crash ==
    /\ Fail("crash")
    /\ undone' = undone \cup UNION {LeftUndone(q) : q \in Request}
    /\ mode' = [q \in Request |-> "idle"] /\ todo' = [q \in Request |-> <<>>]
    /\ next' = [q \in Request |-> None] /\ before' = [q \in Request |-> None]
    /\ expired' = [q \in Request |-> FALSE]
    /\ answer' = [q \in Request |-> "none"]
    /\ UNCHANGED <<Tables, Files, Systemd, cloudPanelPort>>

Operation(q) == Adopt(q) \/ Deploy(q) \/ Rollback(q) \/ Update(q)

Step(q) ==
    \/ Link(q) \/ WriteUnit(q) \/ ReleaseUnavailable(q) \/ RemoveUnit(q)
    \/ PutConfig(q) \/ InsertRow(q) \/ WriteFails(q) \/ MarkRows(q) \/ RowsNotMarked(q)
    \/ SetPort(q) \/ SetPortFails(q) \/ SetPortHalfWay(q) \/ Systemctl(q)
    \/ SystemctlFails(q) \/ Ready(q) \/ NotReady(q)

Next ==
    \/ \E q \in Request : Operation(q) \/ Step(q) \/ Expire(q)
    \/ Restart \/ Listen \/ Exit \/ ComeBack \/ Crash

Spec == Init /\ [][Next]_vars

-----------------------------------------------------------------------------
Resting == \A q \in Request : mode[q] = "idle"

Intact(steps) == undone \cap steps = {}

\* However operations end, the unit and the link are those of the release that is
\* recorded as active, on the recorded port, and systemd has read that unit, unless
\* a failure stopped a request between them; the next deploy or rollback that
\* succeeds makes that good, too.
UnitFollowsConfig ==
    Resting /\ Intact({"link", "unit", "config", "remove"}) =>
        /\ IF config = None \/ config.active = None THEN unit = None
           ELSE unit = UnitOf(config) /\ current = config.active
        /\ Intact({"reload"}) => loaded = unit

\* The port the gateway records is the one CloudPanel stores, also after an update
\* that failed at any later step and went back.  Excepted: updates whose hand-over of
\* the port got stuck half way, or that left the port behind when they went back, were
\* cut off by a crash or found no row of their release; until an update succeeds.
PortsAgree ==
    Resting /\ Intact({"port"}) /\ config # None =>
        cloudPanelPort = config.port

\* The release a rollback would return to is on record.
PreviousCanReturn ==
    Intact({"row"}) /\ config # None /\ config.previous # None => rows[config.previous] # "none"

\* An operation that succeeds has recorded what it was asked for; a deploy or an
\* update that fails has kept release and port.  (A rollback that fails has not.)
AllOrNothing ==
    [][\A q \in Request :
         mode[q] # "idle" /\ mode'[q] = "idle" =>
           /\ answer'[q] = "ok" => config' = next[q]
           /\ answer'[q] = "error" /\ mode[q] # "rollback"
                /\ undone' \cap {"config", "row"} = {} /\ before[q] # None =>
                config'.active = before[q].active /\ config'.port = before[q].port]_vars

\* usage.md: a deploy "requires the process to become reachable".
DeployedServes ==
    [][\A q \in Request :
         mode[q] = "deploy" /\ mode'[q] = "idle" /\ answer'[q] = "ok" =>
           process.release = next[q].active]_vars
=============================================================================
