----------------------------- MODULE NginxCommit -----------------------------
(***************************************************************************)
(* The Nginx commit service: internal/gateway/nginx_commit.go.  A root-only *)
(* process replaces the vhost of one domain, and for PageSpeed also patches *)
(* nginx.conf, tests the whole configuration, reloads Nginx and puts the    *)
(* files back when one of the two fails.  Every connection is served by a   *)
(* goroutine of its own and nothing serialises them.                        *)
(*                                                                         *)
(* Abstractions.  A vhost is an opaque value, written by an atomic rename.  *)
(* nginx.conf is known by the one setting the service may add to it; it is  *)
(* truncated and written in place, so that it is empty in between and may   *)
(* end as a mixture.  `nginx -t' and a reload read all the files.           *)
(***************************************************************************)
EXTENDS Naturals

CONSTANTS
    Connection,  \* connections the service has open
    Domain,      \* sites of the server, each with a vhost
    Vhost,       \* contents of a vhost
    Initial,     \* the vhosts before the first request
    Rejected,    \* contents `nginx -t' refuses
    Speedy,      \* contents that need FileCachePath in nginx.conf
    Requests,    \* what each connection may ask for
    Faults,      \* the kinds of failure that may happen
    MaxFaults,   \* bound: how many of them in one behaviour
    None

NginxCommitRequest == [domain : Domain, content : Vhost, global : BOOLEAN]
FaultKind == {"crash", "command", "write", "undo"}

ASSUME NginxCommitAssumption ==
    /\ Rejected \subseteq Vhost /\ Speedy \subseteq Vhost
    /\ Initial \in [Domain -> Vhost \ (Rejected \cup Speedy)]
    /\ Requests \in [Connection -> SUBSET NginxCommitRequest]
    /\ Faults \subseteq FaultKind /\ MaxFaults \in Nat
    /\ None \notin NginxCommitRequest \cup Vhost \cup STRING

VARIABLES
    vhost,         \* sites-enabled/<domain>.conf
    nginxConf,     \* nginx.conf
    live,          \* the files Nginx last loaded
    pc,            \* where each connection is in commitNginxVhost
    job,           \* the request it carries
    before,        \* the vhost it read
    globalBefore,  \* the nginx.conf it read
    committed,     \* history: per domain, what was last answered with OK
    torn,          \* history: domains whose vhost was left as it was written: the
                   \* service died, or the vhost could not be put back
    skipped,       \* history: what was left undone since the last good reload
    faults         \* failures so far

vars == <<vhost, nginxConf, live, pc, job, before, globalBefore, committed,
          torn, skipped, faults>>

-----------------------------------------------------------------------------
NginxConf == {"plain", "cached", "empty", "mixed"}
Answered == {"idle", "ok", "error"}
Stage == Answered \cup
    {"received", "read", "checked", "truncated", "patched", "written", "tested",
     "failed", "restored", "emptied", "reverted", "abandoned", "dropped"}

\* From the rename of the vhost until it is answered or put back.
Rewriting == {"written", "tested", "failed"}

\* A file written in place over a longer one keeps the longer one's tail.
Overwrite(file, content) ==
    IF content = "plain" /\ file \in {"cached", "mixed"} THEN "mixed" ELSE content

\* What a failing write in place may leave: nothing, a part, or all of it when
\* only the sync or the close failed.
CutShort(file, content) == {"empty", "mixed", Overwrite(file, content)}

\* nginx -t
Accepts(files, conf) ==
    /\ conf \in {"plain", "cached"}
    /\ \A d \in Domain : /\ files[d] \notin Rejected
                         /\ files[d] \in Speedy => conf = "cached"

OnDisk == [vhost |-> vhost, conf |-> nginxConf]

MayFail(kind) == kind \in Faults /\ faults < MaxFaults
Fail(kind) == MayFail(kind) /\ faults' = faults + 1

TypeOK ==
    /\ vhost \in [Domain -> Vhost] /\ committed \in [Domain -> Vhost]
    /\ nginxConf \in NginxConf
    /\ live \in [vhost : [Domain -> Vhost], conf : {"plain", "cached"}]
    /\ pc \in [Connection -> Stage]
    /\ job \in [Connection -> NginxCommitRequest \cup {None}]
    /\ before \in [Connection -> Vhost \cup {None}]
    /\ globalBefore \in [Connection -> {"plain", "cached", None}]
    /\ torn \subseteq Domain /\ skipped \subseteq {"nginx.conf", "reload"}
    /\ faults \in 0..MaxFaults

Init ==
    /\ vhost = Initial /\ committed = Initial
    /\ nginxConf = "plain"
    /\ live = [vhost |-> Initial, conf |-> "plain"]
    /\ pc = [c \in Connection |-> "idle"]
    /\ job = [c \in Connection |-> None]
    /\ before = [c \in Connection |-> None]
    /\ globalBefore = [c \in Connection |-> None]
    /\ torn = {} /\ skipped = {}
    /\ faults = 0

-----------------------------------------------------------------------------
Goto(c, stage) == pc' = [pc EXCEPT ![c] = stage]

\* The connection is answered and closed.
Answer(c, answer) ==
    /\ Goto(c, answer)
    /\ job' = [job EXCEPT ![c] = None]
    /\ before' = [before EXCEPT ![c] = None]
    /\ globalBefore' = [globalBefore EXCEPT ![c] = None]

Files == <<vhost, nginxConf>>
Locals == <<job, before, globalBefore>>
History == <<committed, torn, skipped>>

Receive(c) ==
    /\ pc[c] \in Answered
    /\ \E request \in Requests[c] : job' = [job EXCEPT ![c] = request]
    /\ Goto(c, "received")
    /\ UNCHANGED <<Files, live, before, globalBefore, History, faults>>

ReadVhost(c) ==
    /\ pc[c] = "received"
    /\ before' = [before EXCEPT ![c] = vhost[job[c].domain]]
    /\ Goto(c, "read")
    /\ UNCHANGED <<Files, live, job, globalBefore, History, faults>>

\* Mutant: whatever nginx.conf holds is taken.
ReadAnyGlobal(c) ==
    /\ pc[c] = "read"
    /\ job[c].global
    /\ globalBefore' = [globalBefore EXCEPT ![c] = nginxConf]
    /\ Goto(c, "checked")
    /\ UNCHANGED <<Files, live, job, before, History, faults>>

\* The request's nginx.conf must be the one derived from the present one.
ReadGlobal(c) ==
    /\ pc[c] = "read"
    /\ job[c].global
    /\ \/ /\ nginxConf \in {"plain", "cached"}
          /\ globalBefore' = [globalBefore EXCEPT ![c] = nginxConf]
          /\ Goto(c, "checked")
          /\ UNCHANGED <<job, before>>
       \/ nginxConf \in {"empty", "mixed"} /\ Answer(c, "error")
    /\ UNCHANGED <<Files, live, History, faults>>

\* writeNginxFile on nginx.conf: O_TRUNC, then the write, in place; first to
\* patch it, later to put it back after a failed test or a failed vhost write.
TruncateGlobal(c) ==
    /\ \/ pc[c] = "checked" /\ Goto(c, "truncated")
       \/ pc[c] = "restored" /\ job[c].global /\ Goto(c, "emptied")
       \/ pc[c] = "abandoned" /\ Goto(c, "dropped")
    /\ nginxConf' = "empty"
    /\ UNCHANGED <<Locals, vhost, live, History, faults>>

PatchGlobal(c) ==
    /\ pc[c] = "truncated"
    /\ nginxConf' = Overwrite(nginxConf, "cached")
    /\ Goto(c, "patched")
    /\ UNCHANGED <<Locals, vhost, live, History, faults>>

\* nginx.conf cannot be opened, or its write fails after the truncation: the
\* error is returned at once.
PatchGlobalFails(c) ==
    /\ Fail("write")
    /\ \/ pc[c] = "checked" /\ UNCHANGED <<nginxConf, skipped>>
       \/ /\ pc[c] = "truncated"
          /\ nginxConf' \in CutShort(nginxConf, "cached")
          /\ skipped' = skipped \cup {"nginx.conf"}
    /\ Answer(c, "error")
    /\ UNCHANGED <<vhost, live, committed, torn>>

\* Mutant: nginx.conf is left patched.
KeepGlobal(c) ==
    /\ \/ pc[c] = "emptied" /\ Goto(c, "reverted") /\ UNCHANGED Locals
       \/ pc[c] = "dropped" /\ Answer(c, "error")
    /\ UNCHANGED <<Files, live, History, faults>>

RestoreGlobal(c) ==
    /\ pc[c] \in {"emptied", "dropped"}
    /\ nginxConf' = Overwrite(nginxConf, globalBefore[c])
    /\ \/ pc[c] = "emptied" /\ Goto(c, "reverted") /\ UNCHANGED <<Locals, skipped>>
       \/ /\ pc[c] = "dropped"
          /\ skipped' = skipped \cup {"reload"}
          /\ Answer(c, "error")
    /\ UNCHANGED <<vhost, live, committed, torn, faults>>

\* nginx.conf cannot be opened to put it back and stays patched; the error is
\* dropped.
RestoreGlobalUnopened(c) ==
    /\ Fail("write")
    /\ \/ pc[c] = "restored" /\ job[c].global /\ Goto(c, "reverted")
          /\ UNCHANGED <<Locals, skipped>>
       \/ /\ pc[c] = "abandoned"
          /\ skipped' = skipped \cup {"reload"}
          /\ Answer(c, "error")
    /\ UNCHANGED <<Files, live, committed, torn>>

\* It is truncated and then not written; the error is dropped.
RestoreGlobalFails(c) ==
    /\ Fail("write")
    /\ \/ /\ pc[c] = "emptied"
          /\ skipped' = skipped \cup {"nginx.conf"}
          /\ Goto(c, "reverted") /\ UNCHANGED Locals
       \/ /\ pc[c] = "dropped"
          /\ skipped' = skipped \cup {"nginx.conf", "reload"}
          /\ Answer(c, "error")
    /\ nginxConf' \in CutShort(nginxConf, globalBefore[c])
    /\ UNCHANGED <<vhost, live, committed, torn>>

\* The stage at which the vhost is to be written.
Ready(c) == pc[c] = IF job[c].global THEN "patched" ELSE "read"

WriteVhost(c) ==
    /\ pc[c] \in {"read", "patched"} /\ Ready(c)
    /\ vhost' = [vhost EXCEPT ![job[c].domain] = job[c].content]
    /\ Goto(c, "written")
    /\ UNCHANGED <<Locals, nginxConf, live, History, faults>>

WriteVhostFails(c) ==
    /\ pc[c] \in {"read", "patched"} /\ Ready(c)
    /\ Fail("write")
    /\ \/ job[c].global /\ Goto(c, "abandoned") /\ UNCHANGED Locals
       \/ ~job[c].global /\ Answer(c, "error")
    /\ UNCHANGED <<Files, live, History>>

Test(c) ==
    /\ pc[c] = "written"
    /\ Goto(c, IF Accepts(vhost, nginxConf) THEN "tested" ELSE "failed")
    /\ UNCHANGED <<Files, Locals, live, History, faults>>

Reload(c) ==
    /\ pc[c] = "tested"
    /\ \/ /\ Accepts(vhost, nginxConf)
          /\ live' = OnDisk
          /\ committed' = [committed EXCEPT ![job[c].domain] = job[c].content]
          /\ torn' = torn \ {job[c].domain}
          /\ skipped' = {}
          /\ Answer(c, "ok")
       \/ /\ ~Accepts(vhost, nginxConf)
          /\ Goto(c, "failed")
          /\ UNCHANGED <<Locals, live, History>>
    /\ UNCHANGED <<Files, faults>>

\* nginx -t or the reload fails for a reason of its own, or the deadline kills
\* it; a reload that is killed may have been done.
CommandFails(c) ==
    /\ pc[c] \in {"written", "tested"}
    /\ Fail("command")
    /\ Goto(c, "failed")
    /\ \/ UNCHANGED live
       \/ pc[c] = "tested" /\ Accepts(vhost, nginxConf) /\ live' = OnDisk
    /\ UNCHANGED <<Files, Locals, History>>

\* Mutant: the rollback forgets the vhost.
RestoreNothing(c) ==
    /\ pc[c] = "failed"
    /\ Goto(c, "restored")
    /\ UNCHANGED <<Files, Locals, live, History, faults>>

\* The rollback closure: vhost, nginx.conf, reload; all errors are dropped.
RestoreVhost(c) ==
    /\ pc[c] = "failed"
    /\ vhost' = [vhost EXCEPT ![job[c].domain] = before[c]]
    /\ Goto(c, "restored")
    /\ UNCHANGED <<Locals, nginxConf, live, History, faults>>

\* The vhost cannot be put back: the refused one stays, the error is dropped.
RestoreVhostFails(c) ==
    /\ pc[c] = "failed"
    /\ Fail("write")
    /\ torn' = torn \cup {job[c].domain}
    /\ Goto(c, "restored")
    /\ UNCHANGED <<Files, Locals, live, committed, skipped>>

Restored(c) ==
    \/ pc[c] = "reverted"
    \/ pc[c] = "restored" /\ ~job[c].global

\* Mutant: the rollback does not reload.
AnswerUnloaded(c) ==
    /\ Restored(c)
    /\ Answer(c, "error")
    /\ UNCHANGED <<Files, live, History, faults>>

ReloadRestored(c) ==
    /\ Restored(c)
    /\ live' = IF Accepts(vhost, nginxConf) THEN OnDisk ELSE live
    /\ Answer(c, "error")
    /\ UNCHANGED <<Files, History, faults>>

ReloadRestoredFails(c) ==
    /\ Restored(c)
    /\ Fail("undo")
    /\ skipped' = skipped \cup {"reload"}
    /\ Answer(c, "error")
    /\ UNCHANGED <<Files, live, committed, torn>>

\* The service dies; its clients see the connection close.
Crash ==
    /\ Fail("crash")
    /\ torn' = torn \cup
         {job[c].domain : c \in {b \in Connection : pc[b] \in Rewriting}}
    /\ skipped' = {"nginx.conf", "reload"}
    /\ pc' = [c \in Connection |-> IF pc[c] \in Answered THEN pc[c] ELSE "error"]
    /\ job' = [c \in Connection |-> None]
    /\ before' = [c \in Connection |-> None]
    /\ globalBefore' = [c \in Connection |-> None]
    /\ UNCHANGED <<Files, live, committed>>

Serve(c) ==
    \/ ReadVhost(c) \/ ReadGlobal(c) \/ TruncateGlobal(c) \/ PatchGlobal(c)
    \/ WriteVhost(c) \/ Test(c) \/ Reload(c)
    \/ RestoreVhost(c) \/ RestoreGlobal(c) \/ ReloadRestored(c)

Failure(c) ==
    \/ PatchGlobalFails(c) \/ WriteVhostFails(c) \/ CommandFails(c)
    \/ RestoreVhostFails(c) \/ RestoreGlobalUnopened(c) \/ RestoreGlobalFails(c)
    \/ ReloadRestoredFails(c)

Next ==
    \/ \E c \in Connection : Receive(c) \/ Serve(c) \/ Failure(c)
    \/ Crash

Spec == Init /\ [][Next]_vars

-----------------------------------------------------------------------------
AtRest == \A c \in Connection : pc[c] \in Answered

\* What the service answered with OK stays in the vhost until the next OK for
\* the domain: a failed commit puts back exactly what it replaced.  Only a
\* service that died half-way, or a rollback whose write failed too, leaves
\* anything else, and only in the vhost it was at.
CommittedStays ==
    \A d \in Domain \ torn :
        (\A c \in Connection : pc[c] \in Rewriting => job[c].domain # d)
            => vhost[d] = committed[d]

\* security.md: the service tests Nginx and rolls back failed updates.  When all
\* requests are answered, the files are a configuration Nginx can start with,
\* unless a vhost could not be put back or nginx.conf was left half-written.
RestIsValid ==
    (AtRest /\ torn = {} /\ "nginx.conf" \notin skipped) => Accepts(vhost, nginxConf)

\* When all requests are answered, Nginx runs what the files say, unless a reload
\* failed or was left out; the next one that succeeds makes up for it.
LiveFollowsFiles == (AtRest /\ torn = {} /\ skipped = {}) => live = OnDisk

\* The comment on writeNginxFile: a request does not return before nginx.conf has
\* been validated or put back.
GlobalIsRestored == AtRest => nginxConf \in {"plain", "cached"}
=============================================================================
