-------------------------- MODULE NginxCommitProofs --------------------------
(***************************************************************************)
(* Proofs about NginxCommit for any number of connections and domains, any  *)
(* vhosts and any failures.                                                 *)
(***************************************************************************)
EXTENDS NginxCommit, TLAPS

\* Connections that are served at once ask for different domains: the helper
\* holds CloudPanel's write lock while it waits for the service.
DomainsDiffer ==
    \A c, e \in Connection : c # e =>
        \A r \in Requests[c], s \in Requests[e] : r.domain # s.domain

\* Only one of them patches nginx.conf, or has a vhost that needs the patch.
OnePatches ==
    \A c, e \in Connection : c # e =>
        \A r \in Requests[c], s \in Requests[e] : r.global => ~s.global /\ s.content \notin Speedy

Busy(c) == pc[c] \notin Answered

\* The stages that only a request with nginx.conf reaches, and those it shares.
Global == {"checked", "truncated", "patched", "abandoned", "dropped", "emptied", "reverted"}
Shared == {"written", "tested", "failed", "restored"}

\* The stages at which the vhost that was read may still be put back.
Pending == {"read", "checked", "truncated", "patched"} \cup Rewriting

\* What commitNginxVhost holds in its locals.
LocalsInv(c) ==
    /\ job[c] # None => job[c] \in Requests[c]
    /\ Busy(c) <=> job[c] # None
    /\ Busy(c) /\ pc[c] # "received" => before[c] \in Vhost
    /\ pc[c] \in Global => job[c].global
    /\ pc[c] \in Global \/ (pc[c] \in Shared /\ job[c].global) =>
          globalBefore[c] \in {"plain", "cached"}

\* Until it is done, a request can put back what was last answered with OK, and
\* the vhost it has written is its own.
VhostInv(c) ==
    /\ pc[c] \in Pending /\ job[c].domain \notin torn =>
          before[c] = committed[job[c].domain]
    /\ pc[c] \in {"written", "tested"} => vhost[job[c].domain] = job[c].content

TypeInv == TypeOK /\ \A c \in Connection : LocalsInv(c)
FileInv == TypeInv /\ CommittedStays /\ \A c \in Connection : VhostInv(c)

\* A request with nginx.conf at a stage at which it has read it.
Patching(c) == pc[c] \in Global \/ (pc[c] \in Shared /\ job[c].global)

Emptying == {"truncated", "emptied", "dropped"}

\* What nginx.conf holds while a request is at it, until it was put back or
\* could not be.
GlobalInv(c) ==
    Patching(c) /\ pc[c] # "reverted" =>
        nginxConf = IF pc[c] \in Emptying THEN "empty"
                    ELSE IF pc[c] = "checked" THEN globalBefore[c]
                    ELSE "cached"

\* nginx.conf, also the one that may be put back, suits every vhost that was
\* answered with OK, and is whole unless a request is at it or was cut short.
NoSpeedy == \A d \in Domain : committed[d] \notin Speedy
ConfInv ==
    /\ \A d \in Domain : committed[d] \notin Rejected
    /\ nginxConf = "plain" => NoSpeedy
    /\ \A c \in Connection : Patching(c) /\ globalBefore[c] = "plain" => NoSpeedy
    /\ "nginx.conf" \notin skipped /\ (\A c \in Connection : pc[c] \notin Emptying) =>
          nginxConf \in {"plain", "cached"}

\* The stages at which the files may differ from what is loaded.
Changing == (Global \ {"checked"}) \cup Shared

\* Nginx runs what the files say, or something is known to be missing, or a
\* request that will load it again is under way.
LoadInv ==
    live = OnDisk \/ torn # {} \/ skipped # {} \/ \E c \in Connection : pc[c] \in Changing

Inv == FileInv /\ ConfInv /\ LoadInv /\ \A c \in Connection : GlobalInv(c)

USE NginxCommitAssumption DEF Answered, FaultKind, Files, Locals, History, Goto, MayFail, Fail

-----------------------------------------------------------------------------
(* Types *)

LEMMA ReceiveTyped ==
    ASSUME TypeInv, NEW c \in Connection, Receive(c)
    PROVE  TypeInv'
<1>1. TypeOK'
  BY DEF Receive, TypeInv, TypeOK, Stage
<1>2. ASSUME NEW e \in Connection PROVE LocalsInv(e)'
  BY DEF Receive, TypeInv, TypeOK, LocalsInv, Busy, Global, Shared
<1>. QED BY <1>1, <1>2 DEF TypeInv

LEMMA ReadVhostTyped ==
    ASSUME TypeInv, NEW c \in Connection, ReadVhost(c)
    PROVE  TypeInv'
<1>1. TypeOK'
  BY DEF ReadVhost, TypeInv, TypeOK, Stage, LocalsInv, Busy, NginxCommitRequest
<1>2. ASSUME NEW e \in Connection PROVE LocalsInv(e)'
  BY DEF ReadVhost, TypeInv, TypeOK, LocalsInv, Busy, Global, Shared, NginxCommitRequest
<1>. QED BY <1>1, <1>2 DEF TypeInv

LEMMA ReadGlobalTyped ==
    ASSUME TypeInv, NEW c \in Connection, ReadGlobal(c)
    PROVE  TypeInv'
<1>1. TypeOK'
  BY DEF ReadGlobal, TypeInv, TypeOK, Stage, Answer
<1>2. ASSUME NEW e \in Connection PROVE LocalsInv(e)'
  BY DEF ReadGlobal, TypeInv, TypeOK, LocalsInv, Busy, Global, Shared, Answer
<1>. QED BY <1>1, <1>2 DEF TypeInv

LEMMA TruncateGlobalTyped ==
    ASSUME TypeInv, NEW c \in Connection, TruncateGlobal(c)
    PROVE  TypeInv'
<1>1. TypeOK'
  BY DEF TruncateGlobal, TypeInv, TypeOK, Stage, NginxConf
<1>2. ASSUME NEW e \in Connection PROVE LocalsInv(e)'
  BY DEF TruncateGlobal, TypeInv, TypeOK, LocalsInv, Busy, Global, Shared
<1>. QED BY <1>1, <1>2 DEF TypeInv

LEMMA PatchGlobalTyped ==
    ASSUME TypeInv, NEW c \in Connection, PatchGlobal(c)
    PROVE  TypeInv'
<1>1. TypeOK'
  BY DEF PatchGlobal, TypeInv, TypeOK, Stage, NginxConf, Overwrite
<1>2. ASSUME NEW e \in Connection PROVE LocalsInv(e)'
  BY DEF PatchGlobal, TypeInv, LocalsInv, Busy, Global
<1>. QED BY <1>1, <1>2 DEF TypeInv

LEMMA PatchGlobalFailsTyped ==
    ASSUME TypeInv, NEW c \in Connection, PatchGlobalFails(c)
    PROVE  TypeInv'
<1>1. TypeOK'
  <2>1. nginxConf' \in NginxConf /\ skipped' \subseteq {"nginx.conf", "reload"}
    BY DEF PatchGlobalFails, TypeInv, TypeOK, NginxConf, CutShort, Overwrite
  <2>2. pc' \in [Connection -> Stage]
    BY DEF PatchGlobalFails, TypeInv, TypeOK, Stage, Answer
  <2>3. /\ job' \in [Connection -> NginxCommitRequest \cup {None}]
        /\ before' \in [Connection -> Vhost \cup {None}]
        /\ globalBefore' \in [Connection -> {"plain", "cached", None}]
    BY DEF PatchGlobalFails, TypeInv, TypeOK, Answer
  <2>4. faults' \in 0..MaxFaults
    BY DEF PatchGlobalFails, TypeInv, TypeOK
  <2>. QED BY <2>1, <2>2, <2>3, <2>4 DEF PatchGlobalFails, TypeInv, TypeOK
<1>2. ASSUME NEW e \in Connection PROVE LocalsInv(e)'
  BY DEF PatchGlobalFails, TypeInv, TypeOK, LocalsInv, Busy, Global, Shared, Answer
<1>. QED BY <1>1, <1>2 DEF TypeInv

LEMMA RestoreGlobalTyped ==
    ASSUME TypeInv, NEW c \in Connection, RestoreGlobal(c)
    PROVE  TypeInv'
<1>1. TypeOK'
  BY DEF RestoreGlobal, TypeInv, TypeOK, Stage, NginxConf, LocalsInv, Global, Overwrite,
     Answer
<1>2. ASSUME NEW e \in Connection PROVE LocalsInv(e)'
  BY DEF RestoreGlobal, TypeInv, TypeOK, LocalsInv, Busy, Global, Shared, Answer
<1>. QED BY <1>1, <1>2 DEF TypeInv

LEMMA RestoreGlobalUnopenedTyped ==
    ASSUME TypeInv, NEW c \in Connection, RestoreGlobalUnopened(c)
    PROVE  TypeInv'
<1>1. TypeOK'
  <2>1. nginxConf' \in NginxConf /\ skipped' \subseteq {"nginx.conf", "reload"}
    BY DEF RestoreGlobalUnopened, TypeInv, TypeOK
  <2>2. pc' \in [Connection -> Stage]
    BY DEF RestoreGlobalUnopened, TypeInv, TypeOK, Stage, Answer
  <2>3. /\ job' \in [Connection -> NginxCommitRequest \cup {None}]
        /\ before' \in [Connection -> Vhost \cup {None}]
        /\ globalBefore' \in [Connection -> {"plain", "cached", None}]
    BY DEF RestoreGlobalUnopened, TypeInv, TypeOK, Answer
  <2>4. faults' \in 0..MaxFaults
    BY DEF RestoreGlobalUnopened, TypeInv, TypeOK
  <2>. QED BY <2>1, <2>2, <2>3, <2>4 DEF RestoreGlobalUnopened, TypeInv, TypeOK
<1>2. ASSUME NEW e \in Connection PROVE LocalsInv(e)'
  BY DEF RestoreGlobalUnopened, TypeInv, TypeOK, LocalsInv, Busy, Global, Shared, Answer
<1>. QED BY <1>1, <1>2 DEF TypeInv

LEMMA RestoreGlobalFailsTyped ==
    ASSUME TypeInv, NEW c \in Connection, RestoreGlobalFails(c)
    PROVE  TypeInv'
<1>1. TypeOK'
  <2>1. nginxConf' \in NginxConf /\ skipped' \subseteq {"nginx.conf", "reload"}
    BY DEF RestoreGlobalFails, TypeInv, TypeOK, LocalsInv, Global, NginxConf, CutShort,
       Overwrite
  <2>2. pc' \in [Connection -> Stage]
    BY DEF RestoreGlobalFails, TypeInv, TypeOK, Stage, Answer
  <2>3. /\ job' \in [Connection -> NginxCommitRequest \cup {None}]
        /\ before' \in [Connection -> Vhost \cup {None}]
        /\ globalBefore' \in [Connection -> {"plain", "cached", None}]
    BY DEF RestoreGlobalFails, TypeInv, TypeOK, Answer
  <2>4. faults' \in 0..MaxFaults
    BY DEF RestoreGlobalFails, TypeInv, TypeOK
  <2>. QED BY <2>1, <2>2, <2>3, <2>4 DEF RestoreGlobalFails, TypeInv, TypeOK
<1>2. ASSUME NEW e \in Connection PROVE LocalsInv(e)'
  BY DEF RestoreGlobalFails, TypeInv, TypeOK, LocalsInv, Busy, Global, Shared, Answer
<1>. QED BY <1>1, <1>2 DEF TypeInv

LEMMA WriteVhostTyped ==
    ASSUME TypeInv, NEW c \in Connection, WriteVhost(c)
    PROVE  TypeInv'
<1>1. TypeOK'
  BY DEF WriteVhost, TypeInv, TypeOK, Stage, LocalsInv, Busy, NginxCommitRequest
<1>2. ASSUME NEW e \in Connection PROVE LocalsInv(e)'
  BY DEF WriteVhost, TypeInv, LocalsInv, Busy, Global, Ready
<1>. QED BY <1>1, <1>2 DEF TypeInv

LEMMA WriteVhostFailsTyped ==
    ASSUME TypeInv, NEW c \in Connection, WriteVhostFails(c)
    PROVE  TypeInv'
<1>1. CASE job[c].global
  <2>1. TypeOK'
    BY <1>1 DEF WriteVhostFails, TypeInv, TypeOK, Stage
  <2>2. ASSUME NEW e \in Connection PROVE LocalsInv(e)'
    BY <1>1 DEF WriteVhostFails, TypeInv, TypeOK, LocalsInv, Busy, Global, Ready
  <2>. QED BY <2>1, <2>2 DEF TypeInv
<1>2. CASE ~job[c].global
  <2>1. TypeOK'
    BY <1>2 DEF WriteVhostFails, TypeInv, TypeOK, Stage, Answer
  <2>2. ASSUME NEW e \in Connection PROVE LocalsInv(e)'
    BY <1>2 DEF WriteVhostFails, TypeInv, TypeOK, LocalsInv, Busy, Global, Shared,
       Answer
  <2>. QED BY <2>1, <2>2 DEF TypeInv
<1>. QED BY <1>1, <1>2

LEMMA TestTyped ==
    ASSUME TypeInv, NEW c \in Connection, Test(c)
    PROVE  TypeInv'
<1>1. TypeOK'
  BY DEF Test, TypeInv, TypeOK, Stage
<1>2. ASSUME NEW e \in Connection PROVE LocalsInv(e)'
  BY DEF Test, TypeInv, LocalsInv, Busy, Global, Shared
<1>. QED BY <1>1, <1>2 DEF TypeInv

LEMMA ReloadTyped ==
    ASSUME TypeInv, NEW c \in Connection, Reload(c)
    PROVE  TypeInv'
<1>1. TypeOK'
  BY DEF Reload, TypeInv, TypeOK, Stage, NginxConf, LocalsInv, Busy, Global, Shared,
     NginxCommitRequest, OnDisk, Accepts, Answer
<1>2. ASSUME NEW e \in Connection PROVE LocalsInv(e)'
  BY DEF Reload, TypeInv, TypeOK, LocalsInv, Busy, Global, Shared, Answer
<1>. QED BY <1>1, <1>2 DEF TypeInv

LEMMA CommandFailsTyped ==
    ASSUME TypeInv, NEW c \in Connection, CommandFails(c)
    PROVE  TypeInv'
<1>1. TypeOK'
  BY DEF CommandFails, TypeInv, TypeOK, Stage, OnDisk, Accepts
<1>2. ASSUME NEW e \in Connection PROVE LocalsInv(e)'
  BY DEF CommandFails, TypeInv, LocalsInv, Busy, Global, Shared
<1>. QED BY <1>1, <1>2 DEF TypeInv

LEMMA RestoreVhostTyped ==
    ASSUME TypeInv, NEW c \in Connection, RestoreVhost(c)
    PROVE  TypeInv'
<1>1. TypeOK'
  BY DEF RestoreVhost, TypeInv, TypeOK, Stage, LocalsInv, Busy
<1>2. ASSUME NEW e \in Connection PROVE LocalsInv(e)'
  BY DEF RestoreVhost, TypeInv, LocalsInv, Busy, Global, Shared
<1>. QED BY <1>1, <1>2 DEF TypeInv

LEMMA RestoreVhostFailsTyped ==
    ASSUME TypeInv, NEW c \in Connection, RestoreVhostFails(c)
    PROVE  TypeInv'
<1>1. TypeOK'
  BY DEF RestoreVhostFails, TypeInv, TypeOK, Stage, LocalsInv, Busy, NginxCommitRequest
<1>2. ASSUME NEW e \in Connection PROVE LocalsInv(e)'
  BY DEF RestoreVhostFails, TypeInv, TypeOK, LocalsInv, Busy, Global, Shared
<1>. QED BY <1>1, <1>2 DEF TypeInv

LEMMA ReloadRestoredTyped ==
    ASSUME TypeInv, NEW c \in Connection, ReloadRestored(c)
    PROVE  TypeInv'
<1>1. TypeOK'
  BY DEF ReloadRestored, TypeInv, TypeOK, Stage, OnDisk, Accepts, Answer
<1>2. ASSUME NEW e \in Connection PROVE LocalsInv(e)'
  BY DEF ReloadRestored, TypeInv, TypeOK, LocalsInv, Busy, Global, Shared, Answer
<1>. QED BY <1>1, <1>2 DEF TypeInv

LEMMA ReloadRestoredFailsTyped ==
    ASSUME TypeInv, NEW c \in Connection, ReloadRestoredFails(c)
    PROVE  TypeInv'
<1>1. TypeOK'
  BY DEF ReloadRestoredFails, TypeInv, TypeOK, Stage, Answer
<1>2. ASSUME NEW e \in Connection PROVE LocalsInv(e)'
  BY DEF ReloadRestoredFails, TypeInv, TypeOK, LocalsInv, Busy, Global, Shared, Answer
<1>. QED BY <1>1, <1>2 DEF TypeInv

\* Everybody has answered, all locals are forgotten.
LEMMA CrashTyped ==
    ASSUME TypeInv, Crash
    PROVE  TypeInv'
<1>1. torn' \subseteq Domain
  <2>1. ASSUME NEW c \in Connection, pc[c] \in Rewriting PROVE job[c].domain \in Domain
    BY <2>1 DEF TypeInv, LocalsInv, Busy, Rewriting, NginxCommitRequest
  <2>. QED BY <2>1 DEF Crash, TypeInv, TypeOK
<1>2. /\ vhost' = vhost /\ nginxConf' = nginxConf /\ live' = live /\ committed' = committed
      /\ job' = [c \in Connection |-> None] /\ before' = [c \in Connection |-> None]
      /\ globalBefore' = [c \in Connection |-> None]
      /\ pc' = [c \in Connection |-> IF pc[c] \in Answered THEN pc[c] ELSE "error"]
      /\ skipped' = {"nginx.conf", "reload"}
      /\ faults < MaxFaults /\ faults' = faults + 1
  BY DEF Crash
<1>3. faults' \in 0..MaxFaults
  BY <1>2 DEF TypeInv, TypeOK
<1>4. TypeOK'
  BY <1>1, <1>2, <1>3 DEF TypeInv, TypeOK, Stage
<1>5. ASSUME NEW c \in Connection PROVE LocalsInv(c)'
  BY <1>2 DEF LocalsInv, Busy, Global, Shared
<1>. QED BY <1>4, <1>5 DEF TypeInv

LEMMA InitTyped == Init => TypeInv
<1>. SUFFICES ASSUME Init PROVE TypeInv
  OBVIOUS
<1>1. TypeOK
  BY DEF Init, TypeOK, Stage, NginxConf
<1>2. ASSUME NEW c \in Connection PROVE LocalsInv(c)
  BY DEF Init, LocalsInv, Busy, Global, Shared
<1>. QED BY <1>1, <1>2 DEF TypeInv

LEMMA StepTyped == TypeInv /\ [Next]_vars => TypeInv'
<1>. SUFFICES ASSUME TypeInv, [Next]_vars PROVE TypeInv'
  OBVIOUS
<1>1. CASE Crash
  BY <1>1, CrashTyped
<1>2. ASSUME NEW c \in Connection, Receive(c) \/ Serve(c) \/ Failure(c) PROVE TypeInv'
  BY <1>2, ReceiveTyped, ReadVhostTyped, ReadGlobalTyped, TruncateGlobalTyped,
     PatchGlobalTyped, PatchGlobalFailsTyped, RestoreGlobalTyped, WriteVhostTyped,
     WriteVhostFailsTyped, TestTyped, ReloadTyped, CommandFailsTyped, RestoreVhostTyped,
     RestoreVhostFailsTyped, RestoreGlobalUnopenedTyped, RestoreGlobalFailsTyped,
     ReloadRestoredTyped, ReloadRestoredFailsTyped DEF Serve, Failure
<1>3. CASE UNCHANGED vars
  BY <1>3 DEF vars, TypeInv, TypeOK, LocalsInv, Busy
<1>. QED BY <1>1, <1>2, <1>3 DEF Next

\* Every file, every connection's locals and what is known of the history have
\* their types, whatever is asked and whatever fails.
THEOREM TypesOK == Spec => []TypeOK
<1>1. TypeInv => TypeOK
  BY DEF TypeInv
<1>. QED BY InitTyped, StepTyped, <1>1, PTL DEF Spec

-----------------------------------------------------------------------------
(* What a step of one connection does, and what it leaves to the others *)

Own(c) == IF Busy(c) THEN {job[c].domain} ELSE {}

\* It touches no local of another and no domain but its own.
Apart(c) ==
    /\ \A e \in Connection \ {c} :
          /\ pc'[e] = pc[e] /\ job'[e] = job[e] /\ before'[e] = before[e]
          /\ globalBefore'[e] = globalBefore[e]
    /\ \A d \in Domain \ Own(c) :
          vhost'[d] = vhost[d] /\ committed'[d] = committed[d] /\ (d \in torn' <=> d \in torn)

\* It keeps its domain for as long as it rewrites it, and leaves it as answered.
Orderly(c) ==
    /\ pc'[c] \in Rewriting => Busy(c) /\ job'[c] = job[c]
    /\ \A d \in Own(c) : d \notin torn' /\ pc'[c] \notin Rewriting => vhost'[d] = committed'[d]

\* It writes nginx.conf only when it is at it; what it leaves there is whole, or
\* known not to be.
ConfStep(c) ==
    /\ nginxConf' # nginxConf => Patching(c)
    /\ nginxConf' = "plain" => nginxConf = "plain" \/ (Patching(c) /\ globalBefore[c] = "plain")
    /\ Patching(c)' /\ globalBefore'[c] = "plain" =>
          nginxConf = "plain" \/ (Patching(c) /\ globalBefore[c] = "plain")
    /\ "nginx.conf" \notin skipped' /\ pc'[c] \notin Emptying =>
          \/ nginxConf' \in {"plain", "cached"}
          \/ nginxConf' = nginxConf /\ "nginx.conf" \notin skipped /\ pc[c] \notin Emptying

\* It answers OK with what Nginx has accepted.
CommitStep(c) ==
    \/ committed' = committed
    \/ /\ Busy(c) /\ pc[c] = "tested" /\ pc'[c] = "ok" /\ Accepts(vhost, nginxConf)
       /\ committed' = [committed EXCEPT ![job[c].domain] = job[c].content]
       /\ nginxConf' = nginxConf

\* It leaves files that are not loaded only if it goes on, if that is known, or
\* if Nginx refuses them.
LoadStep(c) ==
    \/ live' = OnDisk' \/ skipped' # {} \/ pc'[c] \in Changing
    \/ /\ live' = live /\ OnDisk' = OnDisk /\ torn' = torn /\ skipped' = skipped
       /\ pc[c] \notin Changing
    \/ /\ Restored(c) /\ ~Accepts(vhost, nginxConf)
       /\ OnDisk' = OnDisk /\ torn' = torn /\ skipped' = skipped

Steps(c) == Apart(c) /\ Orderly(c) /\ VhostInv(c)' /\ ConfStep(c) /\ GlobalInv(c)'
            /\ CommitStep(c) /\ LoadStep(c)

LEMMA Different ==
    ASSUME TypeInv, DomainsDiffer, NEW c \in Connection, NEW e \in Connection, c # e,
           Busy(c), Busy(e)
    PROVE  job[c].domain # job[e].domain
BY DEF TypeInv, LocalsInv, DomainsDiffer

\* What a request has not begun to rewrite, or has put back, is what was answered.
LEMMA OwnStays ==
    ASSUME FileInv, DomainsDiffer, NEW c \in Connection, Busy(c), pc[c] \notin Rewriting,
           job[c].domain \notin torn
    PROVE  vhost[job[c].domain] = committed[job[c].domain]
<1>1. job[c].domain \in Domain
  BY DEF FileInv, TypeInv, LocalsInv, NginxCommitRequest
<1>2. ASSUME NEW e \in Connection, pc[e] \in Rewriting PROVE job[e].domain # job[c].domain
  BY <1>2, Different DEF FileInv, Busy, Rewriting
<1>. QED BY <1>1, <1>2 DEF FileInv, CommittedStays

LEMMA ReceiveFiles ==
    ASSUME FileInv, TypeInv', DomainsDiffer, NEW c \in Connection, Receive(c)
    PROVE  Apart(c) /\ Orderly(c) /\ VhostInv(c)'
<1>. USE DEF FileInv
<1>1. Apart(c)
  BY DEF Receive, Apart
<1>2. Orderly(c)
  BY DEF Receive, Orderly, Own, Busy, Rewriting
<1>3. VhostInv(c)'
  BY DEF Receive, Rewriting, VhostInv, Pending
<1>. QED BY <1>1, <1>2, <1>3

LEMMA ReadVhostFiles ==
    ASSUME FileInv, TypeInv', DomainsDiffer, NEW c \in Connection, ReadVhost(c)
    PROVE  Apart(c) /\ Orderly(c) /\ VhostInv(c)'
<1>. USE DEF FileInv
<1>1. Apart(c)
  BY DEF ReadVhost, Apart
<1>2. Orderly(c)
  BY OwnStays DEF ReadVhost, Orderly, Own, Rewriting
<1>3. VhostInv(c)'
  BY OwnStays DEF ReadVhost, TypeInv, TypeOK, Busy, Rewriting, VhostInv
<1>. QED BY <1>1, <1>2, <1>3

LEMMA ReadGlobalFiles ==
    ASSUME FileInv, TypeInv', DomainsDiffer, NEW c \in Connection, ReadGlobal(c)
    PROVE  Apart(c) /\ Orderly(c) /\ VhostInv(c)'
<1>. USE DEF FileInv
<1>1. Apart(c)
  BY DEF ReadGlobal, TypeInv, TypeOK, Apart, Answer
<1>2. Orderly(c)
  BY OwnStays DEF ReadGlobal, TypeInv, TypeOK, Orderly, Own, Rewriting, Answer
<1>3. VhostInv(c)'
  BY DEF ReadGlobal, TypeInv, TypeOK, Rewriting, VhostInv, Pending, Answer
<1>. QED BY <1>1, <1>2, <1>3

LEMMA TruncateGlobalFiles ==
    ASSUME FileInv, TypeInv', DomainsDiffer, NEW c \in Connection, TruncateGlobal(c)
    PROVE  Apart(c) /\ Orderly(c) /\ VhostInv(c)'
<1>. USE DEF FileInv
<1>1. Apart(c)
  BY DEF TruncateGlobal, TypeInv, TypeOK, Apart
<1>2. Orderly(c)
  BY OwnStays DEF TruncateGlobal, Orderly, Own, Busy, Rewriting
<1>3. VhostInv(c)'
  BY DEF TruncateGlobal, TypeInv, TypeOK, Rewriting, VhostInv, Pending
<1>. QED BY <1>1, <1>2, <1>3

LEMMA PatchGlobalFiles ==
    ASSUME FileInv, TypeInv', DomainsDiffer, NEW c \in Connection, PatchGlobal(c)
    PROVE  Apart(c) /\ Orderly(c) /\ VhostInv(c)'
<1>. USE DEF FileInv
<1>1. Apart(c)
  BY DEF PatchGlobal, Apart
<1>2. Orderly(c)
  BY OwnStays DEF PatchGlobal, Orderly, Own, Rewriting
<1>3. VhostInv(c)'
  BY DEF PatchGlobal, VhostInv, Pending
<1>. QED BY <1>1, <1>2, <1>3

LEMMA PatchGlobalFailsFiles ==
    ASSUME FileInv, TypeInv', DomainsDiffer, NEW c \in Connection, PatchGlobalFails(c)
    PROVE  Apart(c) /\ Orderly(c) /\ VhostInv(c)'
<1>. USE DEF FileInv
<1>1. Apart(c)
  BY DEF PatchGlobalFails, Apart, Answer
<1>2. Orderly(c)
  BY OwnStays DEF PatchGlobalFails, Orderly, Own, Rewriting, Answer
<1>3. VhostInv(c)'
  BY DEF PatchGlobalFails, TypeInv, LocalsInv, Busy, Rewriting, VhostInv, Pending,
     Answer
<1>. QED BY <1>1, <1>2, <1>3

LEMMA RestoreGlobalFiles ==
    ASSUME FileInv, TypeInv', DomainsDiffer, NEW c \in Connection, RestoreGlobal(c)
    PROVE  Apart(c) /\ Orderly(c) /\ VhostInv(c)'
<1>. USE DEF FileInv
<1>1. Apart(c)
  BY DEF RestoreGlobal, TypeInv, TypeOK, Apart, Answer
<1>2. Orderly(c)
  BY OwnStays DEF RestoreGlobal, TypeInv, TypeOK, Orderly, Own, Rewriting, Answer
<1>3. VhostInv(c)'
  BY DEF RestoreGlobal, TypeInv, TypeOK, Rewriting, VhostInv, Pending, Answer
<1>. QED BY <1>1, <1>2, <1>3

LEMMA RestoreGlobalUnopenedFiles ==
    ASSUME FileInv, TypeInv', DomainsDiffer, NEW c \in Connection, RestoreGlobalUnopened(c)
    PROVE  Apart(c) /\ Orderly(c) /\ VhostInv(c)'
<1>. USE DEF FileInv
<1>1. Apart(c)
  BY DEF RestoreGlobalUnopened, Apart, TypeInv, TypeOK, Answer
<1>2. Orderly(c)
  BY OwnStays DEF RestoreGlobalUnopened, Orderly, Own, Rewriting, TypeInv, TypeOK, Answer
<1>3. VhostInv(c)'
  BY DEF RestoreGlobalUnopened, Rewriting, VhostInv, Pending, TypeInv, TypeOK, Answer
<1>. QED BY <1>1, <1>2, <1>3

LEMMA RestoreGlobalFailsFiles ==
    ASSUME FileInv, TypeInv', DomainsDiffer, NEW c \in Connection, RestoreGlobalFails(c)
    PROVE  Apart(c) /\ Orderly(c) /\ VhostInv(c)'
<1>. USE DEF FileInv
<1>1. Apart(c)
  BY DEF RestoreGlobalFails, Apart, TypeInv, TypeOK, Answer
<1>2. Orderly(c)
  BY OwnStays DEF RestoreGlobalFails, Orderly, Own, Rewriting, TypeInv, TypeOK, Answer
<1>3. VhostInv(c)'
  BY DEF RestoreGlobalFails, Rewriting, VhostInv, Pending, TypeInv, TypeOK, Answer
<1>. QED BY <1>1, <1>2, <1>3

LEMMA WriteVhostFiles ==
    ASSUME FileInv, TypeInv', DomainsDiffer, NEW c \in Connection, WriteVhost(c)
    PROVE  Apart(c) /\ Orderly(c) /\ VhostInv(c)'
<1>. USE DEF FileInv
<1>1. Apart(c)
  BY DEF WriteVhost, Apart, Own, Busy
<1>2. Orderly(c)
  BY DEF WriteVhost, TypeInv, TypeOK, Orderly, Busy, Rewriting
<1>3. VhostInv(c)'
  BY DEF WriteVhost, TypeInv, TypeOK, VhostInv, Pending
<1>. QED BY <1>1, <1>2, <1>3

LEMMA WriteVhostFailsFiles ==
    ASSUME FileInv, TypeInv', DomainsDiffer, NEW c \in Connection, WriteVhostFails(c)
    PROVE  Apart(c) /\ Orderly(c) /\ VhostInv(c)'
<1>. USE DEF FileInv
<1>1. Apart(c)
  BY DEF WriteVhostFails, TypeInv, TypeOK, Apart, Answer
<1>2. Orderly(c)
  BY OwnStays DEF WriteVhostFails, TypeInv, TypeOK, Orderly, Own, Rewriting, Answer
<1>3. VhostInv(c)'
  BY DEF WriteVhostFails, TypeInv, TypeOK, Rewriting, VhostInv, Pending, Answer
<1>. QED BY <1>1, <1>2, <1>3

LEMMA TestFiles ==
    ASSUME FileInv, TypeInv', DomainsDiffer, NEW c \in Connection, Test(c)
    PROVE  Apart(c) /\ Orderly(c) /\ VhostInv(c)'
<1>. USE DEF FileInv
<1>1. Apart(c)
  BY DEF Test, Apart
<1>2. Orderly(c)
  BY DEF Test, Orderly, Busy, Rewriting
<1>3. VhostInv(c)'
  BY DEF Test, Rewriting, VhostInv, Pending
<1>. QED BY <1>1, <1>2, <1>3

LEMMA ReloadFiles ==
    ASSUME FileInv, TypeInv', DomainsDiffer, NEW c \in Connection, Reload(c)
    PROVE  Apart(c) /\ Orderly(c) /\ VhostInv(c)'
<1>. USE DEF FileInv
<1>1. Apart(c)
  BY DEF Reload, TypeInv, TypeOK, Apart, Own, Busy, Answer
<1>2. Orderly(c)
  BY DEF Reload, TypeInv, TypeOK, LocalsInv, Orderly, Own, Busy, Rewriting, VhostInv,
     NginxCommitRequest, Answer
<1>3. VhostInv(c)'
  BY DEF Reload, TypeInv, TypeOK, Rewriting, VhostInv, Pending, Answer
<1>. QED BY <1>1, <1>2, <1>3

LEMMA CommandFailsFiles ==
    ASSUME FileInv, TypeInv', DomainsDiffer, NEW c \in Connection, CommandFails(c)
    PROVE  Apart(c) /\ Orderly(c) /\ VhostInv(c)'
<1>. USE DEF FileInv
<1>1. Apart(c)
  BY DEF CommandFails, Apart
<1>2. Orderly(c)
  BY DEF CommandFails, Orderly, Busy, Rewriting
<1>3. VhostInv(c)'
  BY DEF CommandFails, Rewriting, VhostInv, Pending
<1>. QED BY <1>1, <1>2, <1>3

LEMMA RestoreVhostFiles ==
    ASSUME FileInv, TypeInv', DomainsDiffer, NEW c \in Connection, RestoreVhost(c)
    PROVE  Apart(c) /\ Orderly(c) /\ VhostInv(c)'
<1>. USE DEF FileInv
<1>1. Apart(c)
  BY DEF RestoreVhost, Apart, Own, Busy
<1>2. Orderly(c)
  BY DEF RestoreVhost, TypeInv, TypeOK, Orderly, Own, Rewriting, VhostInv, Pending
<1>3. VhostInv(c)'
  BY DEF RestoreVhost, Rewriting, VhostInv, Pending
<1>. QED BY <1>1, <1>2, <1>3

LEMMA RestoreVhostFailsFiles ==
    ASSUME FileInv, TypeInv', DomainsDiffer, NEW c \in Connection, RestoreVhostFails(c)
    PROVE  Apart(c) /\ Orderly(c) /\ VhostInv(c)'
<1>. USE DEF FileInv
<1>1. Apart(c)
  BY DEF RestoreVhostFails, Apart, Own, Busy
<1>2. Orderly(c)
  BY DEF RestoreVhostFails, Orderly, Own, Rewriting, TypeInv, TypeOK, Busy
<1>3. VhostInv(c)'
  BY DEF RestoreVhostFails, Rewriting, VhostInv, Pending
<1>. QED BY <1>1, <1>2, <1>3

LEMMA ReloadRestoredFiles ==
    ASSUME FileInv, TypeInv', DomainsDiffer, NEW c \in Connection, ReloadRestored(c)
    PROVE  Apart(c) /\ Orderly(c) /\ VhostInv(c)'
<1>. USE DEF FileInv
<1>1. Apart(c)
  BY DEF ReloadRestored, Apart, Answer
<1>2. Orderly(c)
  BY OwnStays DEF ReloadRestored, Orderly, Own, Rewriting, Restored, Answer
<1>3. VhostInv(c)'
  BY DEF ReloadRestored, Rewriting, VhostInv, Pending, Restored, Answer
<1>. QED BY <1>1, <1>2, <1>3

LEMMA ReloadRestoredFailsFiles ==
    ASSUME FileInv, TypeInv', DomainsDiffer, NEW c \in Connection, ReloadRestoredFails(c)
    PROVE  Apart(c) /\ Orderly(c) /\ VhostInv(c)'
<1>. USE DEF FileInv
<1>1. Apart(c)
  BY DEF ReloadRestoredFails, Apart, Answer
<1>2. Orderly(c)
  BY OwnStays DEF ReloadRestoredFails, Orderly, Own, Rewriting, Restored, Answer
<1>3. VhostInv(c)'
  BY DEF ReloadRestoredFails, Rewriting, VhostInv, Pending, Restored, Answer
<1>. QED BY <1>1, <1>2, <1>3

LEMMA FileSteps ==
    ASSUME FileInv, TypeInv', DomainsDiffer, NEW c \in Connection,
           Receive(c) \/ Serve(c) \/ Failure(c)
    PROVE  Apart(c) /\ Orderly(c) /\ VhostInv(c)'
BY ReceiveFiles, ReadVhostFiles, ReadGlobalFiles, TruncateGlobalFiles, PatchGlobalFiles,
   PatchGlobalFailsFiles, RestoreGlobalFiles, WriteVhostFiles, WriteVhostFailsFiles,
   TestFiles, ReloadFiles, CommandFailsFiles, RestoreVhostFiles, RestoreVhostFailsFiles,
   RestoreGlobalUnopenedFiles, RestoreGlobalFailsFiles, ReloadRestoredFiles,
   ReloadRestoredFailsFiles DEF Serve, Failure

LEMMA ReceiveConf ==
    ASSUME Inv, TypeInv', NEW c \in Connection, Receive(c)
    PROVE  ConfStep(c) /\ GlobalInv(c)' /\ CommitStep(c) /\ LoadStep(c)
<1>. USE DEF Inv, FileInv
<1>1. ConfStep(c)
  BY DEF Receive, ConfStep, Patching, Emptying, Global, Shared
<1>2. GlobalInv(c)'
  BY DEF Receive, Patching, GlobalInv, Global, Shared
<1>3. CommitStep(c)
  BY DEF Receive, CommitStep
<1>4. LoadStep(c)
  BY DEF Receive, LoadStep, Changing, Global, Shared, OnDisk
<1>. QED BY <1>1, <1>2, <1>3, <1>4

LEMMA ReadVhostConf ==
    ASSUME Inv, TypeInv', NEW c \in Connection, ReadVhost(c)
    PROVE  ConfStep(c) /\ GlobalInv(c)' /\ CommitStep(c) /\ LoadStep(c)
<1>. USE DEF Inv, FileInv
<1>1. ConfStep(c)
  BY DEF ReadVhost, ConfStep, Patching, Emptying, Global, Shared
<1>2. GlobalInv(c)'
  BY DEF ReadVhost, Patching, GlobalInv, Global, Shared
<1>3. CommitStep(c)
  BY DEF ReadVhost, CommitStep
<1>4. LoadStep(c)
  BY DEF ReadVhost, LoadStep, Changing, Global, Shared, OnDisk
<1>. QED BY <1>1, <1>2, <1>3, <1>4

LEMMA ReadGlobalConf ==
    ASSUME Inv, TypeInv', NEW c \in Connection, ReadGlobal(c)
    PROVE  ConfStep(c) /\ GlobalInv(c)' /\ CommitStep(c) /\ LoadStep(c)
<1>. USE DEF Inv, FileInv
<1>1. ConfStep(c)
  BY DEF ReadGlobal, TypeInv, TypeOK, ConfStep, Patching, Emptying, Global, Shared,
     Answer
<1>2. GlobalInv(c)'
  BY DEF ReadGlobal, TypeInv, TypeOK, Patching, GlobalInv, Emptying, Global, Shared,
     Answer
<1>3. CommitStep(c)
  BY DEF ReadGlobal, CommitStep
<1>4. LoadStep(c)
  BY DEF ReadGlobal, LoadStep, Changing, Global, Shared, OnDisk
<1>. QED BY <1>1, <1>2, <1>3, <1>4

LEMMA TruncateGlobalConf ==
    ASSUME Inv, TypeInv', NEW c \in Connection, TruncateGlobal(c)
    PROVE  ConfStep(c) /\ GlobalInv(c)' /\ CommitStep(c) /\ LoadStep(c)
<1>. USE DEF Inv, FileInv
<1>1. ConfStep(c)
  BY DEF TruncateGlobal, TypeInv, TypeOK, ConfStep, Patching, Emptying, Global, Shared
<1>2. GlobalInv(c)'
  BY DEF TruncateGlobal, TypeInv, TypeOK, GlobalInv, Emptying
<1>3. CommitStep(c)
  BY DEF TruncateGlobal, CommitStep
<1>4. LoadStep(c)
  BY DEF TruncateGlobal, TypeInv, TypeOK, LoadStep, Changing, Global
<1>. QED BY <1>1, <1>2, <1>3, <1>4

LEMMA PatchGlobalConf ==
    ASSUME Inv, TypeInv', NEW c \in Connection, PatchGlobal(c)
    PROVE  ConfStep(c) /\ GlobalInv(c)' /\ CommitStep(c) /\ LoadStep(c)
<1>. USE DEF Inv, FileInv
<1>1. ConfStep(c)
  BY DEF PatchGlobal, ConfStep, Patching, Global, Overwrite
<1>2. GlobalInv(c)'
  BY DEF PatchGlobal, TypeInv, TypeOK, GlobalInv, Emptying, Overwrite
<1>3. CommitStep(c)
  BY DEF PatchGlobal, CommitStep
<1>4. LoadStep(c)
  BY DEF PatchGlobal, LoadStep, Changing, Global
<1>. QED BY <1>1, <1>2, <1>3, <1>4

LEMMA PatchGlobalFailsConf ==
    ASSUME Inv, TypeInv', NEW c \in Connection, PatchGlobalFails(c)
    PROVE  ConfStep(c) /\ GlobalInv(c)' /\ CommitStep(c) /\ LoadStep(c)
<1>. USE DEF Inv, FileInv
<1>1. ConfStep(c)
  <2>1. CASE pc[c] = "checked"
    BY <2>1 DEF PatchGlobalFails, TypeInv, TypeOK, ConfStep, Patching, Emptying, Global,
       Shared, Answer
  <2>2. CASE pc[c] = "truncated"
    BY <2>2 DEF PatchGlobalFails, TypeInv, TypeOK, ConfStep, Patching, GlobalInv, Emptying,
       Global, Shared, CutShort, Overwrite, Answer
  <2>. QED BY <2>1, <2>2 DEF PatchGlobalFails
<1>2. GlobalInv(c)'
  BY DEF PatchGlobalFails, TypeInv, TypeOK, Patching, GlobalInv, Global, Shared, Answer
<1>3. CommitStep(c)
  BY DEF PatchGlobalFails, CommitStep
<1>4. LoadStep(c)
  BY DEF PatchGlobalFails, LoadStep, Changing, Global, Shared, OnDisk
<1>. QED BY <1>1, <1>2, <1>3, <1>4

LEMMA RestoreGlobalConf ==
    ASSUME Inv, TypeInv', NEW c \in Connection, RestoreGlobal(c)
    PROVE  ConfStep(c) /\ GlobalInv(c)' /\ CommitStep(c) /\ LoadStep(c)
<1>. USE DEF Inv, FileInv
<1>1. ConfStep(c)
  BY DEF RestoreGlobal, TypeInv, TypeOK, LocalsInv, ConfStep, Patching, GlobalInv,
     Emptying, Global, Shared, Overwrite, Answer
<1>2. GlobalInv(c)'
  BY DEF RestoreGlobal, TypeInv, TypeOK, Patching, GlobalInv, Emptying, Global, Shared,
     Overwrite, Answer
<1>3. CommitStep(c)
  BY DEF RestoreGlobal, CommitStep
<1>4. LoadStep(c)
  BY DEF RestoreGlobal, TypeInv, TypeOK, LoadStep, Changing, Global
<1>. QED BY <1>1, <1>2, <1>3, <1>4

LEMMA RestoreGlobalUnopenedConf ==
    ASSUME Inv, TypeInv', NEW c \in Connection, RestoreGlobalUnopened(c)
    PROVE  ConfStep(c) /\ GlobalInv(c)' /\ CommitStep(c) /\ LoadStep(c)
<1>. USE DEF Inv, FileInv
<1>1. ConfStep(c)
  BY DEF RestoreGlobalUnopened, ConfStep, Patching, Emptying, Global, Shared, TypeInv, TypeOK, GlobalInv, Answer
<1>2. GlobalInv(c)'
  BY DEF RestoreGlobalUnopened, Patching, GlobalInv, Global, Shared, TypeInv, TypeOK, Answer
<1>3. CommitStep(c)
  BY DEF RestoreGlobalUnopened, CommitStep
<1>4. LoadStep(c)
  BY DEF RestoreGlobalUnopened, LoadStep, Changing, Global, Shared, TypeInv, TypeOK
<1>. QED BY <1>1, <1>2, <1>3, <1>4

LEMMA RestoreGlobalFailsConf ==
    ASSUME Inv, TypeInv', NEW c \in Connection, RestoreGlobalFails(c)
    PROVE  ConfStep(c) /\ GlobalInv(c)' /\ CommitStep(c) /\ LoadStep(c)
<1>. USE DEF Inv, FileInv
<1>1. ConfStep(c)
  BY DEF RestoreGlobalFails, ConfStep, Patching, Emptying, Global, Shared, TypeInv, TypeOK,
     LocalsInv, GlobalInv, CutShort, Overwrite, Answer
<1>2. GlobalInv(c)'
  BY DEF RestoreGlobalFails, Patching, GlobalInv, Global, Shared, TypeInv, TypeOK, Answer
<1>3. CommitStep(c)
  BY DEF RestoreGlobalFails, CommitStep
<1>4. LoadStep(c)
  BY DEF RestoreGlobalFails, LoadStep, Changing, Global, Shared, TypeInv, TypeOK
<1>. QED BY <1>1, <1>2, <1>3, <1>4

LEMMA WriteVhostConf ==
    ASSUME Inv, TypeInv', NEW c \in Connection, WriteVhost(c)
    PROVE  ConfStep(c) /\ GlobalInv(c)' /\ CommitStep(c) /\ LoadStep(c)
<1>. USE DEF Inv, FileInv
<1>1. ConfStep(c)
  BY DEF WriteVhost, ConfStep, Patching, Emptying, Global, Ready
<1>2. GlobalInv(c)'
  BY DEF WriteVhost, Patching, GlobalInv, Emptying, Global, Ready
<1>3. CommitStep(c)
  BY DEF WriteVhost, CommitStep
<1>4. LoadStep(c)
  BY DEF WriteVhost, TypeInv, TypeOK, LoadStep, Changing, Shared
<1>. QED BY <1>1, <1>2, <1>3, <1>4

LEMMA WriteVhostFailsConf ==
    ASSUME Inv, TypeInv', NEW c \in Connection, WriteVhostFails(c)
    PROVE  ConfStep(c) /\ GlobalInv(c)' /\ CommitStep(c) /\ LoadStep(c)
<1>. USE DEF Inv, FileInv
<1>1. ConfStep(c)
  BY DEF WriteVhostFails, TypeInv, TypeOK, ConfStep, Patching, Emptying, Global, Shared,
     Ready, Answer
<1>2. GlobalInv(c)'
  BY DEF WriteVhostFails, TypeInv, TypeOK, Patching, GlobalInv, Emptying, Global,
     Shared, Ready, Answer
<1>3. CommitStep(c)
  BY DEF WriteVhostFails, CommitStep
<1>4. LoadStep(c)
  BY DEF WriteVhostFails, TypeInv, TypeOK, LoadStep, Changing, Global, Shared, Ready,
     OnDisk
<1>. QED BY <1>1, <1>2, <1>3, <1>4

LEMMA TestConf ==
    ASSUME Inv, TypeInv', NEW c \in Connection, Test(c)
    PROVE  ConfStep(c) /\ GlobalInv(c)' /\ CommitStep(c) /\ LoadStep(c)
<1>. USE DEF Inv, FileInv
<1>1. ConfStep(c)
  BY DEF Test, ConfStep, Patching, Emptying, Global, Shared
<1>2. GlobalInv(c)'
  BY DEF Test, Patching, GlobalInv, Emptying, Global, Shared
<1>3. CommitStep(c)
  BY DEF Test, CommitStep
<1>4. LoadStep(c)
  BY DEF Test, LoadStep, Changing, Shared
<1>. QED BY <1>1, <1>2, <1>3, <1>4

LEMMA ReloadConf ==
    ASSUME Inv, TypeInv', NEW c \in Connection, Reload(c)
    PROVE  ConfStep(c) /\ GlobalInv(c)' /\ CommitStep(c) /\ LoadStep(c)
<1>. USE DEF Inv, FileInv
<1>1. ConfStep(c)
  BY DEF Reload, TypeInv, TypeOK, ConfStep, Patching, Emptying, Global, Shared, Accepts,
     Answer
<1>2. GlobalInv(c)'
  BY DEF Reload, TypeInv, TypeOK, Patching, GlobalInv, Emptying, Global, Shared, Answer
<1>3. CommitStep(c)
  BY DEF Reload, TypeInv, TypeOK, CommitStep, Busy, Answer
<1>4. LoadStep(c)
  BY DEF Reload, TypeInv, TypeOK, LoadStep, Changing, Shared, OnDisk
<1>. QED BY <1>1, <1>2, <1>3, <1>4

LEMMA CommandFailsConf ==
    ASSUME Inv, TypeInv', NEW c \in Connection, CommandFails(c)
    PROVE  ConfStep(c) /\ GlobalInv(c)' /\ CommitStep(c) /\ LoadStep(c)
<1>. USE DEF Inv, FileInv
<1>1. ConfStep(c)
  BY DEF CommandFails, ConfStep, Patching, Emptying, Global, Shared
<1>2. GlobalInv(c)'
  BY DEF CommandFails, Patching, GlobalInv, Emptying, Global, Shared
<1>3. CommitStep(c)
  BY DEF CommandFails, CommitStep
<1>4. LoadStep(c)
  BY DEF CommandFails, LoadStep, Changing, Shared
<1>. QED BY <1>1, <1>2, <1>3, <1>4

LEMMA RestoreVhostConf ==
    ASSUME Inv, TypeInv', NEW c \in Connection, RestoreVhost(c)
    PROVE  ConfStep(c) /\ GlobalInv(c)' /\ CommitStep(c) /\ LoadStep(c)
<1>. USE DEF Inv, FileInv
<1>1. ConfStep(c)
  BY DEF RestoreVhost, ConfStep, Patching, Emptying, Global, Shared
<1>2. GlobalInv(c)'
  BY DEF RestoreVhost, Patching, GlobalInv, Emptying, Global, Shared
<1>3. CommitStep(c)
  BY DEF RestoreVhost, CommitStep
<1>4. LoadStep(c)
  BY DEF RestoreVhost, LoadStep, Changing, Shared
<1>. QED BY <1>1, <1>2, <1>3, <1>4

LEMMA RestoreVhostFailsConf ==
    ASSUME Inv, TypeInv', NEW c \in Connection, RestoreVhostFails(c)
    PROVE  ConfStep(c) /\ GlobalInv(c)' /\ CommitStep(c) /\ LoadStep(c)
<1>. USE DEF Inv, FileInv
<1>1. ConfStep(c)
  BY DEF RestoreVhostFails, ConfStep, Patching, Emptying, Global, Shared
<1>2. GlobalInv(c)'
  BY DEF RestoreVhostFails, Patching, GlobalInv, Global, Shared, Emptying
<1>3. CommitStep(c)
  BY DEF RestoreVhostFails, CommitStep
<1>4. LoadStep(c)
  BY DEF RestoreVhostFails, LoadStep, Changing, Global, Shared
<1>. QED BY <1>1, <1>2, <1>3, <1>4

LEMMA ReloadRestoredConf ==
    ASSUME Inv, TypeInv', NEW c \in Connection, ReloadRestored(c)
    PROVE  ConfStep(c) /\ GlobalInv(c)' /\ CommitStep(c) /\ LoadStep(c)
<1>. USE DEF Inv, FileInv
<1>1. ConfStep(c)
  BY DEF ReloadRestored, TypeInv, TypeOK, ConfStep, Patching, Emptying, Global, Shared,
     Restored, Answer
<1>2. GlobalInv(c)'
  BY DEF ReloadRestored, TypeInv, TypeOK, Patching, GlobalInv, Global, Shared, Answer
<1>3. CommitStep(c)
  BY DEF ReloadRestored, CommitStep
<1>4. LoadStep(c)
  BY DEF ReloadRestored, LoadStep, OnDisk
<1>. QED BY <1>1, <1>2, <1>3, <1>4

LEMMA ReloadRestoredFailsConf ==
    ASSUME Inv, TypeInv', NEW c \in Connection, ReloadRestoredFails(c)
    PROVE  ConfStep(c) /\ GlobalInv(c)' /\ CommitStep(c) /\ LoadStep(c)
<1>. USE DEF Inv, FileInv
<1>1. ConfStep(c)
  BY DEF ReloadRestoredFails, TypeInv, TypeOK, ConfStep, Patching, Emptying, Global,
     Shared, Restored, Answer
<1>2. GlobalInv(c)'
  BY DEF ReloadRestoredFails, TypeInv, TypeOK, Patching, GlobalInv, Global, Shared,
     Answer
<1>3. CommitStep(c)
  BY DEF ReloadRestoredFails, CommitStep
<1>4. LoadStep(c)
  BY DEF ReloadRestoredFails, LoadStep
<1>. QED BY <1>1, <1>2, <1>3, <1>4

LEMMA ConfSteps ==
    ASSUME Inv, TypeInv', NEW c \in Connection,
           Receive(c) \/ Serve(c) \/ Failure(c)
    PROVE  ConfStep(c) /\ GlobalInv(c)' /\ CommitStep(c) /\ LoadStep(c)
BY ReceiveConf, ReadVhostConf, ReadGlobalConf, TruncateGlobalConf, PatchGlobalConf,
   PatchGlobalFailsConf, RestoreGlobalConf, WriteVhostConf, WriteVhostFailsConf,
   TestConf, ReloadConf, CommandFailsConf, RestoreVhostConf, RestoreVhostFailsConf,
   RestoreGlobalUnopenedConf, RestoreGlobalFailsConf, ReloadRestoredConf,
   ReloadRestoredFailsConf DEF Serve, Failure

-----------------------------------------------------------------------------
(* Connections with own domains *)

LEMMA FilesKept ==
    ASSUME FileInv, TypeInv', DomainsDiffer, NEW c \in Connection,
           Apart(c), Orderly(c), VhostInv(c)'
    PROVE  FileInv'
<1>1. ASSUME NEW d \in Domain \ torn',
             \A e \in Connection : pc'[e] \in Rewriting => job'[e].domain # d
      PROVE  vhost'[d] = committed'[d]
  <2>1. CASE d \in Own(c)
    <3>1. pc'[c] \notin Rewriting
      BY <1>1, <2>1 DEF Orderly, Own
    <3>. QED BY <1>1, <2>1, <3>1 DEF Orderly
  <2>2. CASE d \notin Own(c)
    <3>1. d \notin torn /\ vhost'[d] = vhost[d] /\ committed'[d] = committed[d]
      BY <1>1, <2>2 DEF Apart
    <3>2. ASSUME NEW e \in Connection, pc[e] \in Rewriting PROVE job[e].domain # d
      <4>1. CASE e = c
        BY <3>2, <4>1, <2>2 DEF Own, Busy, Rewriting
      <4>2. CASE e # c
        BY <3>2, <4>2, <1>1 DEF Apart
      <4>. QED BY <4>1, <4>2
    <3>. QED BY <1>1, <3>1, <3>2 DEF FileInv, CommittedStays
  <2>. QED BY <2>1, <2>2
<1>2. ASSUME NEW e \in Connection, e # c PROVE VhostInv(e)'
  <2>1. VhostInv(e) /\ TypeInv
    BY DEF FileInv
  <2>2. /\ pc'[e] = pc[e] /\ job'[e] = job[e] /\ before'[e] = before[e]
    BY <1>2 DEF Apart
  <2>3. CASE ~Busy(e)
    BY <2>2, <2>3 DEF Busy, VhostInv, Pending, Rewriting
  <2>4. CASE Busy(e)
    <3>1. job[e].domain \in Domain \ Own(c)
      BY <2>1, <2>4, <1>2, Different DEF Own, TypeInv, LocalsInv, NginxCommitRequest
    <3>2. /\ vhost'[job[e].domain] = vhost[job[e].domain]
          /\ committed'[job[e].domain] = committed[job[e].domain]
          /\ job[e].domain \in torn' <=> job[e].domain \in torn
      BY <3>1 DEF Apart
    <3>. QED BY <2>1, <2>2, <3>2 DEF VhostInv
  <2>. QED BY <2>3, <2>4
<1>. QED BY <1>1, <1>2 DEF FileInv, CommittedStays

\* Who was not answered is torn, and nobody is left to put anything back.
LEMMA CrashKeepsFiles ==
    ASSUME FileInv, TypeInv', Crash
    PROVE  FileInv'
<1>1. /\ \A c \in Connection : pc'[c] \in Answered
      /\ vhost' = vhost /\ committed' = committed
  BY DEF Crash
<1>2. ASSUME NEW d \in Domain \ torn' PROVE vhost'[d] = committed'[d]
  <2>1. d \notin torn /\ \A c \in Connection : pc[c] \in Rewriting => job[c].domain # d
    BY <1>2 DEF Crash
  <2>. QED BY <1>1, <1>2, <2>1 DEF FileInv, CommittedStays
<1>3. ASSUME NEW c \in Connection PROVE VhostInv(c)'
  BY <1>1 DEF VhostInv, Pending, Rewriting
<1>. QED BY <1>2, <1>3 DEF FileInv, CommittedStays

LEMMA InitFiles == Init => FileInv
<1>. SUFFICES ASSUME Init PROVE FileInv
  OBVIOUS
<1>1. CommittedStays
  BY DEF Init, CommittedStays
<1>2. ASSUME NEW c \in Connection PROVE VhostInv(c)
  BY DEF Init, VhostInv, Pending, Rewriting
<1>. QED BY InitTyped, <1>1, <1>2 DEF FileInv

-----------------------------------------------------------------------------
(* One that patches nginx.conf *)

LEMMA OneIsAtIt ==
    ASSUME TypeInv, OnePatches, NEW c \in Connection, NEW e \in Connection,
           Patching(c), Busy(e), c # e
    PROVE  ~Patching(e) /\ job[e].content \notin Speedy
<1>1. Busy(c) /\ job[c].global
  BY DEF Patching, TypeInv, LocalsInv, Busy, Global, Shared
<1>2. job[c] \in Requests[c] /\ job[e] \in Requests[e]
  BY <1>1 DEF TypeInv, LocalsInv
<1>3. ~job[e].global /\ job[e].content \notin Speedy
  BY <1>1, <1>2 DEF OnePatches
<1>. QED BY <1>3 DEF Patching, TypeInv, LocalsInv

LEMMA PatchingIsBusy ==
    ASSUME NEW c \in Connection, Patching(c) PROVE Busy(c)
BY DEF Patching, Busy, Global, Shared

LEMMA GlobalKept ==
    ASSUME Inv, OnePatches, NEW c \in Connection, Apart(c), ConfStep(c), GlobalInv(c)',
           NEW e \in Connection
    PROVE  GlobalInv(e)'
<1>1. CASE e = c
  BY <1>1
<1>2. CASE e # c
  <2>1. /\ pc'[e] = pc[e] /\ job'[e] = job[e] /\ globalBefore'[e] = globalBefore[e]
    BY <1>2 DEF Apart
  <2>2. Patching(e)' <=> Patching(e)
    BY <2>1 DEF Patching
  <2>3. CASE ~Patching(e)
    BY <2>2, <2>3 DEF GlobalInv
  <2>4. CASE Patching(e)
    <3>1. ~Patching(c)
      BY <2>4, <1>2, OneIsAtIt, PatchingIsBusy DEF Inv, FileInv
    <3>2. nginxConf' = nginxConf
      BY <3>1 DEF ConfStep
    <3>. QED BY <2>1, <2>2, <2>4, <3>2 DEF GlobalInv, Inv
  <2>. QED BY <2>3, <2>4
<1>. QED BY <1>1, <1>2

LEMMA ConfKept ==
    ASSUME Inv, OnePatches, NEW c \in Connection, Apart(c), ConfStep(c), CommitStep(c)
    PROVE  ConfInv'
<1>. USE DEF Inv, FileInv
<1>1. CASE committed' = committed
  <2>1. NoSpeedy' <=> NoSpeedy
    BY <1>1 DEF NoSpeedy
  <2>2. \A d \in Domain : committed'[d] \notin Rejected
    BY <1>1 DEF ConfInv
  <2>3. nginxConf' = "plain" => NoSpeedy'
    BY <2>1 DEF ConfInv, ConfStep
  <2>4. ASSUME NEW e \in Connection, Patching(e)', globalBefore'[e] = "plain" PROVE NoSpeedy'
    <3>1. CASE e = c
      BY <2>1, <2>4, <3>1 DEF ConfInv, ConfStep
    <3>2. CASE e # c
      BY <2>1, <2>4, <3>2 DEF ConfInv, Apart, Patching
    <3>. QED BY <3>1, <3>2
  <2>5. ASSUME "nginx.conf" \notin skipped', \A e \in Connection : pc'[e] \notin Emptying
        PROVE  nginxConf' \in {"plain", "cached"}
    BY <2>5 DEF ConfInv, ConfStep, Apart
  <2>. QED BY <2>2, <2>3, <2>4, <2>5 DEF ConfInv
<1>2. CASE committed' # committed
  <2>. DEFINE d == job[c].domain
  <2>1. /\ Busy(c) /\ pc[c] = "tested" /\ pc'[c] = "ok" /\ Accepts(vhost, nginxConf)
        /\ committed' = [committed EXCEPT ![d] = job[c].content] /\ nginxConf' = nginxConf
    BY <1>2 DEF CommitStep
  <2>2. d \in Domain /\ vhost[d] = job[c].content
    BY <2>1 DEF VhostInv, TypeInv, LocalsInv, NginxCommitRequest
  <2>3. /\ job[c].content \notin Rejected
        /\ job[c].content \in Speedy => nginxConf = "cached"
        /\ nginxConf \in {"plain", "cached"}
    BY <2>1, <2>2 DEF Accepts
  <2>4. \A f \in Domain : committed'[f] = IF f = d THEN job[c].content ELSE committed[f]
    BY <2>1 DEF TypeInv, TypeOK
  <2>5. \A f \in Domain : committed'[f] \notin Rejected
    BY <2>3, <2>4 DEF ConfInv
  <2>6. NoSpeedy /\ job[c].content \notin Speedy => NoSpeedy'
    BY <2>4 DEF NoSpeedy
  <2>7. nginxConf' = "plain" => NoSpeedy'
    BY <2>1, <2>3, <2>6 DEF ConfInv
  <2>8. ASSUME NEW e \in Connection, Patching(e)', globalBefore'[e] = "plain" PROVE NoSpeedy'
    <3>1. e # c
      BY <2>1, <2>8 DEF Patching, Global, Shared
    <3>2. Patching(e) /\ globalBefore[e] = "plain"
      BY <2>8, <3>1 DEF Apart, Patching
    <3>3. NoSpeedy
      BY <3>2 DEF ConfInv
    <3>4. job[c].content \notin Speedy
      BY <2>1, <3>1, <3>2, OneIsAtIt
    <3>. QED BY <3>3, <3>4, <2>6
  <2>. QED BY <2>1, <2>3, <2>5, <2>7, <2>8 DEF ConfInv
<1>. QED BY <1>1, <1>2

\* Files that nobody is changing are those that were answered with OK.
LEMMA UndisturbedIsValid ==
    ASSUME Inv, torn = {}, "nginx.conf" \notin skipped,
           \A c \in Connection : pc[c] \notin Rewriting \cup Emptying
    PROVE  Accepts(vhost, nginxConf)
<1>1. \A d \in Domain : vhost[d] = committed[d]
  BY DEF Inv, FileInv, CommittedStays
<1>2. nginxConf \in {"plain", "cached"}
  BY DEF Inv, ConfInv
<1>3. \A d \in Domain : committed[d] \notin Rejected
  BY DEF Inv, ConfInv
<1>4. nginxConf = "plain" => \A d \in Domain : committed[d] \notin Speedy
  BY DEF Inv, ConfInv, NoSpeedy
<1>. QED BY <1>1, <1>2, <1>3, <1>4 DEF Accepts

LEMMA LoadKept ==
    ASSUME Inv, NEW c \in Connection, Apart(c), LoadStep(c)
    PROVE  LoadInv'
<1>0. ASSUME NEW e \in Connection, e # c, pc[e] \in Changing PROVE LoadInv'
  BY <1>0 DEF Apart, LoadInv
<1>1. CASE live' = OnDisk' \/ skipped' # {} \/ pc'[c] \in Changing
  BY <1>1 DEF LoadInv
<1>2. CASE /\ live' = live /\ OnDisk' = OnDisk /\ torn' = torn /\ skipped' = skipped
           /\ pc[c] \notin Changing
  BY <1>0, <1>2 DEF Inv, LoadInv
<1>3. CASE /\ Restored(c) /\ ~Accepts(vhost, nginxConf)
           /\ OnDisk' = OnDisk /\ torn' = torn /\ skipped' = skipped
  <2>1. CASE torn # {} \/ skipped # {}
    BY <1>3, <2>1 DEF LoadInv
  <2>2. CASE torn = {} /\ skipped = {}
    <3>1. PICK e \in Connection : pc[e] \in Rewriting \cup Emptying
      BY <1>3, <2>2, UndisturbedIsValid
    <3>2. pc[e] \in Changing
      BY <3>1 DEF Rewriting, Emptying, Changing, Global, Shared
    <3>3. e # c
      BY <3>1, <1>3 DEF Restored, Rewriting, Emptying
    <3>. QED BY <1>0, <3>2, <3>3
  <2>. QED BY <2>1, <2>2
<1>. QED BY <1>1, <1>2, <1>3 DEF LoadStep

LEMMA CrashKeeps ==
    ASSUME Inv, TypeInv', Crash
    PROVE  Inv'
<1>1. FileInv'
  BY CrashKeepsFiles DEF Inv
<1>2. /\ \A c \in Connection : pc'[c] \in Answered
      /\ nginxConf' = nginxConf /\ committed' = committed
      /\ skipped' = {"nginx.conf", "reload"}
  BY DEF Crash
<1>3. \A c \in Connection : ~Patching(c)'
  BY <1>2 DEF Patching, Global, Shared
<1>4. ConfInv'
  BY <1>2, <1>3 DEF Inv, ConfInv, NoSpeedy
<1>5. LoadInv'
  BY <1>2 DEF LoadInv
<1>6. \A c \in Connection : GlobalInv(c)'
  BY <1>3 DEF GlobalInv
<1>. QED BY <1>1, <1>4, <1>5, <1>6 DEF Inv

LEMMA InitInv == Init => Inv
<1>. SUFFICES ASSUME Init PROVE Inv
  OBVIOUS
<1>1. \A c \in Connection : ~Patching(c)
  BY DEF Init, Patching, Global, Shared
<1>2. ConfInv
  BY <1>1 DEF Init, ConfInv, NoSpeedy
<1>3. LoadInv
  BY DEF Init, LoadInv, OnDisk
<1>. QED BY InitFiles, <1>1, <1>2, <1>3 DEF Inv, GlobalInv

-----------------------------------------------------------------------------
(* Theorems *)

LEMMA StutterKeeps ==
    ASSUME UNCHANGED vars
    PROVE  (FileInv => FileInv') /\ (Inv => Inv')
<1>1. FileInv => FileInv'
  BY DEF vars, FileInv, TypeInv, TypeOK, LocalsInv, Busy, CommittedStays, VhostInv
<1>2. OnDisk' = OnDisk /\ \A c \in Connection : Patching(c)' <=> Patching(c)
  BY DEF vars, OnDisk, Patching
<1>3. ConfInv => ConfInv'
  BY <1>2 DEF vars, ConfInv, NoSpeedy
<1>4. LoadInv => LoadInv'
  BY <1>2 DEF vars, LoadInv
<1>5. ASSUME NEW c \in Connection, GlobalInv(c) PROVE GlobalInv(c)'
  BY <1>2, <1>5 DEF vars, GlobalInv
<1>. QED BY <1>1, <1>3, <1>4, <1>5 DEF Inv

LEMMA FilesAreKept == DomainsDiffer => (FileInv /\ [Next]_vars => FileInv')
<1>. SUFFICES ASSUME DomainsDiffer, FileInv, [Next]_vars PROVE FileInv'
  OBVIOUS
<1>1. TypeInv'
  BY StepTyped DEF FileInv
<1>2. CASE Crash
  BY <1>1, <1>2, CrashKeepsFiles
<1>3. ASSUME NEW c \in Connection, Receive(c) \/ Serve(c) \/ Failure(c) PROVE FileInv'
  <2>1. Apart(c) /\ Orderly(c) /\ VhostInv(c)'
    BY <1>1, <1>3, FileSteps
  <2>. QED BY <1>1, <2>1, FilesKept
<1>4. CASE UNCHANGED vars
  BY <1>4, StutterKeeps
<1>. QED BY <1>2, <1>3, <1>4 DEF Next

LEMMA InvIsKept == DomainsDiffer /\ OnePatches => (Inv /\ [Next]_vars => Inv')
<1>. SUFFICES ASSUME DomainsDiffer, OnePatches, Inv, [Next]_vars PROVE Inv'
  OBVIOUS
<1>1. FileInv' /\ TypeInv'
  BY FilesAreKept DEF Inv, FileInv
<1>2. CASE Crash
  BY <1>1, <1>2, CrashKeeps
<1>3. ASSUME NEW c \in Connection, Receive(c) \/ Serve(c) \/ Failure(c) PROVE Inv'
  <2>1. Apart(c)
    BY <1>1, <1>3, FileSteps DEF Inv
  <2>2. ConfStep(c) /\ GlobalInv(c)' /\ CommitStep(c) /\ LoadStep(c)
    BY <1>1, <1>3, ConfSteps
  <2>3. \A e \in Connection : GlobalInv(e)'
    BY <2>1, <2>2, GlobalKept
  <2>4. ConfInv'
    BY <2>1, <2>2, ConfKept
  <2>5. LoadInv'
    BY <2>1, <2>2, LoadKept
  <2>. QED BY <1>1, <2>3, <2>4, <2>5 DEF Inv
<1>4. CASE UNCHANGED vars
  BY <1>4, StutterKeeps
<1>. QED BY <1>2, <1>3, <1>4 DEF Next

\* What the service answered with OK stays in the vhost until the next OK for the
\* domain, whatever fails (commitNginxVhost), unless the service died or the vhost
\* itself could not be put back (the domain is torn), as long as no two connections
\* at once ask for one domain.
THEOREM CommitsStay == DomainsDiffer => (Spec => []CommittedStays)
<1>. SUFFICES ASSUME DomainsDiffer PROVE Spec => []CommittedStays
  OBVIOUS
<1>1. FileInv /\ [Next]_vars => FileInv'
  BY FilesAreKept
<1>2. FileInv => CommittedStays
  BY DEF FileInv
<1>. QED BY InitFiles, <1>1, <1>2, PTL DEF Spec

\* When all requests are answered, the files are a configuration Nginx can start
\* with, unless a vhost is torn or nginx.conf was cut short, as long as one
\* connection at a time changes nginx.conf.
THEOREM FilesAreValid == DomainsDiffer /\ OnePatches => (Spec => []RestIsValid)
<1>. SUFFICES ASSUME DomainsDiffer, OnePatches PROVE Spec => []RestIsValid
  OBVIOUS
<1>1. Inv /\ [Next]_vars => Inv'
  BY InvIsKept
<1>2. Inv => RestIsValid
  BY UndisturbedIsValid DEF RestIsValid, AtRest, Rewriting, Emptying
<1>. QED BY InitInv, <1>1, <1>2, PTL DEF Spec

\* When all requests are answered, Nginx runs what the files say, unless a reload is
\* known to be missing, on the same condition.
THEOREM NginxFollows == DomainsDiffer /\ OnePatches => (Spec => []LiveFollowsFiles)
<1>. SUFFICES ASSUME DomainsDiffer, OnePatches PROVE Spec => []LiveFollowsFiles
  OBVIOUS
<1>1. Inv /\ [Next]_vars => Inv'
  BY InvIsKept
<1>2. Inv => LiveFollowsFiles
  BY DEF Inv, LoadInv, LiveFollowsFiles, AtRest, Changing, Global, Shared
<1>. QED BY InitInv, <1>1, <1>2, PTL DEF Spec
=============================================================================
