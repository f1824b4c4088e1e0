------------------------- MODULE SiteSettingsProofs -------------------------
(***************************************************************************)
(* Proofs about SiteSettings.                                               *)
(*                                                                         *)
(* Inv is the type invariant with what the stages of the requests and of    *)
(* the connections have left behind; it is inductive.  On top of it come    *)
(*   CommitInv  what the service puts back is what was in effect, so that   *)
(*              an update changes the one setting it names;                 *)
(*   ConfInv    no vhost that needs FileCachePath goes without;             *)
(*   RowInv     the rows have what is in effect, but for the one change     *)
(*              that waits for its commit, whence the refinement of         *)
(*              WriteThrough;                                               *)
(*   PortInv    the same of the ports, which are stored first.              *)
(* Each is inductive with the ones before it.                               *)
(*                                                                         *)
(* The lemmas are named for the action and the invariant: UpdateRow says    *)
(* that Update keeps RowInv.                                                *)
(***************************************************************************)
EXTENDS SiteSettings, FiniteSetTheorems, TLAPS

\* The stages from the first change on, those at which Nginx was asked, and the
\* stages of a connection nobody works for.
Begun == {"stored", "patched", "committing", "undoing"}
Asked == {"committing", "undoing"}
Answered == {"idle", "ok", "error"}

\* The revision of a row.
Revised == [root : Value, pagespeed : BOOLEAN, at : Nat]

\* What the step of a request says of the rest of it and of the lock.
Working(r) ==
    /\ step[r] # "idle" => ask[r] \in Asks[r]
    /\ Running(r) => change[r] \in Values(ask[r].op)
    /\ step[r] = "stored" => ask[r].op = "port"
    /\ step[r] = "undoing" => ask[r].op \in Stored
    /\ step[r] \in {"patched", "committing", "undoing"} => original[r] # None
    /\ step[r] \in Begun \cup {"verified"} /\ ask[r].op = "port" => pending[r] # None
    /\ step[r] \in Asked /\ ask[r].op \in Stored => pending[r] # None /\ writer = r
    /\ writer = r => step[r] \in Asked /\ ask[r].op \in Stored
    /\ step[r] \in Asked => pc[r] # "idle"
    /\ step[r] \in {"informed", "verified", "stored", "patched"} => pc[r] = "idle"

\* What the stage of a connection says of the rest of it.
Serving(c) ==
    /\ pc[c] \notin Answered => job[c] # None
    /\ pc[c] \notin Answered \cup {"received"} => before[c] # None
    /\ pc[c] \in {"checked", "truncated", "patched", "emptied", "reverted", "abandoned",
                  "dropped"} => job[c].global
    /\ pc[c] \notin Answered \cup {"received", "read"} /\ job[c].global =>
         globalBefore[c] # None

\* TypeOK alone is not inductive: a step uses what the steps before it have read.
Inv == TypeOK /\ \A r \in Request : Working(r) /\ Serving(r)

LEMMA NoneApart == None # "plain" /\ None # "cached"
  BY SiteSettingsAssumption

USE SiteSettingsAssumption
    DEF Revised, Goto, Locals, Database, Rest, serviceVars, Answered, Service!Answered,
        Service!Goto, Service!Files, Service!Locals, Service!History

LEMMA InitInv == Init => Inv
<1>1. Init => Service!TypeOK
  BY DEF Init, Service!Init, Service!TypeOK, Fresh, Vhost, Service!Stage, Service!NginxConf
<1>2. Init => site \in [Domain -> Row]
  BY DEF Init, Row
<1>3. Init => /\ writer = None /\ step \in [Request -> Stage] /\ now \in 0 .. MaxTime
              /\ lost \subseteq Domain
  BY DEF Init, Stage
<1>a. Init => /\ ask \in [Request -> Ask \cup {None}]
              /\ seen \in [Request -> Vhost \cup Revised \cup {None}]
              /\ change \in [Request -> Value \cup BOOLEAN \cup {None}]
              /\ original \in [Request -> Vhost \cup {None}]
              /\ pending \in [Request -> Row \cup {None}]
  BY DEF Init
<1>b. Init => TypeOK
  BY <1>1, <1>2, <1>3, <1>a DEF TypeOK
<1>4. Init => \A r \in Request : Working(r) /\ Serving(r)
  BY DEF Init, Service!Init, Working, Serving, Begun, Asked, Running
<1>. QED BY <1>b, <1>4 DEF Inv

\* What Inv says of a request that has been asked something,
LEMMA Question ==
    ASSUME Inv, NEW r \in Request, step[r] # "idle"
    PROVE  ask[r] \in Ask /\ ask[r].domain \in Domain /\ ask[r].op \in Operation
BY DEF Inv, Working, Ask

\* and of one the service is working for.
LEMMA Job ==
    ASSUME Inv, NEW r \in Request, pc[r] \notin Answered
    PROVE  /\ job[r] \in [domain : Domain, content : Vhost, global : BOOLEAN]
           /\ job[r].domain \in Domain /\ job[r].content \in Vhost
           /\ job[r].global \in BOOLEAN
           /\ pc[r] # "received" => before[r] \in Vhost
           /\ pc[r] \notin {"received", "read"} /\ job[r].global =>
                globalBefore[r] \in {"plain", "cached"}
<1>1. job[r] \in [domain : Domain, content : Vhost, global : BOOLEAN]
  BY DEF Inv, Serving, TypeOK, Service!TypeOK, Service!NginxCommitRequest
<1>2. pc[r] # "received" => before[r] \in Vhost
  BY DEF Inv, Serving, TypeOK, Service!TypeOK
<1>3. pc[r] \notin {"received", "read"} /\ job[r].global => globalBefore[r] \in {"plain", "cached"}
  BY DEF Inv, Serving, TypeOK, Service!TypeOK
<1>. QED BY <1>1, <1>2, <1>3

\* A patch changes the setting it is for,
LEMMA Patches ==
    ASSUME Inv, NEW r \in Request, step[r] \in {"patched", "committing", "undoing"}
    PROVE  /\ PatchedVhost(r) \in Vhost
           /\ PatchedVhost(r).root = IF ask[r].op = "root" THEN change[r] ELSE original[r].root
           /\ PatchedVhost(r).pagespeed =
                IF ask[r].op = "pagespeed" THEN change[r] ELSE original[r].pagespeed
           /\ PatchedVhost(r).port = IF ask[r].op = "port" THEN change[r] ELSE original[r].port
           /\ PatchedVhost(r).static =
                IF ask[r].op = "static" THEN change[r] ELSE original[r].static
<1>1. /\ ask[r].op \in Operation /\ change[r] \in Values(ask[r].op) /\ original[r] \in Vhost
  BY DEF Inv, TypeOK, Working, Running, Ask
<1>. QED BY <1>1 DEF PatchedVhost, Vhost, Values, Operation

\* The row an update of the site row commits.
NewRow(r) == [site[ask[r].domain] EXCEPT ![ask[r].op] = change[r], !.at = now]

\* and so does the new row.
LEMMA RowChanges ==
    ASSUME Inv, NEW r \in Request, step[r] = "patched", ask[r].op \in Stored
    PROVE  /\ NewRow(r) \in Row
           /\ NewRow(r).root =
                IF ask[r].op = "root" THEN change[r] ELSE site[ask[r].domain].root
           /\ NewRow(r).pagespeed =
                IF ask[r].op = "pagespeed" THEN change[r] ELSE site[ask[r].domain].pagespeed
           /\ NewRow(r).port = site[ask[r].domain].port
<1>1. /\ ask[r].op \in {"root", "pagespeed"} /\ change[r] \in Values(ask[r].op)
      /\ ask[r].domain \in Domain
  BY DEF Inv, Working, Running, Ask, Stored
<1>2. now \in 0 .. MaxTime /\ site[ask[r].domain] \in Row
  BY <1>1 DEF Inv, TypeOK
<1>3. now \in Nat
  BY <1>2
<1>. QED BY <1>1, <1>2, <1>3 DEF NewRow, Row, Values

\* A revision is one of the values seen[r] may have.
LEMMA CurrentRevision ==
    ASSUME Inv, NEW a \in Ask
    PROVE  Revision(a) \in Vhost \cup Revised \cup {None}
<1>1. a.domain \in Domain /\ a.op \in Operation
  BY DEF Ask
<1>2. site[a.domain] \in Row /\ vhost[a.domain] \in Vhost
  BY <1>1 DEF Inv, TypeOK, Service!TypeOK
<1>. QED BY <1>1, <1>2 DEF Revision, Row, Operation, Stored

-----------------------------------------------------------------------------
\* Each action keeps Inv: the helper's,
LEMMA GetInv == ASSUME Inv, NEW r \in Request, Get(r) PROVE Inv'
<1>1. Service!TypeOK'
  BY CurrentRevision DEF Get, Inv, TypeOK, Service!TypeOK, Working, Service!Stage, Service!NginxCommitRequest, Revision
<1>2. /\ site' \in [Domain -> Row]
      /\ writer' \in {q \in Request : step'[q] \in {"committing", "undoing"}} \cup {None}
      /\ step' \in [Request -> Stage]
      /\ ask' \in [Request -> Ask \cup {None}]
      /\ seen' \in [Request -> Vhost \cup Revised \cup {None}]
      /\ change' \in [Request -> Value \cup BOOLEAN \cup {None}]
      /\ original' \in [Request -> Vhost \cup {None}]
      /\ pending' \in [Request -> Row \cup {None}]
      /\ now' \in 0 .. MaxTime /\ lost' \subseteq Domain
  <2>1. PICK a \in Asks[r] : /\ ask' = [ask EXCEPT ![r] = a]
                              /\ seen' = [seen EXCEPT ![r] = Revision(a)]
    BY DEF Get
  <2>2. a \in Ask /\ Revision(a) \in Vhost \cup Revised \cup {None}
    BY CurrentRevision
  <2>3. /\ ask' \in [Request -> Ask \cup {None}]
        /\ seen' \in [Request -> Vhost \cup Revised \cup {None}]
    BY <2>1, <2>2 DEF Inv, TypeOK
  <2>4. UNCHANGED <<site, writer, change, original, pending, now, lost>>
    BY DEF Get
  <2>5. step' \in [Request -> Stage] /\ step[r] = "idle"
    BY DEF Get, Inv, TypeOK, Stage
  <2>6. writer' \in {q \in Request : step'[q] \in {"committing", "undoing"}} \cup {None}
    BY DEF Get, Inv, TypeOK
  <2>. QED BY <2>3, <2>4, <2>5, <2>6 DEF Inv, TypeOK
<1>3. ASSUME NEW q \in Request PROVE Working(q)'
  BY CurrentRevision DEF Get, Inv, TypeOK, Service!TypeOK, Working, Running, Begun, Asked, Stored, Values, Revision
<1>4. ASSUME NEW q \in Request PROVE Serving(q)'
  BY CurrentRevision DEF Get, Inv, TypeOK, Service!TypeOK, Working, Serving, Revision
<1>. QED BY <1>1, <1>2, <1>3, <1>4 DEF Inv, TypeOK

LEMMA VerifyInv == ASSUME Inv, NEW r \in Request, Verify(r) PROVE Inv'
<1>0. PICK v \in Values(ask[r].op) : change' = [change EXCEPT ![r] = v]
  BY DEF Verify
<1>a. v \in Value \cup BOOLEAN
  BY DEF Values
<1>b. vhost[ask[r].domain] \in Vhost /\ site[ask[r].domain] \in Row
  BY Question DEF Verify, Inv, TypeOK, Service!TypeOK
<1>1. Service!TypeOK'
  BY DEF Verify, Inv, TypeOK, Service!TypeOK, Working, Service!Stage, Service!NginxCommitRequest
<1>2. /\ site' \in [Domain -> Row]
      /\ writer' \in {q \in Request : step'[q] \in {"committing", "undoing"}} \cup {None}
      /\ step' \in [Request -> Stage]
      /\ ask' \in [Request -> Ask \cup {None}]
      /\ seen' \in [Request -> Vhost \cup Revised \cup {None}]
      /\ change' \in [Request -> Value \cup BOOLEAN \cup {None}]
      /\ original' \in [Request -> Vhost \cup {None}]
      /\ pending' \in [Request -> Row \cup {None}]
      /\ now' \in 0 .. MaxTime /\ lost' \subseteq Domain
  <2>1. /\ change' \in [Request -> Value \cup BOOLEAN \cup {None}]
        /\ original' \in [Request -> Vhost \cup {None}]
        /\ pending' \in [Request -> Row \cup {None}]
    BY <1>0, <1>a, <1>b DEF Verify, Inv, TypeOK
  <2>2. UNCHANGED <<site, writer, ask, seen, now, lost>>
    BY DEF Verify
  <2>3. step' \in [Request -> Stage]
    BY DEF Verify, Inv, TypeOK, Stage
  <2>4. writer' \in {q \in Request : step'[q] \in {"committing", "undoing"}} \cup {None}
    BY  DEF Verify, Inv, TypeOK, Working, Asked
  <2>. QED BY <2>1, <2>2, <2>3, <2>4 DEF Inv, TypeOK
<1>3. ASSUME NEW q \in Request PROVE Working(q)'
  <2>1. CASE q = r
    <3>1. /\ change'[r] = v /\ step'[r] \in {"verified", "patched"} /\ step[r] = "informed"
          /\ ask'[r] = ask[r] /\ pc'[r] = pc[r] /\ writer' = writer
          /\ ask[r].op = "port" => pending'[r] = site[ask[r].domain]
          /\ step'[r] = "patched" => original'[r] = vhost[ask[r].domain] /\ ask[r].op = "static"
      BY <1>0 DEF Verify, Inv, TypeOK
    <3>2. pc[r] = "idle" /\ ask[r] \in Asks[r] /\ writer # r
      BY <3>1 DEF Inv, Working, Asked
    <3>. QED BY <2>1, <3>1, <3>2, <1>b DEF Working, Running, Begun, Asked
  <2>2. CASE q # r
    <3>1. /\ change'[q] = change[q] /\ step'[q] = step[q] /\ original'[q] = original[q]
          /\ pending'[q] = pending[q]
          /\ UNCHANGED <<ask, pc, writer>>
      BY <2>2, <1>0 DEF Verify, Inv, TypeOK
    <3>. QED BY <3>1 DEF Inv, Working, Running
  <2>. QED BY <2>1, <2>2
<1>4. ASSUME NEW q \in Request PROVE Serving(q)'
  BY DEF Verify, Inv, TypeOK, Service!TypeOK, Working, Serving
<1>. QED BY <1>1, <1>2, <1>3, <1>4 DEF Inv, TypeOK

LEMMA ConflictInv == ASSUME Inv, NEW r \in Request, Conflict(r) PROVE Inv'
<1>1. Service!TypeOK'
  BY DEF Conflict, Inv, TypeOK, Service!TypeOK, Working, Service!Stage, Service!NginxCommitRequest, Return
<1>2. /\ site' \in [Domain -> Row]
      /\ writer' \in {q \in Request : step'[q] \in {"committing", "undoing"}} \cup {None}
      /\ step' \in [Request -> Stage]
      /\ ask' \in [Request -> Ask \cup {None}]
      /\ seen' \in [Request -> Vhost \cup Revised \cup {None}]
      /\ change' \in [Request -> Value \cup BOOLEAN \cup {None}]
      /\ original' \in [Request -> Vhost \cup {None}]
      /\ pending' \in [Request -> Row \cup {None}]
      /\ now' \in 0 .. MaxTime /\ lost' \subseteq Domain
  BY DEF Conflict, Inv, TypeOK, Working, Ask, Stage, Running, Return
<1>3. ASSUME NEW q \in Request PROVE Working(q)'
  BY DEF Conflict, Inv, TypeOK, Service!TypeOK, Working, Running, Begun, Asked, Stored, Values, Return
<1>4. ASSUME NEW q \in Request PROVE Serving(q)'
  BY DEF Conflict, Inv, TypeOK, Service!TypeOK, Working, Serving, Return
<1>. QED BY <1>1, <1>2, <1>3, <1>4 DEF Inv, TypeOK

LEMMA StorePortInv == ASSUME Inv, NEW r \in Request, StorePort(r) PROVE Inv'
<1>0. /\ step[r] = "verified" /\ ask[r].op = "port" /\ writer = None
      /\ ask[r].domain \in Domain /\ change[r] \in Value /\ now \in 0 .. MaxTime
  BY Question DEF StorePort, Inv, TypeOK, Working, Running, Values
<1>a. now \in Nat
  BY <1>0
<1>b. site[ask[r].domain] \in Row
  BY <1>0 DEF Inv, TypeOK
<1>c. [site[ask[r].domain] EXCEPT !.port = change[r], !.at = now] \in Row
  BY <1>0, <1>a, <1>b DEF Row
<1>d. site' = [site EXCEPT ![ask[r].domain] =
                 [site[ask[r].domain] EXCEPT !.port = change[r], !.at = now]]
  BY <1>0 DEF StorePort, Inv, TypeOK
<1>1. Service!TypeOK'
  BY DEF StorePort, Inv, TypeOK, Service!TypeOK, Working, Service!Stage, Service!NginxCommitRequest
<1>2. /\ site' \in [Domain -> Row]
      /\ writer' \in {q \in Request : step'[q] \in {"committing", "undoing"}} \cup {None}
      /\ step' \in [Request -> Stage]
      /\ ask' \in [Request -> Ask \cup {None}]
      /\ seen' \in [Request -> Vhost \cup Revised \cup {None}]
      /\ change' \in [Request -> Value \cup BOOLEAN \cup {None}]
      /\ original' \in [Request -> Vhost \cup {None}]
      /\ pending' \in [Request -> Row \cup {None}]
      /\ now' \in 0 .. MaxTime /\ lost' \subseteq Domain
  <2>1. site' \in [Domain -> Row]
    BY <1>0, <1>c, <1>d DEF Inv, TypeOK
  <2>2. UNCHANGED <<writer, ask, seen, change, original, pending, now, lost>>
    BY DEF StorePort
  <2>3. step' \in [Request -> Stage]
    BY DEF StorePort, Inv, TypeOK, Stage
  <2>4. writer' \in {q \in Request : step'[q] \in {"committing", "undoing"}} \cup {None}
    BY  DEF StorePort, Inv, TypeOK, Working, Asked
  <2>. QED BY <2>1, <2>2, <2>3, <2>4 DEF Inv, TypeOK
<1>3. ASSUME NEW q \in Request PROVE Working(q)'
  <2>1. CASE q = r
    <3>1. /\ step'[r] = "stored"
          /\ UNCHANGED <<ask, change, original, pending, writer, pc>>
      BY DEF StorePort, Inv, TypeOK
    <3>2. /\ pc[r] = "idle" /\ ask[r] \in Asks[r] /\ writer # r
          /\ change[r] \in Values(ask[r].op) /\ pending[r] # None
      BY <1>0 DEF Inv, Working, Asked, Running
    <3>. QED BY <2>1, <3>1, <3>2, <1>0 DEF Working, Running, Begun, Asked
  <2>2. CASE q # r
    <3>1. /\ step'[q] = step[q]
          /\ UNCHANGED <<ask, change, original, pending, pc, writer>>
      BY <2>2 DEF StorePort, Inv, TypeOK
    <3>. QED BY <3>1 DEF Inv, Working, Running
  <2>. QED BY <2>1, <2>2
<1>4. ASSUME NEW q \in Request PROVE Serving(q)'
  BY DEF StorePort, Inv, TypeOK, Service!TypeOK, Working, Serving
<1>. QED BY <1>1, <1>2, <1>3, <1>4 DEF Inv, TypeOK

LEMMA ReadOriginalInv == ASSUME Inv, NEW r \in Request, ReadOriginal(r) PROVE Inv'
<1>0. /\ step[r] \in {"verified", "stored"}
      /\ step[r] = "verified" => ask[r].op \in Stored
      /\ ask[r].domain \in Domain
  BY Question DEF ReadOriginal, ReadsVhost
<1>a. vhost[ask[r].domain] \in Vhost
  BY <1>0 DEF Inv, TypeOK, Service!TypeOK
<1>1. Service!TypeOK'
  BY DEF ReadOriginal, Inv, TypeOK, Service!TypeOK, Working, Service!Stage, Service!NginxCommitRequest, ReadsVhost
<1>2. /\ site' \in [Domain -> Row]
      /\ writer' \in {q \in Request : step'[q] \in {"committing", "undoing"}} \cup {None}
      /\ step' \in [Request -> Stage]
      /\ ask' \in [Request -> Ask \cup {None}]
      /\ seen' \in [Request -> Vhost \cup Revised \cup {None}]
      /\ change' \in [Request -> Value \cup BOOLEAN \cup {None}]
      /\ original' \in [Request -> Vhost \cup {None}]
      /\ pending' \in [Request -> Row \cup {None}]
      /\ now' \in 0 .. MaxTime /\ lost' \subseteq Domain
  <2>1. original' \in [Request -> Vhost \cup {None}]
    BY <1>a DEF ReadOriginal, Inv, TypeOK
  <2>2. UNCHANGED <<site, writer, ask, seen, change, pending, now, lost>>
    BY DEF ReadOriginal
  <2>3. step' \in [Request -> Stage]
    BY DEF ReadOriginal, Inv, TypeOK, Stage
  <2>4. writer' \in {q \in Request : step'[q] \in {"committing", "undoing"}} \cup {None}
    BY <1>0 DEF ReadOriginal, Inv, TypeOK, Working, Asked
  <2>. QED BY <2>1, <2>2, <2>3, <2>4 DEF Inv, TypeOK
<1>3. ASSUME NEW q \in Request PROVE Working(q)'
  <2>1. CASE q = r
    <3>1. /\ step'[r] = "patched" /\ original'[r] = vhost[ask[r].domain]
          /\ UNCHANGED <<ask, change, pending, writer, pc>>
      BY DEF ReadOriginal, Inv, TypeOK
    <3>2. /\ pc[r] = "idle" /\ ask[r] \in Asks[r] /\ writer # r
          /\ change[r] \in Values(ask[r].op)
          /\ ask[r].op = "port" => pending[r] # None
      BY <1>0 DEF Inv, Working, Asked, Running, Begun, Stored
    <3>. QED BY <2>1, <3>1, <3>2, <1>a DEF Working, Running, Begun, Asked
  <2>2. CASE q # r
    <3>1. /\ original'[q] = original[q] /\ step'[q] = step[q]
          /\ UNCHANGED <<ask, change, pending, pc, writer>>
      BY <2>2 DEF ReadOriginal, Inv, TypeOK
    <3>. QED BY <3>1 DEF Inv, Working, Running
  <2>. QED BY <2>1, <2>2
<1>4. ASSUME NEW q \in Request PROVE Serving(q)'
  BY DEF ReadOriginal, Inv, TypeOK, Service!TypeOK, Working, Serving, ReadsVhost
<1>. QED BY <1>1, <1>2, <1>3, <1>4 DEF Inv, TypeOK

LEMMA UpdateInv == ASSUME Inv, NEW r \in Request, Update(r) PROVE Inv'
<1>0. /\ step[r] = "patched" /\ ask[r].op \in Stored /\ writer = None /\ writer' = r
      /\ ask[r].domain \in Domain /\ PatchedVhost(r) \in Vhost /\ NewRow(r) \in Row
  BY Question, Patches, RowChanges DEF Update
<1>a. /\ pc' = [pc EXCEPT ![r] = "received"]
      /\ job' = [job EXCEPT ![r] = [domain |-> ask[r].domain, content |-> PatchedVhost(r),
                                    global |-> ask[r].op = "pagespeed"]]
      /\ UNCHANGED <<vhost, nginxConf, live, before, globalBefore, committed, torn, skipped>>
  BY DEF Update, Call
<1>b. [domain |-> ask[r].domain, content |-> PatchedVhost(r), global |-> ask[r].op = "pagespeed"]
          \in [domain : Domain, content : Vhost, global : BOOLEAN]
  BY <1>0
<1>c. /\ pending' = [pending EXCEPT ![r] = NewRow(r)]
      /\ step' = [step EXCEPT ![r] = "committing"]
      /\ UNCHANGED <<faults, site, ask, seen, change, original, now, lost>>
  BY DEF Update, NewRow
<1>f. faults' \in 0 .. MaxFaults
  BY <1>c DEF Inv, TypeOK, Service!TypeOK
<1>1. Service!TypeOK'
  <2>1. job' \in [Request -> Service!NginxCommitRequest \cup {None}]
    BY <1>a, <1>b DEF Inv, TypeOK, Service!TypeOK, Service!NginxCommitRequest
  <2>2. pc' \in [Request -> Service!Stage] /\ faults' \in 0 .. MaxFaults
    BY <1>a, <1>f DEF Inv, TypeOK, Service!TypeOK, Service!Stage
  <2>. QED BY <2>1, <2>2, <1>a DEF Inv, TypeOK, Service!TypeOK
<1>2. /\ site' \in [Domain -> Row]
      /\ writer' \in {q \in Request : step'[q] \in {"committing", "undoing"}} \cup {None}
      /\ step' \in [Request -> Stage]
      /\ ask' \in [Request -> Ask \cup {None}]
      /\ seen' \in [Request -> Vhost \cup Revised \cup {None}]
      /\ change' \in [Request -> Value \cup BOOLEAN \cup {None}]
      /\ original' \in [Request -> Vhost \cup {None}]
      /\ pending' \in [Request -> Row \cup {None}]
      /\ now' \in 0 .. MaxTime /\ lost' \subseteq Domain
  <2>1. pending' \in [Request -> Row \cup {None}] /\ step' \in [Request -> Stage]
    BY <1>0, <1>c DEF Inv, TypeOK, Stage
  <2>2. writer' \in {q \in Request : step'[q] \in {"committing", "undoing"}} \cup {None}
    BY <1>0, <1>c DEF Inv, TypeOK
  <2>. QED BY <2>1, <2>2, <1>c DEF Inv, TypeOK
<1>3. ASSUME NEW q \in Request PROVE Working(q)'
  <2>1. CASE q = r
    <3>1. step'[r] = "committing" /\ pending'[r] = NewRow(r) /\ pc'[r] = "received"
      BY <1>a, <1>c DEF Inv, TypeOK, Service!TypeOK
    <3>2. ask[r] \in Asks[r] /\ change[r] \in Values(ask[r].op) /\ original[r] # None
      BY <1>0 DEF Inv, Working, Running
    <3>. QED BY <2>1, <3>1, <3>2, <1>0, <1>c DEF Working, Running, Begun, Asked, Stored
  <2>2. CASE q # r
    <3>1. pending'[q] = pending[q] /\ step'[q] = step[q] /\ pc'[q] = pc[q]
      BY <2>2, <1>a, <1>c DEF Inv, TypeOK, Service!TypeOK
    <3>2. ~(step[q] \in Asked /\ ask[q].op \in Stored)
      BY <1>0 DEF Inv, Working
    <3>. QED BY <2>2, <3>1, <3>2, <1>0, <1>c DEF Inv, Working, Running
  <2>. QED BY <2>1, <2>2
<1>4. ASSUME NEW q \in Request PROVE Serving(q)'
  <2>1. CASE q = r
    <3>1. /\ pc'[r] = "received"
          /\ job'[r] \in [domain : Domain, content : Vhost, global : BOOLEAN]
      BY <1>a, <1>b DEF Inv, TypeOK, Service!TypeOK
    <3>. QED BY <2>1, <3>1 DEF Serving
  <2>2. CASE q # r
    <3>1. pc'[q] = pc[q] /\ job'[q] = job[q] /\ UNCHANGED <<before, globalBefore>>
      BY <2>2, <1>a DEF Inv, TypeOK, Service!TypeOK
    <3>. QED BY <3>1 DEF Inv, Serving
  <2>. QED BY <2>1, <2>2
<1>. QED BY <1>1, <1>2, <1>3, <1>4 DEF Inv, TypeOK

LEMMA BusyInv == ASSUME Inv, NEW r \in Request, Busy(r) PROVE Inv'
<1>1. Service!TypeOK'
  BY DEF Busy, Inv, TypeOK, Service!TypeOK, Working, Service!Stage, Service!NginxCommitRequest, Return
<1>2. /\ site' \in [Domain -> Row]
      /\ writer' \in {q \in Request : step'[q] \in {"committing", "undoing"}} \cup {None}
      /\ step' \in [Request -> Stage]
      /\ ask' \in [Request -> Ask \cup {None}]
      /\ seen' \in [Request -> Vhost \cup Revised \cup {None}]
      /\ change' \in [Request -> Value \cup BOOLEAN \cup {None}]
      /\ original' \in [Request -> Vhost \cup {None}]
      /\ pending' \in [Request -> Row \cup {None}]
      /\ now' \in 0 .. MaxTime /\ lost' \subseteq Domain
  BY DEF Busy, Inv, TypeOK, Working, Ask, Stage, Running, Return
<1>3. ASSUME NEW q \in Request PROVE Working(q)'
  BY DEF Busy, Inv, TypeOK, Service!TypeOK, Working, Running, Begun, Asked, Stored, Values, Return
<1>4. ASSUME NEW q \in Request PROVE Serving(q)'
  BY DEF Busy, Inv, TypeOK, Service!TypeOK, Working, Serving, Return
<1>. QED BY <1>1, <1>2, <1>3, <1>4 DEF Inv, TypeOK

LEMMA SendInv == ASSUME Inv, NEW r \in Request, Send(r) PROVE Inv'
<1>0. /\ step[r] = "patched" /\ ask[r].op \notin Stored
      /\ ask[r].domain \in Domain /\ PatchedVhost(r) \in Vhost
  BY Question, Patches DEF Send
<1>a. /\ pc' = [pc EXCEPT ![r] = "received"]
      /\ job' = [job EXCEPT ![r] = [domain |-> ask[r].domain, content |-> PatchedVhost(r),
                                    global |-> FALSE]]
      /\ UNCHANGED <<vhost, nginxConf, live, before, globalBefore, committed, torn, skipped>>
  BY DEF Send, Call
<1>b. [domain |-> ask[r].domain, content |-> PatchedVhost(r), global |-> FALSE]
          \in [domain : Domain, content : Vhost, global : BOOLEAN]
  BY <1>0
<1>f. faults' \in 0 .. MaxFaults
  BY DEF Send, Inv, TypeOK, Service!TypeOK
<1>1. Service!TypeOK'
  <2>1. job' \in [Request -> Service!NginxCommitRequest \cup {None}]
    BY <1>a, <1>b DEF Inv, TypeOK, Service!TypeOK, Service!NginxCommitRequest
  <2>2. pc' \in [Request -> Service!Stage] /\ faults' \in 0 .. MaxFaults
    BY <1>a, <1>f DEF Inv, TypeOK, Service!TypeOK, Service!Stage
  <2>. QED BY <2>1, <2>2, <1>a DEF Inv, TypeOK, Service!TypeOK
<1>2. /\ site' \in [Domain -> Row]
      /\ writer' \in {q \in Request : step'[q] \in {"committing", "undoing"}} \cup {None}
      /\ step' \in [Request -> Stage]
      /\ ask' \in [Request -> Ask \cup {None}]
      /\ seen' \in [Request -> Vhost \cup Revised \cup {None}]
      /\ change' \in [Request -> Value \cup BOOLEAN \cup {None}]
      /\ original' \in [Request -> Vhost \cup {None}]
      /\ pending' \in [Request -> Row \cup {None}]
      /\ now' \in 0 .. MaxTime /\ lost' \subseteq Domain
  BY Patches DEF Send, Inv, TypeOK, Working, Ask, Stage, Running, Call
<1>3. ASSUME NEW q \in Request PROVE Working(q)'
  BY Patches DEF Send, Inv, TypeOK, Service!TypeOK, Working, Running, Begun, Asked, Stored, Values, Call
<1>4. ASSUME NEW q \in Request PROVE Serving(q)'
  <2>1. CASE q = r
    <3>1. /\ pc'[r] = "received"
          /\ job'[r] \in [domain : Domain, content : Vhost, global : BOOLEAN]
      BY <1>a, <1>b DEF Inv, TypeOK, Service!TypeOK
    <3>. QED BY <2>1, <3>1 DEF Serving
  <2>2. CASE q # r
    <3>1. pc'[q] = pc[q] /\ job'[q] = job[q] /\ UNCHANGED <<before, globalBefore>>
      BY <2>2, <1>a DEF Inv, TypeOK, Service!TypeOK
    <3>. QED BY <3>1 DEF Inv, Serving
  <2>. QED BY <2>1, <2>2
<1>. QED BY <1>1, <1>2, <1>3, <1>4 DEF Inv, TypeOK

LEMMA CommitRowInv == ASSUME Inv, NEW r \in Request, Commit(r) PROVE Inv'
<1>1. Service!TypeOK'
  BY DEF Commit, Inv, TypeOK, Service!TypeOK, Working, Service!Stage, Service!NginxCommitRequest, HangUp, Return
<1>2. /\ site' \in [Domain -> Row]
      /\ writer' \in {q \in Request : step'[q] \in {"committing", "undoing"}} \cup {None}
      /\ step' \in [Request -> Stage]
      /\ ask' \in [Request -> Ask \cup {None}]
      /\ seen' \in [Request -> Vhost \cup Revised \cup {None}]
      /\ change' \in [Request -> Value \cup BOOLEAN \cup {None}]
      /\ original' \in [Request -> Vhost \cup {None}]
      /\ pending' \in [Request -> Row \cup {None}]
      /\ now' \in 0 .. MaxTime /\ lost' \subseteq Domain
  <2>1. site' \in [Domain -> Row]
    BY Question DEF Commit, Inv, TypeOK, Working, Asked
  <2>2. /\ ask' \in [Request -> Ask \cup {None}]
        /\ seen' \in [Request -> Vhost \cup Revised \cup {None}]
        /\ change' \in [Request -> Value \cup BOOLEAN \cup {None}]
        /\ original' \in [Request -> Vhost \cup {None}]
        /\ pending' \in [Request -> Row \cup {None}]
    BY DEF Commit, Return, Inv, TypeOK
  <2>3. step' \in [Request -> Stage] /\ UNCHANGED <<now, lost>>
    BY DEF Commit, Return, Inv, TypeOK, Stage
  <2>4. writer' \in {q \in Request : step'[q] \in {"committing", "undoing"}} \cup {None}
    BY DEF Commit, Return, Inv, TypeOK
  <2>. QED BY <2>1, <2>2, <2>3, <2>4 DEF Inv, TypeOK
<1>3. ASSUME NEW q \in Request PROVE Working(q)'
  BY DEF Commit, Inv, TypeOK, Service!TypeOK, Working, Running, Begun, Asked, Stored, Values, HangUp, Return
<1>4. ASSUME NEW q \in Request PROVE Serving(q)'
  BY DEF Commit, Inv, TypeOK, Service!TypeOK, Working, Serving, HangUp, Return
<1>. QED BY <1>1, <1>2, <1>3, <1>4 DEF Inv, TypeOK

LEMMA FinishInv == ASSUME Inv, NEW r \in Request, Finish(r) PROVE Inv'
<1>1. Service!TypeOK'
  BY DEF Finish, Inv, TypeOK, Service!TypeOK, Working, Service!Stage, Service!NginxCommitRequest, HangUp, Return
<1>2. /\ site' \in [Domain -> Row]
      /\ writer' \in {q \in Request : step'[q] \in {"committing", "undoing"}} \cup {None}
      /\ step' \in [Request -> Stage]
      /\ ask' \in [Request -> Ask \cup {None}]
      /\ seen' \in [Request -> Vhost \cup Revised \cup {None}]
      /\ change' \in [Request -> Value \cup BOOLEAN \cup {None}]
      /\ original' \in [Request -> Vhost \cup {None}]
      /\ pending' \in [Request -> Row \cup {None}]
      /\ now' \in 0 .. MaxTime /\ lost' \subseteq Domain
  BY DEF Finish, Inv, TypeOK, Working, Ask, Stage, Running, HangUp, Return
<1>3. ASSUME NEW q \in Request PROVE Working(q)'
  BY DEF Finish, Inv, TypeOK, Service!TypeOK, Working, Running, Begun, Asked, Stored, Values, HangUp, Return
<1>4. ASSUME NEW q \in Request PROVE Serving(q)'
  BY DEF Finish, Inv, TypeOK, Service!TypeOK, Working, Serving, HangUp, Return
<1>. QED BY <1>1, <1>2, <1>3, <1>4 DEF Inv, TypeOK

LEMMA RestorePortInv == ASSUME Inv, NEW r \in Request, RestorePort(r) PROVE Inv'
<1>0. /\ step[r] = "committing" /\ ask[r].op = "port" /\ ask[r].domain \in Domain
      /\ pending[r] \in Row
  BY Question DEF RestorePort, Inv, TypeOK, Working, Begun
<1>a. site[ask[r].domain] \in Row
  BY <1>0 DEF Inv, TypeOK
<1>b. [site[ask[r].domain] EXCEPT !.port = pending[r].port] \in Row
  BY <1>0, <1>a DEF Row
<1>c. \/ site' = site
      \/ site' = [site EXCEPT ![ask[r].domain] =
                    [site[ask[r].domain] EXCEPT !.port = pending[r].port]]
  BY <1>0 DEF RestorePort, Inv, TypeOK
<1>1. Service!TypeOK'
  BY DEF RestorePort, Inv, TypeOK, Service!TypeOK, Working, Service!Stage, Service!NginxCommitRequest, HangUp, Return
<1>2. /\ site' \in [Domain -> Row]
      /\ writer' \in {q \in Request : step'[q] \in {"committing", "undoing"}} \cup {None}
      /\ step' \in [Request -> Stage]
      /\ ask' \in [Request -> Ask \cup {None}]
      /\ seen' \in [Request -> Vhost \cup Revised \cup {None}]
      /\ change' \in [Request -> Value \cup BOOLEAN \cup {None}]
      /\ original' \in [Request -> Vhost \cup {None}]
      /\ pending' \in [Request -> Row \cup {None}]
      /\ now' \in 0 .. MaxTime /\ lost' \subseteq Domain
  <2>1. site' \in [Domain -> Row]
    BY <1>0, <1>b, <1>c DEF Inv, TypeOK
  <2>2. /\ ask' \in [Request -> Ask \cup {None}]
        /\ seen' \in [Request -> Vhost \cup Revised \cup {None}]
        /\ change' \in [Request -> Value \cup BOOLEAN \cup {None}]
        /\ original' \in [Request -> Vhost \cup {None}]
        /\ pending' \in [Request -> Row \cup {None}]
    BY DEF RestorePort, Return, Inv, TypeOK
  <2>3. step' \in [Request -> Stage] /\ UNCHANGED <<now, lost>>
    BY DEF RestorePort, Return, Inv, TypeOK, Stage
  <2>4. writer' \in {q \in Request : step'[q] \in {"committing", "undoing"}} \cup {None}
    BY DEF RestorePort, Return, Inv, TypeOK
  <2>. QED BY <2>1, <2>2, <2>3, <2>4 DEF Inv, TypeOK
<1>3. ASSUME NEW q \in Request PROVE Working(q)'
  BY DEF RestorePort, Inv, TypeOK, Service!TypeOK, Working, Running, Begun, Asked, Stored, Values, HangUp, Return
<1>4. ASSUME NEW q \in Request PROVE Serving(q)'
  BY DEF RestorePort, Inv, TypeOK, Service!TypeOK, Working, Serving, HangUp, Return
<1>. QED BY <1>1, <1>2, <1>3, <1>4 DEF Inv, TypeOK

LEMMA UnheardInv == ASSUME Inv, NEW r \in Request, Unheard(r) PROVE Inv'
<1>1. Service!TypeOK'
  BY DEF Unheard, Inv, TypeOK, Service!TypeOK, Working, Service!Stage, Service!NginxCommitRequest, HangUp
<1>2. /\ site' \in [Domain -> Row]
      /\ writer' \in {q \in Request : step'[q] \in {"committing", "undoing"}} \cup {None}
      /\ step' \in [Request -> Stage]
      /\ ask' \in [Request -> Ask \cup {None}]
      /\ seen' \in [Request -> Vhost \cup Revised \cup {None}]
      /\ change' \in [Request -> Value \cup BOOLEAN \cup {None}]
      /\ original' \in [Request -> Vhost \cup {None}]
      /\ pending' \in [Request -> Row \cup {None}]
      /\ now' \in 0 .. MaxTime /\ lost' \subseteq Domain
  BY DEF Unheard, Inv, TypeOK, Working, Ask, Stage, Running, HangUp
<1>3. ASSUME NEW q \in Request PROVE Working(q)'
  BY DEF Unheard, Inv, TypeOK, Service!TypeOK, Working, Running, Begun, Asked, Stored, Values, HangUp
<1>4. ASSUME NEW q \in Request PROVE Serving(q)'
  BY DEF Unheard, Inv, TypeOK, Service!TypeOK, Working, Serving, HangUp
<1>. QED BY <1>1, <1>2, <1>3, <1>4 DEF Inv, TypeOK

LEMMA ReadFailsInv == ASSUME Inv, NEW r \in Request, ReadFails(r) PROVE Inv'
<1>1. Service!TypeOK'
  BY DEF ReadFails, Inv, TypeOK, Service!TypeOK, Working, Service!Stage, Service!NginxCommitRequest, ReadsVhost, Fail, MayFail, Return
<1>2. /\ site' \in [Domain -> Row]
      /\ writer' \in {q \in Request : step'[q] \in {"committing", "undoing"}} \cup {None}
      /\ step' \in [Request -> Stage]
      /\ ask' \in [Request -> Ask \cup {None}]
      /\ seen' \in [Request -> Vhost \cup Revised \cup {None}]
      /\ change' \in [Request -> Value \cup BOOLEAN \cup {None}]
      /\ original' \in [Request -> Vhost \cup {None}]
      /\ pending' \in [Request -> Row \cup {None}]
      /\ now' \in 0 .. MaxTime /\ lost' \subseteq Domain
  BY DEF ReadFails, Inv, TypeOK, Working, Ask, Stage, Running, ReadsVhost, Fail, MayFail, Return
<1>3. ASSUME NEW q \in Request PROVE Working(q)'
  BY DEF ReadFails, Inv, TypeOK, Service!TypeOK, Working, Running, Begun, Asked, Stored, Values, ReadsVhost, Fail, MayFail, Return
<1>4. ASSUME NEW q \in Request PROVE Serving(q)'
  BY DEF ReadFails, Inv, TypeOK, Service!TypeOK, Working, Serving, ReadsVhost, Fail, MayFail, Return
<1>. QED BY <1>1, <1>2, <1>3, <1>4 DEF Inv, TypeOK

LEMMA CommitFailsInv == ASSUME Inv, NEW r \in Request, CommitFails(r) PROVE Inv'
<1>0. /\ step[r] = "committing" /\ ask[r].domain \in Domain /\ original[r] \in Vhost
  BY Question DEF CommitFails, Inv, TypeOK, Working
<1>a. /\ pc' = [pc EXCEPT ![r] = "received"]
      /\ job' = [job EXCEPT ![r] = [domain |-> ask[r].domain, content |-> original[r],
                                    global |-> FALSE]]
      /\ UNCHANGED <<vhost, nginxConf, live, before, globalBefore, committed, torn, skipped>>
  BY DEF CommitFails, Call
<1>b. [domain |-> ask[r].domain, content |-> original[r], global |-> FALSE]
          \in [domain : Domain, content : Vhost, global : BOOLEAN]
  BY <1>0
<1>f. faults' \in 0 .. MaxFaults
  BY DEF CommitFails, Fail, MayFail, Inv, TypeOK, Service!TypeOK
<1>1. Service!TypeOK'
  <2>1. job' \in [Request -> Service!NginxCommitRequest \cup {None}]
    BY <1>a, <1>b DEF Inv, TypeOK, Service!TypeOK, Service!NginxCommitRequest
  <2>2. pc' \in [Request -> Service!Stage] /\ faults' \in 0 .. MaxFaults
    BY <1>a, <1>f DEF Inv, TypeOK, Service!TypeOK, Service!Stage
  <2>. QED BY <2>1, <2>2, <1>a DEF Inv, TypeOK, Service!TypeOK
<1>2. /\ site' \in [Domain -> Row]
      /\ writer' \in {q \in Request : step'[q] \in {"committing", "undoing"}} \cup {None}
      /\ step' \in [Request -> Stage]
      /\ ask' \in [Request -> Ask \cup {None}]
      /\ seen' \in [Request -> Vhost \cup Revised \cup {None}]
      /\ change' \in [Request -> Value \cup BOOLEAN \cup {None}]
      /\ original' \in [Request -> Vhost \cup {None}]
      /\ pending' \in [Request -> Row \cup {None}]
      /\ now' \in 0 .. MaxTime /\ lost' \subseteq Domain
  BY DEF CommitFails, Inv, TypeOK, Working, Ask, Stage, Running, Call, Fail, MayFail
<1>3. ASSUME NEW q \in Request PROVE Working(q)'
  BY DEF CommitFails, Inv, TypeOK, Service!TypeOK, Working, Running, Begun, Asked, Stored, Values, Call, Fail, MayFail
<1>4. ASSUME NEW q \in Request PROVE Serving(q)'
  <2>1. CASE q = r
    <3>1. /\ pc'[r] = "received"
          /\ job'[r] \in [domain : Domain, content : Vhost, global : BOOLEAN]
      BY <1>a, <1>b DEF Inv, TypeOK, Service!TypeOK
    <3>. QED BY <2>1, <3>1 DEF Serving
  <2>2. CASE q # r
    <3>1. pc'[q] = pc[q] /\ job'[q] = job[q] /\ UNCHANGED <<before, globalBefore>>
      BY <2>2, <1>a DEF Inv, TypeOK, Service!TypeOK
    <3>. QED BY <3>1 DEF Inv, Serving
  <2>. QED BY <2>1, <2>2
<1>. QED BY <1>1, <1>2, <1>3, <1>4 DEF Inv, TypeOK

\* and the service's.
LEMMA ReadVhostInv ==
    ASSUME Inv, NEW r \in Request, Service!ReadVhost(r),
           UNCHANGED <<Database, step, Locals, now>>, lost' \in SUBSET Domain
    PROVE  Inv'
<1>1. Service!TypeOK'
  BY DEF Service!ReadVhost, Inv, TypeOK, Service!TypeOK, Serving, Service!Stage, Service!NginxConf, Service!NginxCommitRequest
<1>2. ASSUME NEW q \in Request PROVE Working(q)'
  BY DEF Service!ReadVhost, Inv, TypeOK, Service!TypeOK, Working, Running
<1>3. ASSUME NEW q \in Request PROVE Serving(q)'
  <2>1. CASE q = r
    <3>1. pc[r] = "received" /\ pc'[r] = "read" /\ before'[r] = vhost[job[r].domain] /\ job' = job
      BY DEF Service!ReadVhost, Inv, TypeOK, Service!TypeOK
    <3>2. before'[r] \in Vhost
      BY <3>1, Job DEF Inv, TypeOK, Service!TypeOK
    <3>. QED BY <2>1, <3>1, <3>2 DEF Inv, Serving
  <2>2. CASE q # r
    <3>1. /\ pc'[q] = pc[q] /\ before'[q] = before[q] /\ UNCHANGED <<job, globalBefore>>
      BY <2>2 DEF Service!ReadVhost, Inv, TypeOK, Service!TypeOK
    <3>. QED BY <3>1 DEF Inv, Serving
  <2>. QED BY <2>1, <2>2
<1>. QED BY <1>1, <1>2, <1>3 DEF Inv, TypeOK

LEMMA ReadGlobalInv ==
    ASSUME Inv, NEW r \in Request, Service!ReadGlobal(r),
           UNCHANGED <<Database, step, Locals, now>>, lost' \in SUBSET Domain
    PROVE  Inv'
<1>a. ASSUME nginxConf \in {"plain", "cached"},
             globalBefore' = [globalBefore EXCEPT ![r] = nginxConf],
             pc' = [pc EXCEPT ![r] = "checked"], UNCHANGED <<job, before>>
      PROVE  Service!TypeOK' /\ \A q \in Request : Serving(q)'
  <2>1. Service!TypeOK'
    BY <1>a DEF Service!ReadGlobal, Inv, TypeOK, Service!TypeOK, Service!Stage
  <2>2. ASSUME NEW q \in Request PROVE Serving(q)'
    <3>1. CASE q = r
      <4>1. pc[r] = "read" /\ job[r].global /\ pc'[r] = "checked" /\ globalBefore'[r] = nginxConf
        BY <1>a DEF Service!ReadGlobal, Inv, TypeOK, Service!TypeOK
      <4>2. before[r] # None /\ job[r] # None
        BY <4>1 DEF Inv, Serving
      <4>3. nginxConf # None
        BY <1>a, NoneApart
      <4>. QED BY <3>1, <4>1, <4>2, <4>3, <1>a DEF Serving
    <3>2. CASE q # r
      <4>1. pc'[q] = pc[q] /\ globalBefore'[q] = globalBefore[q]
        BY <3>2, <1>a DEF Inv, TypeOK, Service!TypeOK
      <4>. QED BY <4>1, <1>a DEF Inv, Serving
    <3>. QED BY <3>1, <3>2
  <2>. QED BY <2>1, <2>2
<1>b. ASSUME Service!Answer(r, "error")
      PROVE  Service!TypeOK' /\ \A q \in Request : Serving(q)'
  <2>1. Service!TypeOK'
    BY <1>b DEF Service!ReadGlobal, Service!Answer, Inv, TypeOK, Service!TypeOK, Service!Stage
  <2>2. ASSUME NEW q \in Request PROVE Serving(q)'
    BY <1>b DEF Service!ReadGlobal, Service!Answer, Inv, TypeOK, Service!TypeOK, Serving
  <2>. QED BY <2>1, <2>2
<1>1. Service!TypeOK'
  BY <1>a, <1>b DEF Service!ReadGlobal
<1>2. ASSUME NEW q \in Request PROVE Working(q)'
  BY DEF Service!ReadGlobal, Inv, TypeOK, Service!TypeOK, Working, Running, Service!Answer
<1>3. ASSUME NEW q \in Request PROVE Serving(q)'
  BY <1>a, <1>b DEF Service!ReadGlobal
<1>. QED BY <1>1, <1>2, <1>3 DEF Inv, TypeOK

LEMMA TruncateGlobalInv ==
    ASSUME Inv, NEW r \in Request, Service!TruncateGlobal(r),
           UNCHANGED <<Database, step, Locals, now>>, lost' \in SUBSET Domain
    PROVE  Inv'
<1>1. Service!TypeOK'
  BY DEF Service!TruncateGlobal, Inv, TypeOK, Service!TypeOK, Serving, Service!Stage, Service!NginxConf, Service!NginxCommitRequest
<1>2. ASSUME NEW q \in Request PROVE Working(q)'
  BY DEF Service!TruncateGlobal, Inv, TypeOK, Service!TypeOK, Working, Running
<1>3. ASSUME NEW q \in Request PROVE Serving(q)'
  BY DEF Service!TruncateGlobal, Inv, TypeOK, Service!TypeOK, Serving
<1>. QED BY <1>1, <1>2, <1>3 DEF Inv, TypeOK

LEMMA PatchGlobalInv ==
    ASSUME Inv, NEW r \in Request, Service!PatchGlobal(r),
           UNCHANGED <<Database, step, Locals, now>>, lost' \in SUBSET Domain
    PROVE  Inv'
<1>1. Service!TypeOK'
  BY DEF Service!PatchGlobal, Inv, TypeOK, Service!TypeOK, Serving, Service!Stage, Service!NginxConf, Service!NginxCommitRequest, Service!Overwrite
<1>2. ASSUME NEW q \in Request PROVE Working(q)'
  BY DEF Service!PatchGlobal, Inv, TypeOK, Service!TypeOK, Working, Running, Service!Overwrite
<1>3. ASSUME NEW q \in Request PROVE Serving(q)'
  BY DEF Service!PatchGlobal, Inv, TypeOK, Service!TypeOK, Serving, Service!Overwrite
<1>. QED BY <1>1, <1>2, <1>3 DEF Inv, TypeOK

LEMMA WriteVhostInv ==
    ASSUME Inv, NEW r \in Request, Service!WriteVhost(r),
           UNCHANGED <<Database, step, Locals, now>>, lost' \in SUBSET Domain
    PROVE  Inv'
<1>1. Service!TypeOK'
  BY DEF Service!WriteVhost, Inv, TypeOK, Service!TypeOK, Serving, Service!Stage, Service!NginxConf, Service!NginxCommitRequest
<1>2. ASSUME NEW q \in Request PROVE Working(q)'
  BY DEF Service!WriteVhost, Inv, TypeOK, Service!TypeOK, Working, Running
<1>3. ASSUME NEW q \in Request PROVE Serving(q)'
  <2>1. pc[r] \in {"read", "patched"} /\ (pc[r] = "patched" <=> job[r].global)
    BY DEF Service!WriteVhost, Service!Ready
  <2>2. UNCHANGED <<job, before, globalBefore>> /\ pc' = [pc EXCEPT ![r] = "written"]
    BY DEF Service!WriteVhost
  <2>3. CASE q = r
    BY <2>1, <2>2, <2>3 DEF Inv, Serving, TypeOK, Service!TypeOK
  <2>4. CASE q # r
    BY <2>2, <2>4 DEF Inv, Serving, TypeOK, Service!TypeOK
  <2>. QED BY <2>3, <2>4
<1>. QED BY <1>1, <1>2, <1>3 DEF Inv, TypeOK

LEMMA TestInv ==
    ASSUME Inv, NEW r \in Request, Service!Test(r),
           UNCHANGED <<Database, step, Locals, now>>, lost' \in SUBSET Domain
    PROVE  Inv'
<1>1. Service!TypeOK'
  BY DEF Service!Test, Inv, TypeOK, Service!TypeOK, Serving, Service!Stage, Service!NginxConf, Service!NginxCommitRequest
<1>2. ASSUME NEW q \in Request PROVE Working(q)'
  BY DEF Service!Test, Inv, TypeOK, Service!TypeOK, Working, Running
<1>3. ASSUME NEW q \in Request PROVE Serving(q)'
  BY DEF Service!Test, Inv, TypeOK, Service!TypeOK, Serving
<1>. QED BY <1>1, <1>2, <1>3 DEF Inv, TypeOK

LEMMA ReloadInv ==
    ASSUME Inv, NEW r \in Request, Service!Reload(r),
           UNCHANGED <<Database, step, Locals, now>>, lost' \in SUBSET Domain
    PROVE  Inv'
<1>1. Service!TypeOK'
  <2>1. CASE Service!Accepts(vhost, nginxConf) /\ live' = Service!OnDisk
             /\ committed' = [committed EXCEPT ![job[r].domain] = job[r].content]
             /\ torn' = torn \ {job[r].domain} /\ skipped' = {} /\ Service!Answer(r, "ok")
    <3>1. job[r].domain \in Domain /\ job[r].content \in Vhost
      BY Job DEF Service!Reload
    <3>2. live' \in [vhost : [Domain -> Vhost], conf : {"plain", "cached"}]
      BY <2>1 DEF Service!Accepts, Service!OnDisk, Inv, TypeOK, Service!TypeOK
    <3>3. committed' \in [Domain -> Vhost] /\ torn' \subseteq Domain
          /\ skipped' \subseteq {"nginx.conf", "reload"}
      BY <2>1, <3>1 DEF Inv, TypeOK, Service!TypeOK
    <3>4. /\ pc' \in [Request -> Service!Stage]
          /\ job' \in [Request -> Service!NginxCommitRequest \cup {None}]
          /\ before' \in [Request -> Vhost \cup {None}]
          /\ globalBefore' \in [Request -> {"plain", "cached", None}]
      BY <2>1 DEF Service!Answer, Inv, TypeOK, Service!TypeOK, Service!Stage
    <3>. QED BY <3>2, <3>3, <3>4 DEF Service!Reload, Inv, TypeOK, Service!TypeOK
  <2>2. CASE pc' = [pc EXCEPT ![r] = "failed"] /\ UNCHANGED <<job, before, globalBefore, live, committed, torn, skipped>>
    BY <2>2 DEF Service!Reload, Inv, TypeOK, Service!TypeOK, Service!Stage
  <2>. QED BY <2>1, <2>2 DEF Service!Reload
<1>2. ASSUME NEW q \in Request PROVE Working(q)'
  BY DEF Service!Reload, Inv, TypeOK, Service!TypeOK, Working, Running, Service!Answer, Service!OnDisk, Service!Accepts
<1>3. ASSUME NEW q \in Request PROVE Serving(q)'
  BY DEF Service!Reload, Inv, TypeOK, Service!TypeOK, Serving, Service!Answer, Service!OnDisk, Service!Accepts
<1>. QED BY <1>1, <1>2, <1>3 DEF Inv, TypeOK

LEMMA RestoreVhostInv ==
    ASSUME Inv, NEW r \in Request, Service!RestoreVhost(r),
           UNCHANGED <<Database, step, Locals, now>>, lost' \in SUBSET Domain
    PROVE  Inv'
<1>1. Service!TypeOK'
  BY DEF Service!RestoreVhost, Inv, TypeOK, Service!TypeOK, Serving, Service!Stage, Service!NginxConf, Service!NginxCommitRequest
<1>2. ASSUME NEW q \in Request PROVE Working(q)'
  BY DEF Service!RestoreVhost, Inv, TypeOK, Service!TypeOK, Working, Running
<1>3. ASSUME NEW q \in Request PROVE Serving(q)'
  BY DEF Service!RestoreVhost, Inv, TypeOK, Service!TypeOK, Serving
<1>. QED BY <1>1, <1>2, <1>3 DEF Inv, TypeOK

LEMMA RestoreGlobalInv ==
    ASSUME Inv, NEW r \in Request, Service!RestoreGlobal(r),
           UNCHANGED <<Database, step, Locals, now>>, lost' \in SUBSET Domain
    PROVE  Inv'
<1>1. Service!TypeOK'
  <2>1. pc[r] \in {"emptied", "dropped"} /\ globalBefore[r] \in {"plain", "cached"}
    BY Job DEF Service!RestoreGlobal, Inv, Serving
  <2>2. nginxConf' \in Service!NginxConf
    BY <2>1 DEF Service!RestoreGlobal, Service!Overwrite, Service!NginxConf, Inv, TypeOK, Service!TypeOK
  <2>3. /\ pc' \in [Request -> Service!Stage]
        /\ job' \in [Request -> Service!NginxCommitRequest \cup {None}]
        /\ before' \in [Request -> Vhost \cup {None}]
        /\ globalBefore' \in [Request -> {"plain", "cached", None}]
        /\ skipped' \subseteq {"nginx.conf", "reload"}
    BY ZenonT(60) DEF Service!RestoreGlobal, Service!Answer, Inv, TypeOK, Service!TypeOK, Service!Stage
  <2>. QED BY <2>2, <2>3 DEF Service!RestoreGlobal, Inv, TypeOK, Service!TypeOK
<1>2. ASSUME NEW q \in Request PROVE Working(q)'
  BY DEF Service!RestoreGlobal, Inv, TypeOK, Service!TypeOK, Working, Running, Service!Answer, Service!Overwrite
<1>3. ASSUME NEW q \in Request PROVE Serving(q)'
  BY DEF Service!RestoreGlobal, Inv, TypeOK, Service!TypeOK, Serving, Service!Answer, Service!Overwrite
<1>. QED BY <1>1, <1>2, <1>3 DEF Inv, TypeOK

LEMMA ReloadRestoredInv ==
    ASSUME Inv, NEW r \in Request, Service!ReloadRestored(r),
           UNCHANGED <<Database, step, Locals, now>>, lost' \in SUBSET Domain
    PROVE  Inv'
<1>1. Service!TypeOK'
  BY DEF Service!ReloadRestored, Inv, TypeOK, Service!TypeOK, Serving, Service!Stage, Service!NginxConf, Service!NginxCommitRequest, Service!Answer, Service!OnDisk, Service!Accepts, Service!Restored
<1>2. ASSUME NEW q \in Request PROVE Working(q)'
  BY DEF Service!ReloadRestored, Inv, TypeOK, Service!TypeOK, Working, Running, Service!Answer, Service!OnDisk, Service!Accepts, Service!Restored
<1>3. ASSUME NEW q \in Request PROVE Serving(q)'
  BY DEF Service!ReloadRestored, Inv, TypeOK, Service!TypeOK, Serving, Service!Answer, Service!OnDisk, Service!Accepts, Service!Restored
<1>. QED BY <1>1, <1>2, <1>3 DEF Inv, TypeOK

LEMMA PatchGlobalFailsInv ==
    ASSUME Inv, NEW r \in Request, Service!PatchGlobalFails(r),
           UNCHANGED <<Database, step, Locals, now>>, lost' \in SUBSET Domain
    PROVE  Inv'
<1>1. Service!TypeOK'
  <2>1. nginxConf' \in Service!NginxConf /\ skipped' \subseteq {"nginx.conf", "reload"}
    BY DEF Service!PatchGlobalFails, Service!NginxConf, Service!CutShort,
           Service!Overwrite, Inv, TypeOK, Service!TypeOK
  <2>2. /\ pc' \in [Request -> Service!Stage]
        /\ job' \in [Request -> Service!NginxCommitRequest \cup {None}]
        /\ before' \in [Request -> Vhost \cup {None}]
        /\ globalBefore' \in [Request -> {"plain", "cached", None}]
        /\ faults' \in 0 .. MaxFaults
    BY DEF Service!PatchGlobalFails, Service!Answer, Service!Fail, Service!MayFail, Inv,
           TypeOK, Service!TypeOK, Service!Stage
  <2>. QED BY <2>1, <2>2 DEF Service!PatchGlobalFails, Inv, TypeOK, Service!TypeOK
<1>2. ASSUME NEW q \in Request PROVE Working(q)'
  BY DEF Service!PatchGlobalFails, Inv, TypeOK, Service!TypeOK, Working, Running, Service!Answer, Service!Fail, Service!MayFail
<1>3. ASSUME NEW q \in Request PROVE Serving(q)'
  BY DEF Service!PatchGlobalFails, Inv, TypeOK, Service!TypeOK, Serving, Service!Answer, Service!Fail, Service!MayFail
<1>. QED BY <1>1, <1>2, <1>3 DEF Inv, TypeOK

LEMMA WriteVhostFailsInv ==
    ASSUME Inv, NEW r \in Request, Service!WriteVhostFails(r),
           UNCHANGED <<Database, step, Locals, now>>, lost' \in SUBSET Domain
    PROVE  Inv'
<1>0. /\ pc[r] \in {"read", "patched"} /\ (pc[r] = "patched" <=> job[r].global)
      /\ faults' \in 0 .. MaxFaults /\ UNCHANGED <<vhost, nginxConf, live, committed, torn, skipped>>
  BY DEF Service!WriteVhostFails, Service!Ready, Service!Fail, Service!MayFail, Inv, TypeOK, Service!TypeOK
<1>a. ASSUME job[r].global, pc' = [pc EXCEPT ![r] = "abandoned"],
             UNCHANGED <<job, before, globalBefore>>
      PROVE  Service!TypeOK' /\ \A q \in Request : Serving(q)'
  <2>1. Service!TypeOK'
    BY <1>0, <1>a DEF Inv, TypeOK, Service!TypeOK, Service!Stage
  <2>2. ASSUME NEW q \in Request PROVE Serving(q)'
    BY <1>0, <1>a DEF Inv, TypeOK, Service!TypeOK, Serving
  <2>. QED BY <2>1, <2>2
<1>b. ASSUME Service!Answer(r, "error")
      PROVE  Service!TypeOK' /\ \A q \in Request : Serving(q)'
  <2>1. Service!TypeOK'
    BY <1>0, <1>b DEF Service!Answer, Inv, TypeOK, Service!TypeOK, Service!Stage
  <2>2. ASSUME NEW q \in Request PROVE Serving(q)'
    BY <1>0, <1>b DEF Service!Answer, Inv, TypeOK, Service!TypeOK, Serving
  <2>. QED BY <2>1, <2>2
<1>1. Service!TypeOK'
  BY <1>a, <1>b DEF Service!WriteVhostFails
<1>2. ASSUME NEW q \in Request PROVE Working(q)'
  BY DEF Service!WriteVhostFails, Inv, TypeOK, Service!TypeOK, Working, Running, Service!Answer, Service!Fail, Service!MayFail
<1>3. ASSUME NEW q \in Request PROVE Serving(q)'
  BY <1>a, <1>b DEF Service!WriteVhostFails
<1>. QED BY <1>1, <1>2, <1>3 DEF Inv, TypeOK

LEMMA CommandFailsInv ==
    ASSUME Inv, NEW r \in Request, Service!CommandFails(r),
           UNCHANGED <<Database, step, Locals, now>>, lost' \in SUBSET Domain
    PROVE  Inv'
<1>1. Service!TypeOK'
  BY DEF Service!CommandFails, Inv, TypeOK, Service!TypeOK, Serving, Service!Stage, Service!NginxConf, Service!NginxCommitRequest, Service!OnDisk, Service!Accepts, Service!Fail, Service!MayFail
<1>2. ASSUME NEW q \in Request PROVE Working(q)'
  BY DEF Service!CommandFails, Inv, TypeOK, Service!TypeOK, Working, Running, Service!OnDisk, Service!Accepts, Service!Fail, Service!MayFail
<1>3. ASSUME NEW q \in Request PROVE Serving(q)'
  BY DEF Service!CommandFails, Inv, TypeOK, Service!TypeOK, Serving, Service!OnDisk, Service!Accepts, Service!Fail, Service!MayFail
<1>. QED BY <1>1, <1>2, <1>3 DEF Inv, TypeOK

LEMMA ReloadRestoredFailsInv ==
    ASSUME Inv, NEW r \in Request, Service!ReloadRestoredFails(r),
           UNCHANGED <<Database, step, Locals, now>>, lost' \in SUBSET Domain
    PROVE  Inv'
<1>1. Service!TypeOK'
  BY DEF Service!ReloadRestoredFails, Inv, TypeOK, Service!TypeOK, Serving, Service!Stage, Service!NginxConf, Service!NginxCommitRequest, Service!Answer, Service!Fail, Service!MayFail, Service!Restored
<1>2. ASSUME NEW q \in Request PROVE Working(q)'
  BY DEF Service!ReloadRestoredFails, Inv, TypeOK, Service!TypeOK, Working, Running, Service!Answer, Service!Fail, Service!MayFail, Service!Restored
<1>3. ASSUME NEW q \in Request PROVE Serving(q)'
  BY DEF Service!ReloadRestoredFails, Inv, TypeOK, Service!TypeOK, Serving, Service!Answer, Service!Fail, Service!MayFail, Service!Restored
<1>. QED BY <1>1, <1>2, <1>3 DEF Inv, TypeOK

LEMMA RestoreVhostFailsInv ==
    ASSUME Inv, NEW r \in Request, Service!RestoreVhostFails(r),
           UNCHANGED <<Database, step, Locals, now>>, lost' \in SUBSET Domain
    PROVE  Inv'
<1>1. Service!TypeOK'
  <2>1. job[r].domain \in Domain
    BY Job DEF Service!RestoreVhostFails, Inv, Serving
  <2>. QED BY <2>1 DEF Service!RestoreVhostFails, Service!Fail, Service!MayFail, Inv, TypeOK,
                       Service!TypeOK, Service!Stage
<1>2. ASSUME NEW q \in Request PROVE Working(q)'
  BY DEF Service!RestoreVhostFails, Inv, TypeOK, Service!TypeOK, Working, Running
<1>3. ASSUME NEW q \in Request PROVE Serving(q)'
  BY DEF Service!RestoreVhostFails, Inv, TypeOK, Service!TypeOK, Serving
<1>. QED BY <1>1, <1>2, <1>3 DEF Inv, TypeOK

LEMMA RestoreGlobalUnopenedInv ==
    ASSUME Inv, NEW r \in Request, Service!RestoreGlobalUnopened(r),
           UNCHANGED <<Database, step, Locals, now>>, lost' \in SUBSET Domain
    PROVE  Inv'
<1>1. Service!TypeOK'
  <2>1. nginxConf' \in Service!NginxConf /\ skipped' \subseteq {"nginx.conf", "reload"}
    BY DEF Service!RestoreGlobalUnopened, Inv, TypeOK,
           Service!TypeOK
  <2>2. pc' \in [Request -> Service!Stage]
    BY DEF Service!RestoreGlobalUnopened, Service!Answer, Inv, TypeOK, Service!TypeOK,
           Service!Stage
  <2>3. /\ job' \in [Request -> Service!NginxCommitRequest \cup {None}]
        /\ before' \in [Request -> Vhost \cup {None}]
        /\ globalBefore' \in [Request -> {"plain", "cached", None}]
    BY DEF Service!RestoreGlobalUnopened, Service!Answer, Inv, TypeOK, Service!TypeOK
  <2>4. faults' \in 0 .. MaxFaults
    BY DEF Service!RestoreGlobalUnopened, Service!Fail, Service!MayFail, Inv, TypeOK,
           Service!TypeOK
  <2>. QED BY <2>1, <2>2, <2>3, <2>4 DEF Service!RestoreGlobalUnopened, Inv, TypeOK, Service!TypeOK
<1>2. ASSUME NEW q \in Request PROVE Working(q)'
  BY DEF Service!RestoreGlobalUnopened, Inv, TypeOK, Service!TypeOK, Working, Running, Service!Answer
<1>3. ASSUME NEW q \in Request PROVE Serving(q)'
  BY DEF Service!RestoreGlobalUnopened, Inv, TypeOK, Service!TypeOK, Serving, Service!Answer
<1>. QED BY <1>1, <1>2, <1>3 DEF Inv, TypeOK

LEMMA RestoreGlobalFailsInv ==
    ASSUME Inv, NEW r \in Request, Service!RestoreGlobalFails(r),
           UNCHANGED <<Database, step, Locals, now>>, lost' \in SUBSET Domain
    PROVE  Inv'
<1>1. Service!TypeOK'
  <2>1. nginxConf' \in Service!NginxConf /\ skipped' \subseteq {"nginx.conf", "reload"}
    BY Job DEF Service!RestoreGlobalFails, Service!NginxConf, Service!CutShort,
           Service!Overwrite, Serving, Inv, TypeOK,
           Service!TypeOK
  <2>2. pc' \in [Request -> Service!Stage]
    BY DEF Service!RestoreGlobalFails, Service!Answer, Inv, TypeOK, Service!TypeOK,
           Service!Stage
  <2>3. /\ job' \in [Request -> Service!NginxCommitRequest \cup {None}]
        /\ before' \in [Request -> Vhost \cup {None}]
        /\ globalBefore' \in [Request -> {"plain", "cached", None}]
    BY DEF Service!RestoreGlobalFails, Service!Answer, Inv, TypeOK, Service!TypeOK
  <2>4. faults' \in 0 .. MaxFaults
    BY DEF Service!RestoreGlobalFails, Service!Fail, Service!MayFail, Inv, TypeOK,
           Service!TypeOK
  <2>. QED BY <2>1, <2>2, <2>3, <2>4 DEF Service!RestoreGlobalFails, Inv, TypeOK, Service!TypeOK
<1>2. ASSUME NEW q \in Request PROVE Working(q)'
  BY DEF Service!RestoreGlobalFails, Inv, TypeOK, Service!TypeOK, Working, Running, Service!Answer
<1>3. ASSUME NEW q \in Request PROVE Serving(q)'
  BY DEF Service!RestoreGlobalFails, Inv, TypeOK, Service!TypeOK, Serving, Service!Answer
<1>. QED BY <1>1, <1>2, <1>3 DEF Inv, TypeOK

LEMMA CrashInv ==
    ASSUME Inv, Service!Crash, UNCHANGED <<Database, step, Locals, now>>,
           lost' \in SUBSET Domain
    PROVE  Inv'
<1>1. torn' \subseteq Domain
  BY Job DEF Service!Crash, Service!Rewriting, Inv, TypeOK, Service!TypeOK
<1>2. Service!TypeOK'
  BY <1>1 DEF Service!Crash, Service!Fail, Service!MayFail, Inv, TypeOK, Service!TypeOK,
              Service!Stage
<1>3. ASSUME NEW q \in Request PROVE Working(q)' /\ Serving(q)'
  <2>1. /\ pc'[q] = IF pc[q] \in Answered THEN pc[q] ELSE "error"
        /\ UNCHANGED <<writer, step, ask, change, original, pending>>
    BY DEF Service!Crash
  <2>. QED BY <2>1 DEF Inv, Working, Serving, Running
<1>. QED BY <1>2, <1>3 DEF Inv, TypeOK

LEMMA HelperCrashInv == ASSUME Inv, HelperCrash PROVE Inv'
<1>1. Service!TypeOK'
  BY DEF HelperCrash, Fail, MayFail, Inv, TypeOK, Service!TypeOK
<1>2. lost' \subseteq Domain
  BY Question DEF HelperCrash, Inv, TypeOK
<1>3. /\ ask' \in [Request -> Ask \cup {None}]
      /\ seen' \in [Request -> Vhost \cup Revised \cup {None}]
      /\ change' \in [Request -> Value \cup BOOLEAN \cup {None}]
      /\ original' \in [Request -> Vhost \cup {None}]
      /\ pending' \in [Request -> Row \cup {None}]
      /\ step' \in [Request -> Stage]
  BY DEF HelperCrash, Stage
<1>4. TypeOK'
  BY <1>1, <1>2, <1>3 DEF HelperCrash, Inv, TypeOK
<1>5. ASSUME NEW q \in Request PROVE Working(q)' /\ Serving(q)'
  BY DEF HelperCrash, Inv, Working, Serving, Running, Begun, Asked
<1>. QED BY <1>4, <1>5 DEF Inv

LEMMA TickInv == ASSUME Inv, Tick PROVE Inv'
<1>1. Service!TypeOK' /\ now' \in 0 .. MaxTime
  BY DEF Tick, Inv, TypeOK, Service!TypeOK
<1>2. TypeOK'
  BY <1>1 DEF Tick, Inv, TypeOK
<1>3. ASSUME NEW q \in Request PROVE Working(q)' /\ Serving(q)'
  BY DEF Tick, Inv, Working, Serving, Running
<1>. QED BY <1>2, <1>3 DEF Inv

LEMMA StutterInv == ASSUME Inv, UNCHANGED vars PROVE Inv'
<1>1. Service!TypeOK'
  BY DEF vars, Inv, TypeOK, Service!TypeOK
<1>2. TypeOK'
  BY <1>1 DEF vars, Inv, TypeOK
<1>3. ASSUME NEW q \in Request PROVE Working(q)' /\ Serving(q)'
  BY DEF vars, Inv, Working, Serving, Running
<1>. QED BY <1>2, <1>3 DEF Inv

\* Every step keeps Inv.
LEMMA StepInv == Inv /\ [Next]_vars => Inv'
<1> SUFFICES ASSUME Inv, [Next]_vars PROVE Inv'
  OBVIOUS
<1>1. ASSUME NEW r \in Request, Get(r) PROVE Inv'
  BY <1>1, GetInv
<1>2. ASSUME NEW r \in Request, Handle(r) PROVE Inv'
  BY <1>2, VerifyInv, ConflictInv, StorePortInv, ReadOriginalInv, UpdateInv, BusyInv,
     SendInv, CommitRowInv, FinishInv, RestorePortInv, UnheardInv DEF Handle
<1>3. ASSUME NEW r \in Request, Serve(r) PROVE Inv'
  <2>1. UNCHANGED <<Database, step, Locals, now>> /\ lost' \in SUBSET Domain
    BY <1>3 DEF Serve, Inv, TypeOK
  <2>. QED BY <1>3, <2>1, ReadVhostInv, ReadGlobalInv, TruncateGlobalInv, PatchGlobalInv,
              WriteVhostInv, TestInv, ReloadInv, RestoreVhostInv, RestoreGlobalInv,
              ReloadRestoredInv DEF Serve, Service!Serve
<1>4. ASSUME NEW r \in Request, ReadFails(r) \/ CommitFails(r) PROVE Inv'
  BY <1>4, ReadFailsInv, CommitFailsInv
<1>5. ASSUME ServiceFails PROVE Inv'
  <2>1. UNCHANGED <<Database, step, Locals, now>> /\ lost' = lost \cup torn'
    BY <1>5 DEF ServiceFails
  <2>2. torn' \subseteq Domain
    <3>1. CASE Service!Crash
      BY <3>1, Job DEF Service!Crash, Service!Rewriting, Inv, TypeOK, Service!TypeOK
    <3>2. ASSUME NEW r \in Request, Service!Failure(r) PROVE torn' \subseteq Domain
      BY <3>2, Job DEF Service!Failure, Service!PatchGlobalFails, Service!WriteVhostFails,
                  Service!CommandFails, Service!RestoreVhostFails,
                  Service!RestoreGlobalUnopened, Service!RestoreGlobalFails,
                  Service!ReloadRestoredFails, Serving, Inv, TypeOK, Service!TypeOK
    <3>. QED BY <1>5, <3>1, <3>2 DEF ServiceFails
  <2>3. lost' \in SUBSET Domain
    BY <2>1, <2>2 DEF Inv, TypeOK
  <2>4. ASSUME NEW r \in Request, Service!Failure(r) PROVE Inv'
    BY <2>1, <2>3, <2>4, PatchGlobalFailsInv, WriteVhostFailsInv, CommandFailsInv,
       RestoreVhostFailsInv, RestoreGlobalUnopenedInv, RestoreGlobalFailsInv,
       ReloadRestoredFailsInv DEF Service!Failure
  <2>. QED BY <1>5, <2>1, <2>3, <2>4, CrashInv DEF ServiceFails
<1>. QED BY <1>1, <1>2, <1>3, <1>4, <1>5, HelperCrashInv, TickInv, StutterInv DEF Next

LEMMA InvHolds == Spec => []Inv
  BY InitInv, StepInv, PTL DEF Spec

\* Every variable keeps its type, for any number of sites and requests.
THEOREM TypeCorrect == Spec => []TypeOK
<1>1. Inv => TypeOK
  BY DEF Inv
<1>. QED BY InvHolds, <1>1, PTL

-----------------------------------------------------------------------------
\* Where two requests run at once they change different sites.
Conflictless ==
    \/ MaxRunning <= 1
    \/ \A q, r \in Request : q # r =>
         \A a \in Asks[q], b \in Asks[r] : a.domain # b.domain

\* Which is an invariant of them.
Apart == \A q, r \in Request :
            q # r /\ Running(q) /\ Running(r) => ask[q].domain # ask[r].domain

\* Whoever the service works for waits for it, unless the helper has died since.
Waited(r) == pc[r] \notin Answered =>
    \/ job[r].domain \in lost
    \/ step[r] \in Asked /\ job[r].domain = ask[r].domain

\* and has asked for its change, or for the vhost it read.
Sent(r) == pc[r] \notin Answered =>
    /\ step[r] \in Asked => job[r].domain = ask[r].domain
    /\ step[r] = "committing" => /\ job[r].content = PatchedVhost(r)
                                 /\ job[r].global <=> ask[r].op = "pagespeed"
    /\ step[r] = "undoing" => job[r].content = original[r] /\ ~job[r].global

\* What the service puts back, and what it has written.
Rewriting == {"written", "tested", "failed"}

Replacing(r) ==
    /\ pc[r] \notin Answered \cup {"received"} /\ job[r].domain \notin lost =>
         before[r] = committed[job[r].domain]
    /\ pc[r] \in Rewriting /\ job[r].domain \notin lost =>
         vhost[job[r].domain] = job[r].content

\* A request changes what was in effect when it read it.
Based(r) == ask[r] # None /\ ask[r].domain \notin lost =>
    /\ step[r] = "patched" => original[r] = committed[ask[r].domain]
    /\ step[r] = "committing" =>
         committed[ask[r].domain] = IF pc[r] = "ok" THEN PatchedVhost(r) ELSE original[r]
    /\ step[r] = "undoing" =>
         committed[ask[r].domain] = IF pc[r] = "ok" THEN original[r] ELSE PatchedVhost(r)

Tracked(r) == Waited(r) /\ Sent(r) /\ Replacing(r) /\ Based(r)

\* The vhost of a site nobody is at is what was last answered with OK.
Settled(d) == (\A c \in Request : pc[c] \in Rewriting => job[c].domain # d)
                  => vhost[d] = committed[d]

\* Nobody works on the site of another, and vhost, job and what the service has to
\* put back are what the last OK and the request make them.
CommitInv == /\ Apart
             /\ \A r \in Request : Tracked(r)
             /\ \A d \in Domain \ lost : Settled(d)

\* What CommitInv says of r depends on.
Mine(r) == <<step[r], ask[r], change[r], original[r], pc[r], job[r], before[r]>>

LEMMA InitCommit == Init => CommitInv
  BY DEF Init, Service!Init, CommitInv, Apart, Tracked, Waited, Sent, Replacing, Based, Settled, Running, Rewriting

\* A step of one request that changes no vhost,
LEMMA TrackedOthers ==
    ASSUME CommitInv, NEW r \in Request, lost \subseteq lost', UNCHANGED <<vhost, committed>>,
           \A q \in Request \ {r} : UNCHANGED Mine(q), Tracked(r)'
    PROVE  \A q \in Request : Tracked(q)'
<1>1. ASSUME NEW q \in Request, q # r PROVE Tracked(q)'
  <2>1. /\ UNCHANGED <<step[q], ask[q], change[q], original[q], pc[q], job[q], before[q]>>
        /\ Tracked(q)
    BY <1>1 DEF Mine, CommitInv
  <2>2. PatchedVhost(q)' = PatchedVhost(q)
    BY <2>1 DEF PatchedVhost
  <2>3. Waited(q)' /\ Sent(q)'
    BY <2>1, <2>2 DEF Tracked, Waited, Sent
  <2>4. Replacing(q)' /\ Based(q)'
    BY <2>1, <2>2 DEF Tracked, Replacing, Based
  <2>. QED BY <2>3, <2>4 DEF Tracked
<1>. QED BY <1>1

\* The steps that begin nothing keep requests apart, and the rest of CommitInv
\* but for one request.
LEMMA ApartKept ==
    ASSUME CommitInv, \A q \in Request : Running(q)' => Running(q) /\ ask'[q] = ask[q]
    PROVE  Apart'
  BY DEF CommitInv, Apart

LEMMA CommitKept ==
    ASSUME CommitInv, NEW r \in Request, lost \subseteq lost', UNCHANGED <<vhost, committed>>,
           \A q \in Request \ {r} : UNCHANGED Mine(q), Tracked(r)',
           Running(r)' => Running(r) /\ ask'[r] = ask[r],
           pc[r] \in Rewriting => pc'[r] \in Rewriting /\ job'[r].domain = job[r].domain
    PROVE  CommitInv'
<1>1. \A q \in Request : Tracked(q)'
  BY TrackedOthers
<1>2. Apart'
  BY ApartKept DEF Mine, Running
<1>3. ASSUME NEW d \in Domain \ lost' PROVE Settled(d)'
  <2>1. d \in Domain \ lost /\ Settled(d)
    BY DEF CommitInv
  <2>. QED BY <2>1 DEF Settled, Mine
<1>. QED BY <1>1, <1>2, <1>3 DEF CommitInv

\* Only its own job is at the site of a request that runs.
LEMMA NobodyElse ==
    ASSUME Inv, CommitInv, NEW r \in Request, Running(r), ask[r].domain \notin lost,
           NEW c \in Request, c # r, pc[c] \notin Answered
    PROVE  job[c].domain # ask[r].domain
  BY DEF CommitInv, Apart, Tracked, Waited, Asked, Running

\* so that the vhost of the site is what was last answered with OK.
LEMMA Undisturbed ==
    ASSUME Inv, CommitInv, NEW r \in Request, Running(r), ask[r].domain \notin lost,
           pc[r] \notin Rewriting
    PROVE  ask[r].domain \in Domain /\ vhost[ask[r].domain] = committed[ask[r].domain]
<1>1. ask[r].domain \in Domain \ lost
  BY Question DEF Running
<1>2. \A c \in Request : pc[c] \in Rewriting => job[c].domain # ask[r].domain
  BY NobodyElse DEF Rewriting
<1>. QED BY <1>1, <1>2 DEF CommitInv, Settled

\* The service goes on without touching the vhost,
LEMMA GoesOn ==
    ASSUME Inv, CommitInv, NEW r \in Request, lost \subseteq lost',
           UNCHANGED <<vhost, committed, step, ask, change, original, job, before>>,
           pc[r] \notin Answered \cup {"received"}, pc'[r] \notin Answered,
           pc'[r] \in Rewriting => pc[r] \in Rewriting
    PROVE  Tracked(r)'
<1>1. PatchedVhost(r)' = PatchedVhost(r) /\ Tracked(r)
  BY DEF PatchedVhost, CommitInv
<1>2. Waited(r)' /\ Sent(r)'
  BY <1>1 DEF Tracked, Waited, Sent
<1>3. Replacing(r)' /\ Based(r)'
  BY <1>1 DEF Tracked, Replacing, Based
<1>. QED BY <1>2, <1>3 DEF Tracked

\* or gives up.
LEMMA GivesUp ==
    ASSUME Inv, CommitInv, NEW r \in Request, lost \subseteq lost',
           UNCHANGED <<vhost, committed, step, ask, change, original>>,
           pc[r] \notin Answered, pc'[r] = "error"
    PROVE  Tracked(r)'
<1>1. PatchedVhost(r)' = PatchedVhost(r) /\ Tracked(r)
  BY DEF PatchedVhost, CommitInv
<1>2. Waited(r)' /\ Sent(r)' /\ Replacing(r)'
  BY DEF Waited, Sent, Replacing, Rewriting
<1>3. Based(r)'
  BY <1>1 DEF Tracked, Based
<1>. QED BY <1>2, <1>3 DEF Tracked

\* Each action keeps CommitInv.
LEMMA GetCommit ==
    ASSUME Inv, CommitInv, NEW r \in Request, Get(r) PROVE CommitInv'
<1>1. /\ \A q \in Request \ {r} : UNCHANGED Mine(q)
      /\ UNCHANGED <<vhost, committed, lost>>
  BY DEF Get, Mine, Inv, TypeOK, Service!TypeOK
<1>2. Tracked(r)'
  BY DEF Get, CommitInv, Tracked, Waited, Sent, Replacing, Based, Settled, PatchedVhost, Rewriting, Inv, TypeOK, Service!TypeOK, Working, Begun, Asked
<1>3. /\ Running(r)' => Running(r) /\ ask'[r] = ask[r]
      /\ pc[r] \in Rewriting => pc'[r] \in Rewriting /\ job'[r].domain = job[r].domain
  BY DEF Get, Running, Rewriting, Inv, TypeOK, Service!TypeOK, Working, Asked
<1>. QED BY <1>1, <1>2, <1>3, CommitKept

LEMMA ConflictCommit ==
    ASSUME Inv, CommitInv, NEW r \in Request, Conflict(r) PROVE CommitInv'
<1>1. /\ \A q \in Request \ {r} : UNCHANGED Mine(q)
      /\ UNCHANGED <<vhost, committed, lost>>
  BY DEF Conflict, Mine, Inv, TypeOK, Service!TypeOK, Return
<1>2. Tracked(r)'
  BY DEF Conflict, CommitInv, Tracked, Waited, Sent, Replacing, Based, Settled, PatchedVhost, Rewriting, Inv, TypeOK, Service!TypeOK, Working, Begun, Asked, Return
<1>3. /\ Running(r)' => Running(r) /\ ask'[r] = ask[r]
      /\ pc[r] \in Rewriting => pc'[r] \in Rewriting /\ job'[r].domain = job[r].domain
  BY DEF Conflict, Running, Rewriting, Inv, TypeOK, Service!TypeOK, Working, Asked, Return
<1>. QED BY <1>1, <1>2, <1>3, CommitKept

LEMMA StorePortCommit ==
    ASSUME Inv, CommitInv, NEW r \in Request, StorePort(r) PROVE CommitInv'
<1>1. /\ \A q \in Request \ {r} : UNCHANGED Mine(q)
      /\ UNCHANGED <<vhost, committed, lost>>
  BY DEF StorePort, Mine, Inv, TypeOK, Service!TypeOK
<1>2. Tracked(r)'
  BY DEF StorePort, CommitInv, Tracked, Waited, Sent, Replacing, Based, Settled, PatchedVhost, Rewriting, Inv, TypeOK, Service!TypeOK, Working, Begun, Asked
<1>3. /\ Running(r)' => Running(r) /\ ask'[r] = ask[r]
      /\ pc[r] \in Rewriting => pc'[r] \in Rewriting /\ job'[r].domain = job[r].domain
  BY DEF StorePort, Running, Rewriting, Inv, TypeOK, Service!TypeOK, Working, Asked
<1>. QED BY <1>1, <1>2, <1>3, CommitKept

LEMMA ReadOriginalCommit ==
    ASSUME Inv, CommitInv, NEW r \in Request, ReadOriginal(r) PROVE CommitInv'
<1>1. /\ \A q \in Request \ {r} : UNCHANGED Mine(q)
      /\ UNCHANGED <<vhost, committed, lost>>
  BY DEF ReadOriginal, Mine, Inv, TypeOK, Service!TypeOK, ReadsVhost
<1>2. Tracked(r)'
  <2>1. /\ pc[r] = "idle" /\ Running(r)
        /\ step'[r] = "patched" /\ original'[r] = vhost[ask[r].domain]
        /\ UNCHANGED <<pc, ask, committed, lost>>
    BY DEF ReadOriginal, ReadsVhost, Inv, TypeOK, Working, Running
  <2>2. ask[r].domain \notin lost => vhost[ask[r].domain] = committed[ask[r].domain]
    BY <2>1, Undisturbed DEF Rewriting
  <2>. QED BY <2>1, <2>2 DEF Tracked, Waited, Sent, Replacing, Based, Rewriting
<1>3. /\ Running(r)' => Running(r) /\ ask'[r] = ask[r]
      /\ pc[r] \in Rewriting => pc'[r] \in Rewriting /\ job'[r].domain = job[r].domain
  BY DEF ReadOriginal, Running, Rewriting, Inv, TypeOK, Service!TypeOK, Working, Asked, ReadsVhost
<1>. QED BY <1>1, <1>2, <1>3, CommitKept

LEMMA UpdateCommit ==
    ASSUME Inv, CommitInv, NEW r \in Request, Update(r) PROVE CommitInv'
<1>1. /\ \A q \in Request \ {r} : UNCHANGED Mine(q)
      /\ UNCHANGED <<vhost, committed, lost>>
  BY DEF Update, Mine, Inv, TypeOK, Service!TypeOK, Call
<1>2. Tracked(r)'
  <2>1. /\ step'[r] = "committing" /\ pc'[r] = "received"
        /\ job'[r] = [domain |-> ask[r].domain, content |-> PatchedVhost(r), global |-> (ask[r].op = "pagespeed")]
        /\ UNCHANGED <<ask, change, original, committed, lost>>
    BY DEF Update, Call, Inv, TypeOK, Service!TypeOK
  <2>2. PatchedVhost(r)' = PatchedVhost(r) /\ Based(r)
    BY <2>1 DEF PatchedVhost, CommitInv, Tracked
  <2>3. step[r] = "patched"
    BY DEF Update, Inv, Working
  <2>4. job'[r].domain = ask[r].domain /\ job'[r].content = PatchedVhost(r)
    BY <2>1
  <2>a. job'[r].global = (ask[r].op = "pagespeed")
    BY <2>1
  <2>5. Waited(r)' /\ Sent(r)' /\ Replacing(r)'
    BY <2>1, <2>2, <2>3, <2>4, <2>a DEF Waited, Sent, Replacing, Rewriting, Asked, Stored
  <2>6. Based(r)'
    BY <2>1, <2>2, <2>3 DEF Based
  <2>. QED BY <2>5, <2>6 DEF Tracked
<1>3. /\ Running(r)' => Running(r) /\ ask'[r] = ask[r]
      /\ pc[r] \in Rewriting => pc'[r] \in Rewriting /\ job'[r].domain = job[r].domain
  BY DEF Update, Running, Rewriting, Inv, TypeOK, Service!TypeOK, Working, Asked, Call
<1>. QED BY <1>1, <1>2, <1>3, CommitKept

LEMMA BusyCommit ==
    ASSUME Inv, CommitInv, NEW r \in Request, Busy(r) PROVE CommitInv'
<1>1. /\ \A q \in Request \ {r} : UNCHANGED Mine(q)
      /\ UNCHANGED <<vhost, committed, lost>>
  BY DEF Busy, Mine, Inv, TypeOK, Service!TypeOK, Return
<1>2. Tracked(r)'
  BY DEF Busy, CommitInv, Tracked, Waited, Sent, Replacing, Based, Settled, PatchedVhost, Rewriting, Inv, TypeOK, Service!TypeOK, Working, Begun, Asked, Return
<1>3. /\ Running(r)' => Running(r) /\ ask'[r] = ask[r]
      /\ pc[r] \in Rewriting => pc'[r] \in Rewriting /\ job'[r].domain = job[r].domain
  BY DEF Busy, Running, Rewriting, Inv, TypeOK, Service!TypeOK, Working, Asked, Return
<1>. QED BY <1>1, <1>2, <1>3, CommitKept

LEMMA SendCommit ==
    ASSUME Inv, CommitInv, NEW r \in Request, Send(r) PROVE CommitInv'
<1>1. /\ \A q \in Request \ {r} : UNCHANGED Mine(q)
      /\ UNCHANGED <<vhost, committed, lost>>
  BY DEF Send, Mine, Inv, TypeOK, Service!TypeOK, Call
<1>2. Tracked(r)'
  <2>1. /\ step'[r] = "committing" /\ pc'[r] = "received"
        /\ job'[r] = [domain |-> ask[r].domain, content |-> PatchedVhost(r), global |-> FALSE]
        /\ UNCHANGED <<ask, change, original, committed, lost>>
    BY DEF Send, Call, Inv, TypeOK, Service!TypeOK
  <2>2. PatchedVhost(r)' = PatchedVhost(r) /\ Based(r)
    BY <2>1 DEF PatchedVhost, CommitInv, Tracked
  <2>3. step[r] = "patched" /\ ask[r].op \notin Stored
    BY DEF Send, Inv, Working
  <2>4. job'[r].domain = ask[r].domain /\ job'[r].content = PatchedVhost(r)
    BY <2>1
  <2>a. job'[r].global = FALSE
    BY <2>1
  <2>5. Waited(r)' /\ Sent(r)' /\ Replacing(r)'
    BY <2>1, <2>2, <2>3, <2>4, <2>a DEF Waited, Sent, Replacing, Rewriting, Asked, Stored
  <2>6. Based(r)'
    BY <2>1, <2>2, <2>3 DEF Based
  <2>. QED BY <2>5, <2>6 DEF Tracked
<1>3. /\ Running(r)' => Running(r) /\ ask'[r] = ask[r]
      /\ pc[r] \in Rewriting => pc'[r] \in Rewriting /\ job'[r].domain = job[r].domain
  BY DEF Send, Running, Rewriting, Inv, TypeOK, Service!TypeOK, Working, Asked, Call
<1>. QED BY <1>1, <1>2, <1>3, CommitKept

LEMMA CommitCommit ==
    ASSUME Inv, CommitInv, NEW r \in Request, Commit(r) PROVE CommitInv'
<1>1. /\ \A q \in Request \ {r} : UNCHANGED Mine(q)
      /\ UNCHANGED <<vhost, committed, lost>>
  BY DEF Commit, Mine, Inv, TypeOK, Service!TypeOK, HangUp, Return
<1>2. Tracked(r)'
  BY DEF Commit, CommitInv, Tracked, Waited, Sent, Replacing, Based, Settled, PatchedVhost, Rewriting, Inv, TypeOK, Service!TypeOK, Working, Begun, Asked, HangUp, Return
<1>3. /\ Running(r)' => Running(r) /\ ask'[r] = ask[r]
      /\ pc[r] \in Rewriting => pc'[r] \in Rewriting /\ job'[r].domain = job[r].domain
  BY DEF Commit, Running, Rewriting, Inv, TypeOK, Service!TypeOK, Working, Asked, HangUp, Return
<1>. QED BY <1>1, <1>2, <1>3, CommitKept

LEMMA FinishCommit ==
    ASSUME Inv, CommitInv, NEW r \in Request, Finish(r) PROVE CommitInv'
<1>1. /\ \A q \in Request \ {r} : UNCHANGED Mine(q)
      /\ UNCHANGED <<vhost, committed, lost>>
  BY DEF Finish, Mine, Inv, TypeOK, Service!TypeOK, HangUp, Return
<1>2. Tracked(r)'
  BY DEF Finish, CommitInv, Tracked, Waited, Sent, Replacing, Based, Settled, PatchedVhost, Rewriting, Inv, TypeOK, Service!TypeOK, Working, Begun, Asked, HangUp, Return
<1>3. /\ Running(r)' => Running(r) /\ ask'[r] = ask[r]
      /\ pc[r] \in Rewriting => pc'[r] \in Rewriting /\ job'[r].domain = job[r].domain
  BY DEF Finish, Running, Rewriting, Inv, TypeOK, Service!TypeOK, Working, Asked, HangUp, Return
<1>. QED BY <1>1, <1>2, <1>3, CommitKept

LEMMA RestorePortCommit ==
    ASSUME Inv, CommitInv, NEW r \in Request, RestorePort(r) PROVE CommitInv'
<1>1. /\ \A q \in Request \ {r} : UNCHANGED Mine(q)
      /\ UNCHANGED <<vhost, committed, lost>>
  BY DEF RestorePort, Mine, Inv, TypeOK, Service!TypeOK, HangUp, Return
<1>2. Tracked(r)'
  BY DEF RestorePort, CommitInv, Tracked, Waited, Sent, Replacing, Based, Settled, PatchedVhost, Rewriting, Inv, TypeOK, Service!TypeOK, Working, Begun, Asked, HangUp, Return
<1>3. /\ Running(r)' => Running(r) /\ ask'[r] = ask[r]
      /\ pc[r] \in Rewriting => pc'[r] \in Rewriting /\ job'[r].domain = job[r].domain
  BY DEF RestorePort, Running, Rewriting, Inv, TypeOK, Service!TypeOK, Working, Asked, HangUp, Return
<1>. QED BY <1>1, <1>2, <1>3, CommitKept

LEMMA UnheardCommit ==
    ASSUME Inv, CommitInv, NEW r \in Request, Unheard(r) PROVE CommitInv'
<1>1. /\ \A q \in Request \ {r} : UNCHANGED Mine(q)
      /\ UNCHANGED <<vhost, committed, lost>>
  BY DEF Unheard, Mine, Inv, TypeOK, Service!TypeOK, HangUp
<1>2. Tracked(r)'
  BY DEF Unheard, CommitInv, Tracked, Waited, Sent, Replacing, Based, Settled, PatchedVhost, Rewriting, Inv, TypeOK, Service!TypeOK, Working, Begun, Asked, HangUp
<1>3. /\ Running(r)' => Running(r) /\ ask'[r] = ask[r]
      /\ pc[r] \in Rewriting => pc'[r] \in Rewriting /\ job'[r].domain = job[r].domain
  BY DEF Unheard, Running, Rewriting, Inv, TypeOK, Service!TypeOK, Working, Asked, HangUp
<1>. QED BY <1>1, <1>2, <1>3, CommitKept

LEMMA ReadFailsCommit ==
    ASSUME Inv, CommitInv, NEW r \in Request, ReadFails(r) PROVE CommitInv'
<1>1. /\ \A q \in Request \ {r} : UNCHANGED Mine(q)
      /\ UNCHANGED <<vhost, committed, lost>>
  BY DEF ReadFails, Mine, Inv, TypeOK, Service!TypeOK, ReadsVhost, Fail, MayFail, Return
<1>2. Tracked(r)'
  BY DEF ReadFails, CommitInv, Tracked, Waited, Sent, Replacing, Based, Settled, PatchedVhost, Rewriting, Inv, TypeOK, Service!TypeOK, Working, Begun, Asked, ReadsVhost, Fail, MayFail, Return
<1>3. /\ Running(r)' => Running(r) /\ ask'[r] = ask[r]
      /\ pc[r] \in Rewriting => pc'[r] \in Rewriting /\ job'[r].domain = job[r].domain
  BY DEF ReadFails, Running, Rewriting, Inv, TypeOK, Service!TypeOK, Working, Asked, ReadsVhost, Fail, MayFail, Return
<1>. QED BY <1>1, <1>2, <1>3, CommitKept

LEMMA CommitFailsCommit ==
    ASSUME Inv, CommitInv, NEW r \in Request, CommitFails(r) PROVE CommitInv'
<1>1. /\ \A q \in Request \ {r} : UNCHANGED Mine(q)
      /\ UNCHANGED <<vhost, committed, lost>>
  BY DEF CommitFails, Mine, Inv, TypeOK, Service!TypeOK, Call, Fail, MayFail
<1>2. Tracked(r)'
  <2>1. /\ step'[r] = "undoing" /\ pc'[r] = "received"
        /\ job'[r] = [domain |-> ask[r].domain, content |-> original[r], global |-> FALSE]
        /\ UNCHANGED <<ask, change, original, committed, lost>>
    BY DEF CommitFails, Call, Inv, TypeOK, Service!TypeOK
  <2>2. PatchedVhost(r)' = PatchedVhost(r) /\ Based(r)
    BY <2>1 DEF PatchedVhost, CommitInv, Tracked
  <2>3. step[r] = "committing" /\ pc[r] = "ok"
    BY DEF CommitFails, Inv, Working
  <2>4. job'[r].domain = ask[r].domain /\ job'[r].content = original[r]
    BY <2>1
  <2>a. job'[r].global = FALSE
    BY <2>1
  <2>5. Waited(r)' /\ Sent(r)' /\ Replacing(r)'
    BY <2>1, <2>2, <2>3, <2>4, <2>a DEF Waited, Sent, Replacing, Rewriting, Asked, Stored
  <2>6. Based(r)'
    BY <2>1, <2>2, <2>3 DEF Based
  <2>. QED BY <2>5, <2>6 DEF Tracked
<1>3. /\ Running(r)' => Running(r) /\ ask'[r] = ask[r]
      /\ pc[r] \in Rewriting => pc'[r] \in Rewriting /\ job'[r].domain = job[r].domain
  BY DEF CommitFails, Running, Rewriting, Inv, TypeOK, Service!TypeOK, Working, Asked, Call, Fail, MayFail
<1>. QED BY <1>1, <1>2, <1>3, CommitKept

LEMMA ReadVhostCommit ==
    ASSUME Inv, CommitInv, NEW r \in Request, Service!ReadVhost(r),
           UNCHANGED <<Database, step, Locals, now>>, lost \subseteq lost'
    PROVE  CommitInv'
<1>1. /\ \A q \in Request \ {r} : UNCHANGED Mine(q)
      /\ UNCHANGED <<vhost, committed>>
  BY DEF Service!ReadVhost, Mine, Inv, TypeOK, Service!TypeOK
<1>2. Tracked(r)'
  <2>1. /\ pc[r] = "received" /\ pc'[r] = "read" /\ before'[r] = vhost[job[r].domain]
        /\ UNCHANGED <<vhost, committed, job, step, ask, change, original>>
    BY DEF Service!ReadVhost, Inv, TypeOK, Service!TypeOK
  <2>2. PatchedVhost(r)' = PatchedVhost(r) /\ Tracked(r)
    BY <2>1 DEF PatchedVhost, CommitInv
  <2>3. job[r].domain \notin lost => vhost[job[r].domain] = committed[job[r].domain]
    <3>1. ASSUME job[r].domain \notin lost
          PROVE  Running(r) /\ ask[r].domain = job[r].domain
      BY <3>1, <2>1, <2>2 DEF Tracked, Waited, Asked, Running
    <3>. QED BY <3>1, <2>1, Undisturbed DEF Rewriting
  <2>4. Waited(r)' /\ Sent(r)'
    BY <2>1, <2>2 DEF Tracked, Waited, Sent
  <2>5. Replacing(r)' /\ Based(r)'
    BY <2>1, <2>2, <2>3 DEF Tracked, Replacing, Based, Rewriting
  <2>. QED BY <2>4, <2>5 DEF Tracked
<1>3. /\ Running(r)' => Running(r) /\ ask'[r] = ask[r]
      /\ pc[r] \in Rewriting => pc'[r] \in Rewriting /\ job'[r].domain = job[r].domain
  BY DEF Service!ReadVhost, Running, Rewriting, Inv, TypeOK, Service!TypeOK
<1>. QED BY <1>1, <1>2, <1>3, CommitKept

LEMMA ReadGlobalCommit ==
    ASSUME Inv, CommitInv, NEW r \in Request, Service!ReadGlobal(r),
           UNCHANGED <<Database, step, Locals, now>>, lost \subseteq lost'
    PROVE  CommitInv'
<1>1. /\ \A q \in Request \ {r} : UNCHANGED Mine(q)
      /\ UNCHANGED <<vhost, committed>>
  BY DEF Service!ReadGlobal, Mine, Inv, TypeOK, Service!TypeOK, Service!Answer
<1>2. Tracked(r)'
  <2>1. CASE pc'[r] = "checked" /\ UNCHANGED <<job, before>>
    BY <2>1, GoesOn DEF Service!ReadGlobal, Rewriting
  <2>2. CASE pc'[r] = "error"
    BY <2>2, GivesUp DEF Service!ReadGlobal
  <2>. QED BY <2>1, <2>2 DEF Service!ReadGlobal, Service!Answer, Inv, TypeOK, Service!TypeOK
<1>3. /\ Running(r)' => Running(r) /\ ask'[r] = ask[r]
      /\ pc[r] \in Rewriting => pc'[r] \in Rewriting /\ job'[r].domain = job[r].domain
  BY DEF Service!ReadGlobal, Running, Rewriting, Inv, TypeOK, Service!TypeOK, Service!Answer
<1>. QED BY <1>1, <1>2, <1>3, CommitKept

LEMMA TruncateGlobalCommit ==
    ASSUME Inv, CommitInv, NEW r \in Request, Service!TruncateGlobal(r),
           UNCHANGED <<Database, step, Locals, now>>, lost \subseteq lost'
    PROVE  CommitInv'
<1>1. /\ \A q \in Request \ {r} : UNCHANGED Mine(q)
      /\ UNCHANGED <<vhost, committed>>
  BY DEF Service!TruncateGlobal, Mine, Inv, TypeOK, Service!TypeOK
<1>2. Tracked(r)'
  <2>1. pc[r] \in {"checked", "restored", "abandoned"} /\ pc'[r] \in {"truncated", "emptied", "dropped"}
    BY DEF Service!TruncateGlobal, Inv, TypeOK, Service!TypeOK
  <2>. QED BY <2>1, GoesOn DEF Service!TruncateGlobal, Rewriting
<1>3. /\ Running(r)' => Running(r) /\ ask'[r] = ask[r]
      /\ pc[r] \in Rewriting => pc'[r] \in Rewriting /\ job'[r].domain = job[r].domain
  BY DEF Service!TruncateGlobal, Running, Rewriting, Inv, TypeOK, Service!TypeOK
<1>. QED BY <1>1, <1>2, <1>3, CommitKept

LEMMA PatchGlobalCommit ==
    ASSUME Inv, CommitInv, NEW r \in Request, Service!PatchGlobal(r),
           UNCHANGED <<Database, step, Locals, now>>, lost \subseteq lost'
    PROVE  CommitInv'
<1>1. /\ \A q \in Request \ {r} : UNCHANGED Mine(q)
      /\ UNCHANGED <<vhost, committed>>
  BY DEF Service!PatchGlobal, Mine, Inv, TypeOK, Service!TypeOK
<1>2. Tracked(r)'
  BY ZenonT(60) DEF Service!PatchGlobal, CommitInv, Tracked, Waited, Sent, Replacing, Based, Settled, PatchedVhost, Rewriting, Inv, TypeOK, Service!TypeOK
<1>3. /\ Running(r)' => Running(r) /\ ask'[r] = ask[r]
      /\ pc[r] \in Rewriting => pc'[r] \in Rewriting /\ job'[r].domain = job[r].domain
  BY DEF Service!PatchGlobal, Running, Rewriting, Inv, TypeOK, Service!TypeOK
<1>. QED BY <1>1, <1>2, <1>3, CommitKept

LEMMA TestCommit ==
    ASSUME Inv, CommitInv, NEW r \in Request, Service!Test(r),
           UNCHANGED <<Database, step, Locals, now>>, lost \subseteq lost'
    PROVE  CommitInv'
<1>1. /\ \A q \in Request \ {r} : UNCHANGED Mine(q)
      /\ UNCHANGED <<vhost, committed>>
  BY DEF Service!Test, Mine, Inv, TypeOK, Service!TypeOK
<1>2. Tracked(r)'
  BY ZenonT(60) DEF Service!Test, CommitInv, Tracked, Waited, Sent, Replacing, Based, Settled, PatchedVhost, Rewriting, Inv, TypeOK, Service!TypeOK
<1>3. /\ Running(r)' => Running(r) /\ ask'[r] = ask[r]
      /\ pc[r] \in Rewriting => pc'[r] \in Rewriting /\ job'[r].domain = job[r].domain
  BY DEF Service!Test, Running, Rewriting, Inv, TypeOK, Service!TypeOK
<1>. QED BY <1>1, <1>2, <1>3, CommitKept

LEMMA RestoreGlobalCommit ==
    ASSUME Inv, CommitInv, NEW r \in Request, Service!RestoreGlobal(r),
           UNCHANGED <<Database, step, Locals, now>>, lost \subseteq lost'
    PROVE  CommitInv'
<1>1. /\ \A q \in Request \ {r} : UNCHANGED Mine(q)
      /\ UNCHANGED <<vhost, committed>>
  BY DEF Service!RestoreGlobal, Mine, Inv, TypeOK, Service!TypeOK, Service!Answer
<1>2. Tracked(r)'
  <2>1. CASE pc'[r] = "reverted" /\ UNCHANGED <<job, before>>
    BY <2>1, GoesOn DEF Service!RestoreGlobal, Rewriting
  <2>2. CASE pc'[r] = "error"
    BY <2>2, GivesUp DEF Service!RestoreGlobal
  <2>. QED BY <2>1, <2>2 DEF Service!RestoreGlobal, Service!Answer, Inv, TypeOK, Service!TypeOK
<1>3. /\ Running(r)' => Running(r) /\ ask'[r] = ask[r]
      /\ pc[r] \in Rewriting => pc'[r] \in Rewriting /\ job'[r].domain = job[r].domain
  BY DEF Service!RestoreGlobal, Running, Rewriting, Inv, TypeOK, Service!TypeOK, Service!Answer
<1>. QED BY <1>1, <1>2, <1>3, CommitKept

LEMMA ReloadRestoredCommit ==
    ASSUME Inv, CommitInv, NEW r \in Request, Service!ReloadRestored(r),
           UNCHANGED <<Database, step, Locals, now>>, lost \subseteq lost'
    PROVE  CommitInv'
<1>1. /\ \A q \in Request \ {r} : UNCHANGED Mine(q)
      /\ UNCHANGED <<vhost, committed>>
  BY DEF Service!ReloadRestored, Mine, Inv, TypeOK, Service!TypeOK, Service!Answer, Service!Restored
<1>2. Tracked(r)'
  BY ZenonT(60) DEF Service!ReloadRestored, CommitInv, Tracked, Waited, Sent, Replacing, Based, Settled, PatchedVhost, Rewriting, Inv, TypeOK, Service!TypeOK, Service!Answer, Service!Restored
<1>3. /\ Running(r)' => Running(r) /\ ask'[r] = ask[r]
      /\ pc[r] \in Rewriting => pc'[r] \in Rewriting /\ job'[r].domain = job[r].domain
  BY DEF Service!ReloadRestored, Running, Rewriting, Inv, TypeOK, Service!TypeOK, Service!Answer, Service!Restored
<1>. QED BY <1>1, <1>2, <1>3, CommitKept

LEMMA PatchGlobalFailsCommit ==
    ASSUME Inv, CommitInv, NEW r \in Request, Service!PatchGlobalFails(r),
           UNCHANGED <<Database, step, Locals, now>>, lost \subseteq lost'
    PROVE  CommitInv'
<1>1. /\ \A q \in Request \ {r} : UNCHANGED Mine(q)
      /\ UNCHANGED <<vhost, committed>>
  BY DEF Service!PatchGlobalFails, Mine, Inv, TypeOK, Service!TypeOK, Service!Answer
<1>2. Tracked(r)'
  BY ZenonT(60) DEF Service!PatchGlobalFails, CommitInv, Tracked, Waited, Sent, Replacing, Based, Settled, PatchedVhost, Rewriting, Inv, TypeOK, Service!TypeOK, Service!Answer
<1>3. /\ Running(r)' => Running(r) /\ ask'[r] = ask[r]
      /\ pc[r] \in Rewriting => pc'[r] \in Rewriting /\ job'[r].domain = job[r].domain
  BY DEF Service!PatchGlobalFails, Running, Rewriting, Inv, TypeOK, Service!TypeOK, Service!Answer
<1>. QED BY <1>1, <1>2, <1>3, CommitKept

LEMMA WriteVhostFailsCommit ==
    ASSUME Inv, CommitInv, NEW r \in Request, Service!WriteVhostFails(r),
           UNCHANGED <<Database, step, Locals, now>>, lost \subseteq lost'
    PROVE  CommitInv'
<1>1. /\ \A q \in Request \ {r} : UNCHANGED Mine(q)
      /\ UNCHANGED <<vhost, committed>>
  BY DEF Service!WriteVhostFails, Mine, Inv, TypeOK, Service!TypeOK, Service!Answer
<1>2. Tracked(r)'
  <2>1. CASE pc'[r] = "abandoned" /\ UNCHANGED <<job, before>>
    BY <2>1, GoesOn DEF Service!WriteVhostFails, Rewriting
  <2>2. CASE pc'[r] = "error"
    BY <2>2, GivesUp DEF Service!WriteVhostFails
  <2>. QED BY <2>1, <2>2 DEF Service!WriteVhostFails, Service!Answer, Inv, TypeOK, Service!TypeOK
<1>3. /\ Running(r)' => Running(r) /\ ask'[r] = ask[r]
      /\ pc[r] \in Rewriting => pc'[r] \in Rewriting /\ job'[r].domain = job[r].domain
  BY DEF Service!WriteVhostFails, Running, Rewriting, Inv, TypeOK, Service!TypeOK, Service!Answer
<1>. QED BY <1>1, <1>2, <1>3, CommitKept

LEMMA CommandFailsCommit ==
    ASSUME Inv, CommitInv, NEW r \in Request, Service!CommandFails(r),
           UNCHANGED <<Database, step, Locals, now>>, lost \subseteq lost'
    PROVE  CommitInv'
<1>1. /\ \A q \in Request \ {r} : UNCHANGED Mine(q)
      /\ UNCHANGED <<vhost, committed>>
  BY DEF Service!CommandFails, Mine, Inv, TypeOK, Service!TypeOK
<1>2. Tracked(r)'
  BY ZenonT(60) DEF Service!CommandFails, CommitInv, Tracked, Waited, Sent, Replacing, Based, Settled, PatchedVhost, Rewriting, Inv, TypeOK, Service!TypeOK
<1>3. /\ Running(r)' => Running(r) /\ ask'[r] = ask[r]
      /\ pc[r] \in Rewriting => pc'[r] \in Rewriting /\ job'[r].domain = job[r].domain
  BY DEF Service!CommandFails, Running, Rewriting, Inv, TypeOK, Service!TypeOK
<1>. QED BY <1>1, <1>2, <1>3, CommitKept

LEMMA ReloadRestoredFailsCommit ==
    ASSUME Inv, CommitInv, NEW r \in Request, Service!ReloadRestoredFails(r),
           UNCHANGED <<Database, step, Locals, now>>, lost \subseteq lost'
    PROVE  CommitInv'
<1>1. /\ \A q \in Request \ {r} : UNCHANGED Mine(q)
      /\ UNCHANGED <<vhost, committed>>
  BY DEF Service!ReloadRestoredFails, Mine, Inv, TypeOK, Service!TypeOK, Service!Answer, Service!Restored
<1>2. Tracked(r)'
  BY ZenonT(60) DEF Service!ReloadRestoredFails, CommitInv, Tracked, Waited, Sent, Replacing, Based, Settled, PatchedVhost, Rewriting, Inv, TypeOK, Service!TypeOK, Service!Answer, Service!Restored
<1>3. /\ Running(r)' => Running(r) /\ ask'[r] = ask[r]
      /\ pc[r] \in Rewriting => pc'[r] \in Rewriting /\ job'[r].domain = job[r].domain
  BY DEF Service!ReloadRestoredFails, Running, Rewriting, Inv, TypeOK, Service!TypeOK, Service!Answer, Service!Restored
<1>. QED BY <1>1, <1>2, <1>3, CommitKept

LEMMA VerifyCommit ==
    ASSUME Conflictless, Inv, CommitInv, NEW r \in Request, Verify(r) PROVE CommitInv'
<1>1. /\ \A q \in Request \ {r} : UNCHANGED Mine(q)
      /\ UNCHANGED <<vhost, committed, lost, ask, pc, job, before>>
  BY DEF Verify, Mine, Inv, TypeOK
<1>2. /\ pc[r] = "idle" /\ step[r] = "informed" /\ step'[r] \in {"verified", "patched"}
      /\ step'[r] = "patched" => original'[r] = vhost[ask[r].domain]
  BY DEF Verify, Inv, TypeOK, Working
<1>3. Apart'
  <2>1. ASSUME NEW q \in Request, q # r, Running(q) PROVE ask[q].domain # ask[r].domain
    <3>1. CASE MaxRunning <= 1
      <4> DEFINE Busies == {p \in Request : Running(p)}
      <4>1. IsFiniteSet(Busies) /\ q \in Busies /\ Cardinality(Busies) < MaxRunning
        BY <2>1, FS_Subset DEF Verify
      <4>2. Cardinality(Busies) \in Nat /\ Cardinality(Busies) # 0
        BY <4>1, FS_CardinalityType, FS_EmptySet
      <4>. QED BY <3>1, <4>1, <4>2
    <3>2. CASE ~(MaxRunning <= 1)
      <4>1. ask[q] \in Asks[q] /\ ask[r] \in Asks[r]
        BY <2>1, <1>2 DEF Inv, Working, Running
      <4>. QED BY <3>2, <4>1, <2>1 DEF Conflictless
    <3>. QED BY <3>1, <3>2
  <2>2. \A q \in Request \ {r} : Running(q)' <=> Running(q)
    BY <1>1 DEF Mine, Running
  <2>. QED BY <2>1, <2>2, <1>1 DEF Apart, CommitInv
<1>4. Tracked(r)'
  <2>1. step'[r] = "patched" /\ ask[r].domain \notin lost =>
          vhost[ask[r].domain] = committed[ask[r].domain]
    <3>1. ASSUME step'[r] = "patched", ask[r].domain \notin lost, NEW c \in Request,
                 pc[c] \in Rewriting
          PROVE  job[c].domain # ask[r].domain
      <4>1. c # r
        BY <3>1, <1>2 DEF Rewriting
      <4>2. CASE job[c].domain \in lost
        BY <4>2, <3>1
      <4>3. CASE Running(c) /\ job[c].domain = ask[c].domain
        <5>1. Running(c)' /\ Running(r)'
          BY <4>1, <4>3, <3>1, <1>1 DEF Mine, Running
        <5>. QED BY <5>1, <4>1, <4>3, <1>1, <1>3 DEF Apart
      <4>. QED BY <4>2, <4>3, <3>1 DEF CommitInv, Tracked, Waited, Asked, Running, Rewriting
    <3>2. ask[r].domain \in Domain
      BY <1>2, Question
    <3>. QED BY <3>1, <3>2 DEF CommitInv, Settled
  <2>. QED BY <2>1, <1>1, <1>2 DEF Tracked, Waited, Sent, Replacing, Based, Rewriting
<1>5. \A q \in Request : Tracked(q)'
  BY <1>1, <1>4, TrackedOthers
<1>6. ASSUME NEW d \in Domain \ lost' PROVE Settled(d)'
  BY <1>1 DEF CommitInv, Settled
<1>. QED BY <1>3, <1>5, <1>6 DEF CommitInv

\* What a step of the service that changes a vhost leaves alone.
LEMMA TrackedElsewhere ==
    ASSUME Inv, CommitInv, NEW r \in Request, pc[r] \notin Answered,
           UNCHANGED <<step, ask, change, original, job, lost>>,
           \A q \in Request \ {r} : UNCHANGED <<pc[q], job[q], before[q]>>,
           \A d \in Domain \ {job[r].domain} : UNCHANGED <<vhost[d], committed[d]>>,
           NEW q \in Request, q # r
    PROVE  Tracked(q)'
<1>1. /\ UNCHANGED <<pc[q], job[q], before[q], step[q], ask[q], change[q], original[q]>>
      /\ Tracked(q) /\ PatchedVhost(q)' = PatchedVhost(q)
  BY DEF CommitInv, PatchedVhost
<1>2. Waited(q)' /\ Sent(q)'
  BY <1>1 DEF Tracked, Waited, Sent
<1>3. Replacing(q)'
  <2>1. ASSUME pc[q] \notin Answered, job[q].domain \notin lost
        PROVE  UNCHANGED <<vhost[job[q].domain], committed[job[q].domain]>>
    <3>1. Running(q) /\ job[q].domain = ask[q].domain
      BY <1>1, <2>1 DEF Tracked, Waited, Asked, Running
    <3>2. job[r].domain # job[q].domain /\ job[q].domain \in Domain
      BY <2>1, <3>1, NobodyElse, Job
    <3>. QED BY <3>2
  <2>. QED BY <1>1, <2>1 DEF Tracked, Replacing, Rewriting
<1>4. Based(q)'
  <2>1. ASSUME Running(q), ask[q].domain \notin lost
        PROVE  UNCHANGED committed[ask[q].domain]
    <3>1. job[r].domain # ask[q].domain /\ ask[q].domain \in Domain
      BY <2>1, NobodyElse, Question DEF Running
    <3>. QED BY <3>1
  <2>. QED BY <1>1, <2>1 DEF Tracked, Based, Running
<1>. QED BY <1>2, <1>3, <1>4 DEF Tracked

LEMMA WriteVhostCommit ==
    ASSUME Inv, CommitInv, NEW r \in Request, Service!WriteVhost(r),
           UNCHANGED <<Database, step, Locals, now, lost>>
    PROVE  CommitInv'
<1>1. /\ pc[r] \in {"read", "patched"} /\ pc' = [pc EXCEPT ![r] = "written"]
      /\ vhost' = [vhost EXCEPT ![job[r].domain] = job[r].content]
      /\ UNCHANGED <<job, before, committed, step, ask, change, original, lost>>
      /\ job[r].domain \in Domain
  BY Job DEF Service!WriteVhost
<1>2. pc'[r] = "written" /\ vhost'[job[r].domain] = job[r].content
  BY <1>1 DEF Inv, TypeOK, Service!TypeOK
<1>3. ASSUME NEW q \in Request, q # r PROVE Tracked(q)' /\ pc'[q] = pc[q]
  BY <1>1, <1>3, TrackedElsewhere DEF Inv, TypeOK, Service!TypeOK
<1>4. Tracked(r)'
  <2>1. PatchedVhost(r)' = PatchedVhost(r) /\ Tracked(r)
    BY <1>1 DEF PatchedVhost, CommitInv
  <2>2. Waited(r)' /\ Sent(r)'
    BY <1>1, <1>2, <2>1 DEF Tracked, Waited, Sent
  <2>3. Replacing(r)' /\ Based(r)'
    BY <1>1, <1>2, <2>1 DEF Tracked, Replacing, Based, Rewriting
  <2>. QED BY <2>2, <2>3 DEF Tracked
<1>5. Apart'
  BY <1>1, ApartKept DEF Running
<1>6. ASSUME NEW d \in Domain \ lost' PROVE Settled(d)'
  <2>1. CASE d = job[r].domain
    BY <1>1, <1>2, <2>1 DEF Settled, Rewriting
  <2>2. CASE d # job[r].domain
    <3>1. vhost'[d] = vhost[d] /\ Settled(d)
      BY <1>1, <1>6, <2>2 DEF CommitInv, Inv, TypeOK, Service!TypeOK
    <3>2. \A c \in Request : pc[c] \in Rewriting => pc'[c] \in Rewriting
      BY <1>1, <1>3 DEF Rewriting
    <3>. QED BY <1>1, <3>1, <3>2 DEF Settled
  <2>. QED BY <2>1, <2>2
<1>. QED BY <1>3, <1>4, <1>5, <1>6 DEF CommitInv

LEMMA RestoreVhostCommit ==
    ASSUME Inv, CommitInv, NEW r \in Request, Service!RestoreVhost(r),
           UNCHANGED <<Database, step, Locals, now, lost>>
    PROVE  CommitInv'
<1>1. /\ pc[r] = "failed" /\ pc' = [pc EXCEPT ![r] = "restored"]
      /\ vhost' = [vhost EXCEPT ![job[r].domain] = before[r]]
      /\ UNCHANGED <<job, before, committed, step, ask, change, original, lost>>
      /\ job[r].domain \in Domain
  BY Job DEF Service!RestoreVhost
<1>2. pc'[r] = "restored" /\ vhost'[job[r].domain] = before[r]
  BY <1>1 DEF Inv, TypeOK, Service!TypeOK
<1>3. ASSUME NEW q \in Request, q # r PROVE Tracked(q)' /\ pc'[q] = pc[q]
  BY <1>1, <1>3, TrackedElsewhere DEF Inv, TypeOK, Service!TypeOK
<1>4. Tracked(r)'
  <2>1. PatchedVhost(r)' = PatchedVhost(r) /\ Tracked(r)
    BY <1>1 DEF PatchedVhost, CommitInv
  <2>2. Waited(r)' /\ Sent(r)'
    BY <1>1, <1>2, <2>1 DEF Tracked, Waited, Sent
  <2>3. Replacing(r)' /\ Based(r)'
    BY <1>1, <1>2, <2>1 DEF Tracked, Replacing, Based, Rewriting
  <2>. QED BY <2>2, <2>3 DEF Tracked
<1>5. Apart'
  BY <1>1, ApartKept DEF Running
<1>6. ASSUME NEW d \in Domain \ lost' PROVE Settled(d)'
  <2>1. CASE d = job[r].domain
    BY <1>1, <1>2, <1>6, <2>1 DEF CommitInv, Tracked, Replacing, Settled
  <2>2. CASE d # job[r].domain
    <3>1. vhost'[d] = vhost[d] /\ Settled(d)
      BY <1>1, <1>6, <2>2 DEF CommitInv, Inv, TypeOK, Service!TypeOK
    <3>2. \A c \in Request : pc[c] \in Rewriting => pc'[c] \in Rewriting \/ job[c].domain # d
      BY <1>1, <1>3, <2>2 DEF Rewriting
    <3>. QED BY <1>1, <3>1, <3>2 DEF Settled
  <2>. QED BY <2>1, <2>2
<1>. QED BY <1>3, <1>4, <1>5, <1>6 DEF CommitInv

LEMMA ReloadCommit ==
    ASSUME Inv, CommitInv, NEW r \in Request, Service!Reload(r),
           UNCHANGED <<Database, step, Locals, now, lost>>
    PROVE  CommitInv'
<1>1. CASE /\ committed' = [committed EXCEPT ![job[r].domain] = job[r].content]
           /\ Service!Answer(r, "ok")
  <2>1. /\ pc[r] = "tested" /\ pc' = [pc EXCEPT ![r] = "ok"] /\ vhost' = vhost
        /\ UNCHANGED <<step, ask, change, original, lost>>
        /\ job[r].domain \in Domain
    BY <1>1, Job DEF Service!Reload, Service!Answer
  <2>2. pc'[r] = "ok" /\ committed'[job[r].domain] = job[r].content
    BY <1>1, <2>1 DEF Inv, TypeOK, Service!TypeOK
  <2>3. ASSUME NEW q \in Request, q # r
        PROVE  UNCHANGED <<pc[q], job[q], before[q]>>
    BY <1>1, <2>1, <2>3 DEF Service!Answer, Inv, TypeOK, Service!TypeOK
  <2>4. ASSUME NEW d \in Domain, d # job[r].domain
        PROVE  UNCHANGED <<vhost[d], committed[d]>>
    BY <1>1, <2>1, <2>4 DEF Inv, TypeOK, Service!TypeOK
  <2>5. ASSUME NEW q \in Request, q # r PROVE Tracked(q)'
    <3>1. /\ UNCHANGED <<pc[q], job[q], before[q], step[q], ask[q], change[q], original[q]>>
          /\ Tracked(q) /\ PatchedVhost(q)' = PatchedVhost(q)
      BY <2>1, <2>3, <2>5 DEF CommitInv, PatchedVhost
    <3>2. Waited(q)' /\ Sent(q)'
      BY <2>1, <3>1 DEF Tracked, Waited, Sent
    <3>3. ASSUME pc[q] \notin Answered, job[q].domain \notin lost
          PROVE  UNCHANGED <<vhost[job[q].domain], committed[job[q].domain]>>
      <4>1. Running(q) /\ job[q].domain = ask[q].domain
        BY <3>1, <3>3 DEF Tracked, Waited, Asked, Running
      <4>2. job[r].domain # job[q].domain /\ job[q].domain \in Domain
        BY <2>1, <2>5, <3>3, <4>1, NobodyElse, Job
      <4>. QED BY <2>4, <3>1, <4>2
    <3>4. Replacing(q)'
      BY <2>1, <3>1, <3>3 DEF Tracked, Replacing, Rewriting
    <3>5. ASSUME Running(q), ask[q].domain \notin lost
          PROVE  UNCHANGED committed[ask[q].domain]
      <4>1. job[r].domain # ask[q].domain /\ ask[q].domain \in Domain
        BY <2>1, <2>5, <3>5, NobodyElse, Question DEF Running
      <4>. QED BY <2>4, <4>1
    <3>6. Based(q)'
      BY <2>1, <3>1, <3>5 DEF Tracked, Based, Running
    <3>. QED BY <3>2, <3>4, <3>6 DEF Tracked
  <2>6. Tracked(r)'
    <3>1. PatchedVhost(r)' = PatchedVhost(r) /\ Tracked(r)
      BY <2>1 DEF PatchedVhost, CommitInv
    <3>2. Waited(r)' /\ Sent(r)' /\ Replacing(r)'
      BY <2>2 DEF Waited, Sent, Replacing, Rewriting
    <3>3. ASSUME ask[r] # None, ask[r].domain \notin lost
          PROVE  /\ step[r] \in Asked => job[r].domain = ask[r].domain
                 /\ step[r] # "patched"
      BY <2>1, <3>1, <3>3 DEF Tracked, Sent, Asked, Inv, Working
    <3>4. Based(r)'
      BY <2>1, <2>2, <3>1, <3>3 DEF Tracked, Based, Sent, Asked
    <3>. QED BY <3>2, <3>4 DEF Tracked
  <2>7. Apart'
    BY <2>1, ApartKept DEF Running
  <2>8. ASSUME NEW d \in Domain \ lost' PROVE Settled(d)'
    <3>1. CASE d = job[r].domain
      <4>1. vhost[d] = job[r].content
        BY <2>1, <2>8, <3>1 DEF CommitInv, Tracked, Replacing, Rewriting
      <4>. QED BY <2>1, <2>2, <3>1, <4>1 DEF Settled
    <3>2. CASE d # job[r].domain
      <4>1. UNCHANGED <<vhost[d], committed[d]>> /\ Settled(d)
        BY <2>1, <2>4, <2>8, <3>2 DEF CommitInv
      <4>2. \A c \in Request : pc[c] \in Rewriting /\ job[c].domain = d =>
                pc'[c] \in Rewriting /\ job'[c].domain = d
        BY <2>3, <3>2
      <4>. QED BY <4>1, <4>2 DEF Settled
    <3>. QED BY <3>1, <3>2
  <2>. QED BY <2>5, <2>6, <2>7, <2>8 DEF CommitInv
<1>2. CASE pc' = [pc EXCEPT ![r] = "failed"] /\ UNCHANGED <<job, before, committed>>
  <2>1. /\ \A q \in Request \ {r} : UNCHANGED Mine(q)
        /\ UNCHANGED <<vhost, committed, step, ask, change, original>>
        /\ pc[r] = "tested" /\ pc'[r] = "failed"
    BY <1>2 DEF Service!Reload, Mine, Inv, TypeOK, Service!TypeOK
  <2>2. Tracked(r)'
    BY <1>2, <2>1, GoesOn DEF Rewriting
  <2>. QED BY <1>2, <2>1, <2>2, CommitKept DEF Rewriting, Running
<1>. QED BY <1>1, <1>2 DEF Service!Reload

LEMMA RestoreGlobalUnopenedCommit ==
    ASSUME Inv, CommitInv, NEW r \in Request, Service!RestoreGlobalUnopened(r),
           UNCHANGED <<Database, step, Locals, now>>, lost \subseteq lost'
    PROVE  CommitInv'
<1>1. /\ \A q \in Request \ {r} : UNCHANGED Mine(q)
      /\ UNCHANGED <<vhost, committed>>
  BY DEF Service!RestoreGlobalUnopened, Mine, Inv, TypeOK, Service!TypeOK, Service!Answer
<1>2. Tracked(r)'
  <2>1. CASE pc'[r] = "reverted" /\ UNCHANGED <<job, before>>
    BY <2>1, GoesOn DEF Service!RestoreGlobalUnopened, Rewriting
  <2>2. CASE pc'[r] = "error"
    BY <2>2, GivesUp DEF Service!RestoreGlobalUnopened
  <2>. QED BY <2>1, <2>2 DEF Service!RestoreGlobalUnopened, Service!Answer, Inv, TypeOK,
              Service!TypeOK
<1>3. /\ Running(r)' => Running(r) /\ ask'[r] = ask[r]
      /\ pc[r] \in Rewriting => pc'[r] \in Rewriting /\ job'[r].domain = job[r].domain
  BY DEF Service!RestoreGlobalUnopened, Running, Rewriting
<1>. QED BY <1>1, <1>2, <1>3, CommitKept

LEMMA RestoreGlobalFailsCommit ==
    ASSUME Inv, CommitInv, NEW r \in Request, Service!RestoreGlobalFails(r),
           UNCHANGED <<Database, step, Locals, now>>, lost \subseteq lost'
    PROVE  CommitInv'
<1>1. /\ \A q \in Request \ {r} : UNCHANGED Mine(q)
      /\ UNCHANGED <<vhost, committed>>
  BY DEF Service!RestoreGlobalFails, Mine, Inv, TypeOK, Service!TypeOK, Service!Answer
<1>2. Tracked(r)'
  <2>1. CASE pc'[r] = "reverted" /\ UNCHANGED <<job, before>>
    BY <2>1, GoesOn DEF Service!RestoreGlobalFails, Rewriting
  <2>2. CASE pc'[r] = "error"
    BY <2>2, GivesUp DEF Service!RestoreGlobalFails
  <2>. QED BY <2>1, <2>2 DEF Service!RestoreGlobalFails, Service!Answer, Inv, TypeOK,
              Service!TypeOK
<1>3. /\ Running(r)' => Running(r) /\ ask'[r] = ask[r]
      /\ pc[r] \in Rewriting => pc'[r] \in Rewriting /\ job'[r].domain = job[r].domain
  BY DEF Service!RestoreGlobalFails, Running, Rewriting
<1>. QED BY <1>1, <1>2, <1>3, CommitKept

\* A site whose vhost cannot be put back is lost.
LEMMA RestoreVhostFailsCommit ==
    ASSUME Inv, CommitInv, NEW r \in Request, Service!RestoreVhostFails(r),
           UNCHANGED <<Database, step, Locals, now>>, lost' = lost \cup torn'
    PROVE  CommitInv'
<1>1. /\ pc[r] = "failed" /\ pc' = [pc EXCEPT ![r] = "restored"]
      /\ UNCHANGED <<vhost, job, before, committed, step, ask, change, original>>
      /\ lost \subseteq lost' /\ job[r].domain \in lost'
  BY DEF Service!RestoreVhostFails
<1>2. /\ pc'[r] = "restored"
      /\ \A q \in Request \ {r} : UNCHANGED Mine(q)
  BY <1>1 DEF Mine, Inv, TypeOK, Service!TypeOK
<1>3. Tracked(r)'
  BY <1>1, <1>2, GoesOn DEF Rewriting
<1>4. \A q \in Request : Tracked(q)'
  BY <1>1, <1>2, <1>3, TrackedOthers
<1>5. Apart'
  BY <1>1, ApartKept DEF Running
<1>6. ASSUME NEW d \in Domain \ lost' PROVE Settled(d)'
  <2>1. Settled(d) /\ job[r].domain # d
    BY <1>1, <1>6 DEF CommitInv
  <2>2. \A c \in Request : pc[c] \in Rewriting => pc'[c] \in Rewriting \/ job[c].domain # d
    BY <1>1, <2>1 DEF Inv, TypeOK, Service!TypeOK
  <2>. QED BY <1>1, <2>1, <2>2 DEF Settled
<1>. QED BY <1>4, <1>5, <1>6 DEF CommitInv

LEMMA CrashCommit ==
    ASSUME Inv, CommitInv, Service!Crash, UNCHANGED <<Database, step, Locals, now>>,
           lost' = lost \cup torn'
    PROVE  CommitInv'
<1>1. /\ \A q \in Request : pc'[q] = IF pc[q] \in Answered THEN pc[q] ELSE "error"
      /\ UNCHANGED <<vhost, committed, step, ask, change, original>>
      /\ \A c \in Request : pc[c] \in Rewriting => job[c].domain \in lost'
  BY DEF Service!Crash, Service!Rewriting, Rewriting
<1>2. ASSUME NEW q \in Request PROVE Tracked(q)'
  <2>1. PatchedVhost(q)' = PatchedVhost(q) /\ Tracked(q) /\ pc'[q] \in Answered
        /\ (pc'[q] = "ok" <=> pc[q] = "ok")
    BY <1>1 DEF PatchedVhost, CommitInv
  <2>2. Waited(q)' /\ Sent(q)' /\ Replacing(q)'
    BY <2>1 DEF Waited, Sent, Replacing, Rewriting
  <2>3. Based(q)'
    BY <1>1, <2>1 DEF Tracked, Based
  <2>. QED BY <2>2, <2>3 DEF Tracked
<1>3. Apart'
  BY <1>1, ApartKept DEF Running
<1>4. ASSUME NEW d \in Domain \ lost' PROVE Settled(d)'
  BY <1>1 DEF CommitInv, Settled
<1>. QED BY <1>2, <1>3, <1>4 DEF CommitInv

LEMMA HelperCrashCommit == ASSUME Inv, CommitInv, HelperCrash PROVE CommitInv'
<1>1. /\ \A q \in Request : step'[q] = "idle" /\ ask'[q] = None
      /\ UNCHANGED <<vhost, committed, pc, job, before>>
      /\ lost \subseteq lost'
      /\ \A q \in Request : step[q] \in Asked => ask[q].domain \in lost'
  BY DEF HelperCrash, Asked
<1>2. ASSUME NEW q \in Request PROVE Tracked(q)'
  <2>1. Tracked(q)
    BY DEF CommitInv
  <2>2. Waited(q)'
    BY <1>1, <2>1 DEF Tracked, Waited
  <2>4. Sent(q)' /\ Based(q)'
    BY <1>1 DEF Sent, Based, Asked
  <2>3. Replacing(q)'
    BY <1>1, <2>1 DEF Tracked, Replacing
  <2>. QED BY <2>2, <2>3, <2>4 DEF Tracked
<1>3. Apart'
  BY <1>1 DEF Apart, Running
<1>4. ASSUME NEW d \in Domain \ lost' PROVE Settled(d)'
  BY <1>1 DEF CommitInv, Settled
<1>. QED BY <1>2, <1>3, <1>4 DEF CommitInv

LEMMA TickCommit ==
    ASSUME CommitInv, Tick \/ UNCHANGED vars PROVE CommitInv'
<1>1. UNCHANGED <<vhost, committed, step, ask, change, original, pc, job, before, lost>>
  BY DEF Tick, vars
<1>2. ASSUME NEW q \in Request PROVE Tracked(q)'
  BY <1>1 DEF CommitInv, Tracked, Waited, Sent, Replacing, Based, PatchedVhost
<1>3. Apart' /\ \A d \in Domain \ lost' : Settled(d)'
  BY <1>1 DEF CommitInv, Apart, Running, Settled
<1>. QED BY <1>2, <1>3 DEF CommitInv

\* Every step keeps CommitInv.
LEMMA CommitStep == Conflictless /\ Inv /\ CommitInv /\ [Next]_vars => CommitInv'
<1> SUFFICES ASSUME Conflictless, Inv, CommitInv, [Next]_vars PROVE CommitInv'
  OBVIOUS
<1>1. ASSUME NEW r \in Request, Get(r) PROVE CommitInv'
  BY <1>1, GetCommit
<1>2. ASSUME NEW r \in Request, Handle(r) PROVE CommitInv'
  BY <1>2, VerifyCommit, ConflictCommit, StorePortCommit, ReadOriginalCommit, UpdateCommit,
     BusyCommit, SendCommit, CommitCommit, FinishCommit, RestorePortCommit, UnheardCommit
     DEF Handle
<1>3. ASSUME NEW r \in Request, Serve(r) PROVE CommitInv'
  <2>1. UNCHANGED <<Database, step, Locals, now, lost>> /\ lost \subseteq lost'
    BY <1>3 DEF Serve
  <2>. QED BY <1>3, <2>1, ReadVhostCommit, ReadGlobalCommit, TruncateGlobalCommit,
              PatchGlobalCommit, WriteVhostCommit, TestCommit, ReloadCommit,
              RestoreVhostCommit, RestoreGlobalCommit, ReloadRestoredCommit
              DEF Serve, Service!Serve
<1>4. ASSUME NEW r \in Request, ReadFails(r) \/ CommitFails(r) PROVE CommitInv'
  BY <1>4, ReadFailsCommit, CommitFailsCommit
<1>5. ASSUME ServiceFails PROVE CommitInv'
  <2>1. /\ UNCHANGED <<Database, step, Locals, now>> /\ lost' = lost \cup torn'
        /\ lost \subseteq lost'
    BY <1>5 DEF ServiceFails
  <2>2. ASSUME NEW r \in Request, Service!Failure(r) PROVE CommitInv'
    BY <2>1, <2>2, PatchGlobalFailsCommit, WriteVhostFailsCommit, CommandFailsCommit,
       RestoreVhostFailsCommit, RestoreGlobalUnopenedCommit, RestoreGlobalFailsCommit,
       ReloadRestoredFailsCommit DEF Service!Failure
  <2>. QED BY <1>5, <2>1, <2>2, CrashCommit DEF ServiceFails
<1>. QED BY <1>1, <1>2, <1>3, <1>4, <1>5, HelperCrashCommit, TickCommit DEF Next

LEMMA CommitHolds == Conflictless => (Spec => [](Inv /\ CommitInv))
<1>1. ASSUME Conflictless PROVE Inv /\ CommitInv /\ [Next]_vars => Inv' /\ CommitInv'
  BY <1>1, StepInv, CommitStep
<1>2. ASSUME Conflictless PROVE Spec => [](Inv /\ CommitInv)
  <2>1. Inv /\ CommitInv /\ [Next]_vars => Inv' /\ CommitInv'
    BY <1>1, <1>2
  <2>. QED BY <2>1, InitInv, InitCommit, PTL DEF Spec
<1>. QED BY <1>2

\* A successful update changes the one setting it names, whatever fails, where
\* requests that run at once change different sites.  Without that hypothesis
\* the lost_update run shows a counterexample.
THEOREM KeepsOtherSettingsHolds == Conflictless => (Spec => KeepsOtherSettings)
<1>1. ASSUME Inv, CommitInv, NEW r \in Request, pc[r] = "tested", step[r] = "committing",
             ask[r].domain \notin lost, NEW f \in Operation \ {ask[r].op}
      PROVE  job[r].content[f] = committed[ask[r].domain][f]
  <2>1. job[r].content = PatchedVhost(r) /\ committed[ask[r].domain] = original[r]
    BY <1>1 DEF CommitInv, Tracked, Sent, Based, Inv, Working
  <2>2. PatchedVhost(r)[f] = original[r][f]
    <3>1. original[r] \in Vhost
      BY <1>1 DEF Inv, Working, TypeOK
    <3>. QED BY <3>1 DEF PatchedVhost, Vhost, Operation
  <2>. QED BY <2>1, <2>2
<1>2. Inv /\ CommitInv => (\A r \in Request :
        (pc[r] = "tested" /\ pc'[r] = "ok" /\ step[r] = "committing"
            /\ ask[r].domain \notin lost) =>
        \A f \in Operation \ {ask[r].op} :
            job[r].content[f] = committed[ask[r].domain][f])
  BY <1>1
<1>3. ASSUME Conflictless PROVE Spec => KeepsOtherSettings
  <2>1. Spec => [](Inv /\ CommitInv)
    BY <1>3, CommitHolds
  <2>. QED BY <1>2, <2>1, PTL DEF KeepsOtherSettings
<1>. QED BY <1>3

\* The request that begins meets none that is running at its site.
LEMMA VerifiedApart ==
    ASSUME Conflictless, Inv, NEW r \in Request, Verify(r), NEW q \in Request, q # r, Running(q)
    PROVE  ask[q].domain # ask[r].domain
<1>1. CASE MaxRunning <= 1
  <2> DEFINE Busies == {p \in Request : Running(p)}
  <2>1. IsFiniteSet(Busies) /\ q \in Busies /\ Cardinality(Busies) < MaxRunning
    BY FS_Subset DEF Verify
  <2>2. Cardinality(Busies) \in Nat /\ Cardinality(Busies) # 0
    BY <2>1, FS_CardinalityType, FS_EmptySet
  <2>. QED BY <1>1, <2>1, <2>2
<1>2. CASE ~(MaxRunning <= 1)
  <2>1. ask[q] \in Asks[q] /\ ask[r] \in Asks[r]
    BY DEF Inv, Working, Running, Verify
  <2>. QED BY <1>2, <2>1 DEF Conflictless
<1>. QED BY <1>1, <1>2

-----------------------------------------------------------------------------
\* The connections that have changed nginx.conf and may still put it back.
Editing(c) ==
    /\ pc[c] \in {"truncated", "patched", "written", "tested", "failed", "restored", "emptied",
                  "abandoned", "dropped"}
    /\ job[c].global

\* nginx.conf has FileCachePath, or gets it back.
Cached ==
    \/ \E c \in Request : Editing(c) /\ globalBefore[c] = "cached"
    \/ nginxConf # "plain" /\ \A c \in Request : ~Editing(c)

\* What nginx.conf holds while a connection edits it.
Edited(c) ==
    /\ pc[c] = "checked" => nginxConf = globalBefore[c]
    /\ pc[c] \in {"truncated", "emptied", "dropped"} => nginxConf = "empty"
    /\ Editing(c) /\ pc[c] \notin {"truncated", "emptied", "dropped"} => nginxConf = "cached"

\* Who holds a vhost with PageSpeed can put it in place,
Needs(r) ==
    /\ step[r] \in {"patched", "committing", "undoing"} /\ original[r].pagespeed => Cached
    /\ pc[r] \notin Answered \cup {"received"} /\ before[r].pagespeed => Cached

\* and a site that has one is served with FileCachePath or is being changed.
Backed(d) == vhost[d].pagespeed =>
    \/ Cached
    \/ \E c \in Request : Editing(c) /\ pc[c] \in Rewriting /\ job[c].domain = d

\* Together: no vhost that needs FileCachePath goes without.
Provided ==
    /\ \A r \in Request : /\ pc[r] \notin Answered => step[r] \in Asked
                          /\ Edited(r) /\ Needs(r)
    /\ \A d \in Domain : Backed(d)
    /\ nginxConf \in {"empty", "mixed"} =>
         "nginx.conf" \in skipped \/ \E c \in Request : Editing(c)

\* Once a helper has died half-way a second update may find nginx.conf changed by a
\* first one that is still in the service, and a vhost that was not put back may
\* need a FileCachePath that another update takes back.
ConfInv == lost = {} => Provided

\* An undoing has had the one failure, and nothing is left half-written.
Spotless == /\ (\E r \in Request : step[r] = "undoing") => faults >= 1
            /\ MaxFaults <= 1 /\ (faults = 0 \/ \E r \in Request : step[r] = "undoing")
                 => lost = {} /\ "nginx.conf" \notin skipped

\* Who works for a request has been asked by it, so no other request names its site,
LEMMA OnlyOwn ==
    ASSUME Inv, CommitInv, Provided, NEW c \in Request, pc[c] \notin Answered
    PROVE  /\ Running(c) /\ step[c] \in Asked /\ job[c].domain = ask[c].domain
           /\ \A r \in Request : r # c /\ Running(r) => ask[r].domain # job[c].domain
  BY DEF CommitInv, Apart, Tracked, Sent, Provided, Asked, Running

\* and only one changes nginx.conf, who holds the write lock.
LEMMA OneLock ==
    ASSUME Inv, CommitInv, Provided, NEW c \in Request, pc[c] \notin Answered, job[c].global
    PROVE  writer = c /\ step[c] = "committing" /\ ask[c].op = "pagespeed"
<1>1. step[c] \in Asked /\ Sent(c)
  BY DEF Provided, CommitInv, Tracked
<1>. QED BY <1>1 DEF Sent, Asked, Inv, Working, Stored

\* so nobody else edits nginx.conf.
LEMMA OneEdits ==
    ASSUME Inv, CommitInv, Provided, NEW c \in Request, pc[c] \notin Answered, job[c].global
    PROVE  \A q \in Request : Editing(q) => q = c
  BY OneLock DEF Editing

\* A vhost with PageSpeed that a request reads has its FileCachePath.
LEMMA ReadIsBacked ==
    ASSUME Inv, CommitInv, Provided, NEW d \in Domain, vhost[d].pagespeed,
           \A c \in Request : pc[c] \in Rewriting => job[c].domain # d
    PROVE  Cached
  BY DEF Provided, Backed

\* A step of the helper for r.
LEMMA HelperKept ==
    ASSUME Inv, Provided, NEW r \in Request,
           UNCHANGED <<vhost, nginxConf, skipped, globalBefore, before>>,
           \A q \in Request \ {r} : UNCHANGED <<step[q], pc[q], job[q], original[q]>>,
           pc[r] \in Answered, pc'[r] \in Answered \cup {"received"},
           pc'[r] \notin Answered => step'[r] \in Asked,
           step'[r] \in {"patched", "committing", "undoing"} /\ original'[r].pagespeed => Cached
    PROVE  Provided'
<1>1. ~Editing(r) /\ ~Editing(r)'
  BY DEF Editing
<1>2. \A q \in Request : (Editing(q)' <=> Editing(q))
  BY <1>1 DEF Editing
<1>3. Cached' <=> Cached
  BY <1>2 DEF Cached
<1>4. ASSUME NEW q \in Request
      PROVE  (pc'[q] \notin Answered => step'[q] \in Asked) /\ Edited(q)' /\ Needs(q)'
  <2>1. CASE q = r
    BY <1>1, <1>3, <2>1 DEF Edited, Needs
  <2>2. CASE q # r
    BY <1>2, <1>3, <2>2 DEF Provided, Edited, Needs
  <2>. QED BY <2>1, <2>2
<1>5. ASSUME NEW d \in Domain PROVE Backed(d)'
  BY <1>1, <1>2, <1>3 DEF Provided, Backed
<1>. QED BY <1>2, <1>4, <1>5 DEF Provided

\* What no step of the service for r changes.
LEMMA OthersNeed ==
    ASSUME Inv, Provided, NEW r \in Request, UNCHANGED <<step, Locals>>,
           \A q \in Request \ {r} : UNCHANGED <<pc[q], job[q], before[q], globalBefore[q]>>,
           Cached => Cached',
           pc'[r] \notin Answered \cup {"received"} /\ before'[r].pagespeed => Cached'
    PROVE  \A q \in Request : Needs(q)'
<1>1. ASSUME NEW q \in Request PROVE Needs(q)'
  <2>1. Needs(q)
    BY DEF Provided
  <2>2. CASE q = r
    BY <2>1, <2>2 DEF Needs
  <2>3. CASE q # r
    BY <2>1, <2>3 DEF Needs
  <2>. QED BY <2>2, <2>3
<1>. QED BY <1>1

\* A step of the service for r that changes no file.
LEMMA ServiceKept ==
    ASSUME Inv, CommitInv, Provided, NEW r \in Request, UNCHANGED <<step, Locals>>,
           pc[r] \notin Answered, UNCHANGED <<vhost, nginxConf>>, skipped \subseteq skipped',
           \A q \in Request \ {r} : UNCHANGED <<pc[q], job[q], before[q], globalBefore[q]>>,
           Editing(r) <=> Editing(r)',
           Editing(r)' => /\ globalBefore'[r] = globalBefore[r]
                          /\ pc[r] \in Rewriting =>
                               pc'[r] \in Rewriting /\ job'[r].domain = job[r].domain,
           Edited(r)',
           pc'[r] \notin Answered \cup {"received"} /\ before'[r].pagespeed => Cached
    PROVE  Provided'
<1>1. \A q \in Request : (Editing(q)' <=> Editing(q))
  BY DEF Editing
<1>2. Cached' <=> Cached
  BY <1>1 DEF Cached
<1>3. \A q \in Request : Needs(q)'
  BY <1>2, OthersNeed
<1>4. ASSUME NEW q \in Request
      PROVE  (pc'[q] \notin Answered => step'[q] \in Asked) /\ Edited(q)'
  <2>1. CASE q = r
    BY <2>1 DEF Provided
  <2>2. CASE q # r
    BY <1>1, <2>2 DEF Provided, Edited
  <2>. QED BY <2>1, <2>2
<1>5. ASSUME NEW d \in Domain PROVE Backed(d)'
  BY <1>1, <1>2 DEF Provided, Backed
<1>6. nginxConf' \in {"empty", "mixed"} =>
        "nginx.conf" \in skipped' \/ \E c \in Request : Editing(c)'
  BY <1>1 DEF Provided
<1>. QED BY <1>3, <1>4, <1>5, <1>6 DEF Provided

\* A step of the service for r that changes nginx.conf: nobody else edits it.
LEMMA GlobalKept ==
    ASSUME Inv, CommitInv, Provided, NEW r \in Request, UNCHANGED <<step, Locals, vhost>>,
           pc[r] \notin Answered, job[r].global, skipped \subseteq skipped',
           \A q \in Request \ {r} : UNCHANGED <<pc[q], job[q], before[q], globalBefore[q]>>,
           pc[r] \notin Rewriting, pc'[r] \notin Rewriting,
           Cached => Cached', Edited(r)', before'[r] = before[r] \/ pc'[r] \in Answered,
           pc[r] # "received",
           nginxConf' \in {"empty", "mixed"} => "nginx.conf" \in skipped' \/ Editing(r)'
    PROVE  Provided'
<1>1. \A q \in Request \ {r} : ~Editing(q)' /\ (pc[q] \in Answered \/ ~job[q].global)
  BY OneLock, OneEdits DEF Editing
<1>2. \A q \in Request : Needs(q)'
  BY OthersNeed DEF Provided, Needs
<1>3. ASSUME NEW q \in Request
      PROVE  (pc'[q] \notin Answered => step'[q] \in Asked) /\ Edited(q)'
  <2>1. CASE q = r
    BY <2>1 DEF Provided
  <2>2. CASE q # r
    BY <1>1, <2>2 DEF Provided, Edited, Inv, Serving, Editing
  <2>. QED BY <2>1, <2>2
<1>4. ASSUME NEW d \in Domain PROVE Backed(d)'
  BY <1>1, OneEdits DEF Provided, Backed
<1>. QED BY <1>2, <1>3, <1>4 DEF Provided

\* Each action keeps ConfInv: the helper's,
LEMMA GetConf ==
    ASSUME Inv, CommitInv, Provided, NEW r \in Request, Get(r) PROVE Provided'
<1>1. /\ UNCHANGED <<vhost, nginxConf, skipped, globalBefore, before>>
      /\ \A q \in Request \ {r} : UNCHANGED <<step[q], pc[q], job[q], original[q]>>
      /\ pc[r] \in Answered /\ pc'[r] \in Answered \cup {"received"}
      /\ pc'[r] \notin Answered => step'[r] \in Asked
  BY DEF Get, Asked, Inv, TypeOK, Service!TypeOK, Working
<1>2. step'[r] \in {"patched", "committing", "undoing"} /\ original'[r].pagespeed => Cached
  BY DEF Get, Provided, Needs, Inv, TypeOK, Service!TypeOK, Working
<1>. QED BY <1>1, <1>2, HelperKept

LEMMA ConflictConf ==
    ASSUME Inv, CommitInv, Provided, NEW r \in Request, Conflict(r) PROVE Provided'
<1>1. /\ UNCHANGED <<vhost, nginxConf, skipped, globalBefore, before>>
      /\ \A q \in Request \ {r} : UNCHANGED <<step[q], pc[q], job[q], original[q]>>
      /\ pc[r] \in Answered /\ pc'[r] \in Answered \cup {"received"}
      /\ pc'[r] \notin Answered => step'[r] \in Asked
  BY DEF Conflict, Asked, Inv, TypeOK, Service!TypeOK, Working, Return
<1>2. step'[r] \in {"patched", "committing", "undoing"} /\ original'[r].pagespeed => Cached
  BY DEF Conflict, Provided, Needs, Inv, TypeOK, Service!TypeOK, Working, Return
<1>. QED BY <1>1, <1>2, HelperKept

LEMMA StorePortConf ==
    ASSUME Inv, CommitInv, Provided, NEW r \in Request, StorePort(r) PROVE Provided'
<1>1. /\ UNCHANGED <<vhost, nginxConf, skipped, globalBefore, before>>
      /\ \A q \in Request \ {r} : UNCHANGED <<step[q], pc[q], job[q], original[q]>>
      /\ pc[r] \in Answered /\ pc'[r] \in Answered \cup {"received"}
      /\ pc'[r] \notin Answered => step'[r] \in Asked
  BY DEF StorePort, Asked, Inv, TypeOK, Service!TypeOK, Working
<1>2. step'[r] \in {"patched", "committing", "undoing"} /\ original'[r].pagespeed => Cached
  BY DEF StorePort, Provided, Needs, Inv, TypeOK, Service!TypeOK, Working
<1>. QED BY <1>1, <1>2, HelperKept

LEMMA BusyConf ==
    ASSUME Inv, CommitInv, Provided, NEW r \in Request, Busy(r) PROVE Provided'
<1>1. /\ UNCHANGED <<vhost, nginxConf, skipped, globalBefore, before>>
      /\ \A q \in Request \ {r} : UNCHANGED <<step[q], pc[q], job[q], original[q]>>
      /\ pc[r] \in Answered /\ pc'[r] \in Answered \cup {"received"}
      /\ pc'[r] \notin Answered => step'[r] \in Asked
  BY DEF Busy, Asked, Inv, TypeOK, Service!TypeOK, Working, Return
<1>2. step'[r] \in {"patched", "committing", "undoing"} /\ original'[r].pagespeed => Cached
  BY DEF Busy, Provided, Needs, Inv, TypeOK, Service!TypeOK, Working, Return
<1>. QED BY <1>1, <1>2, HelperKept

LEMMA CommitConf ==
    ASSUME Inv, CommitInv, Provided, NEW r \in Request, Commit(r) PROVE Provided'
<1>1. /\ UNCHANGED <<vhost, nginxConf, skipped, globalBefore, before>>
      /\ \A q \in Request \ {r} : UNCHANGED <<step[q], pc[q], job[q], original[q]>>
      /\ pc[r] \in Answered /\ pc'[r] \in Answered \cup {"received"}
      /\ pc'[r] \notin Answered => step'[r] \in Asked
  BY DEF Commit, Asked, Inv, TypeOK, Service!TypeOK, Working, HangUp, Return
<1>2. step'[r] \in {"patched", "committing", "undoing"} /\ original'[r].pagespeed => Cached
  BY DEF Commit, Provided, Needs, Inv, TypeOK, Service!TypeOK, Working, HangUp, Return
<1>. QED BY <1>1, <1>2, HelperKept

LEMMA FinishConf ==
    ASSUME Inv, CommitInv, Provided, NEW r \in Request, Finish(r) PROVE Provided'
<1>1. /\ UNCHANGED <<vhost, nginxConf, skipped, globalBefore, before>>
      /\ \A q \in Request \ {r} : UNCHANGED <<step[q], pc[q], job[q], original[q]>>
      /\ pc[r] \in Answered /\ pc'[r] \in Answered \cup {"received"}
      /\ pc'[r] \notin Answered => step'[r] \in Asked
  BY DEF Finish, Asked, Inv, TypeOK, Service!TypeOK, Working, HangUp, Return
<1>2. step'[r] \in {"patched", "committing", "undoing"} /\ original'[r].pagespeed => Cached
  BY DEF Finish, Provided, Needs, Inv, TypeOK, Service!TypeOK, Working, HangUp, Return
<1>. QED BY <1>1, <1>2, HelperKept

LEMMA RestorePortConf ==
    ASSUME Inv, CommitInv, Provided, NEW r \in Request, RestorePort(r) PROVE Provided'
<1>1. /\ UNCHANGED <<vhost, nginxConf, skipped, globalBefore, before>>
      /\ \A q \in Request \ {r} : UNCHANGED <<step[q], pc[q], job[q], original[q]>>
      /\ pc[r] \in Answered /\ pc'[r] \in Answered \cup {"received"}
      /\ pc'[r] \notin Answered => step'[r] \in Asked
  BY DEF RestorePort, Asked, Inv, TypeOK, Service!TypeOK, Working, HangUp, Return
<1>2. step'[r] \in {"patched", "committing", "undoing"} /\ original'[r].pagespeed => Cached
  BY DEF RestorePort, Provided, Needs, Inv, TypeOK, Service!TypeOK, Working, HangUp, Return
<1>. QED BY <1>1, <1>2, HelperKept

LEMMA UnheardConf ==
    ASSUME Inv, CommitInv, Provided, NEW r \in Request, Unheard(r) PROVE Provided'
<1>1. /\ UNCHANGED <<vhost, nginxConf, skipped, globalBefore, before>>
      /\ \A q \in Request \ {r} : UNCHANGED <<step[q], pc[q], job[q], original[q]>>
      /\ pc[r] \in Answered /\ pc'[r] \in Answered \cup {"received"}
      /\ pc'[r] \notin Answered => step'[r] \in Asked
  BY DEF Unheard, Asked, Inv, TypeOK, Service!TypeOK, Working, HangUp
<1>2. step'[r] \in {"patched", "committing", "undoing"} /\ original'[r].pagespeed => Cached
  BY DEF Unheard, Provided, Needs, Inv, TypeOK, Service!TypeOK, Working, HangUp
<1>. QED BY <1>1, <1>2, HelperKept

LEMMA ReadFailsConf ==
    ASSUME Inv, CommitInv, Provided, NEW r \in Request, ReadFails(r) PROVE Provided'
<1>1. /\ UNCHANGED <<vhost, nginxConf, skipped, globalBefore, before>>
      /\ \A q \in Request \ {r} : UNCHANGED <<step[q], pc[q], job[q], original[q]>>
      /\ pc[r] \in Answered /\ pc'[r] \in Answered \cup {"received"}
      /\ pc'[r] \notin Answered => step'[r] \in Asked
  BY DEF ReadFails, Asked, Inv, TypeOK, Service!TypeOK, Working, ReadsVhost, Fail, MayFail, Return
<1>2. step'[r] \in {"patched", "committing", "undoing"} /\ original'[r].pagespeed => Cached
  BY DEF ReadFails, Provided, Needs, Inv, TypeOK, Service!TypeOK, Working, ReadsVhost, Fail, MayFail, Return
<1>. QED BY <1>1, <1>2, HelperKept

LEMMA ReadOriginalConf ==
    ASSUME Inv, CommitInv, Provided, NEW r \in Request, ReadOriginal(r) PROVE Provided'
<1>1. /\ UNCHANGED <<vhost, nginxConf, skipped, globalBefore, before>>
      /\ \A q \in Request \ {r} : UNCHANGED <<step[q], pc[q], job[q], original[q]>>
      /\ pc[r] \in Answered /\ pc'[r] \in Answered \cup {"received"}
      /\ pc'[r] \notin Answered => step'[r] \in Asked
  BY DEF ReadOriginal, Asked, Inv, TypeOK, Service!TypeOK, Working, ReadsVhost
<1>2. step'[r] \in {"patched", "committing", "undoing"} /\ original'[r].pagespeed => Cached
  <2>1. Running(r) /\ pc[r] = "idle" /\ original'[r] = vhost[ask[r].domain] /\ ask[r].domain \in Domain
    BY Question DEF ReadOriginal, ReadsVhost, Running, Inv, TypeOK, Working
  <2>2. \A c \in Request : pc[c] \in Rewriting => job[c].domain # ask[r].domain
    BY <2>1, OnlyOwn DEF Rewriting
  <2>. QED BY <2>1, <2>2, ReadIsBacked
<1>. QED BY <1>1, <1>2, HelperKept

LEMMA VerifyConf ==
    ASSUME Conflictless, Inv, CommitInv, Provided, NEW r \in Request, Verify(r) PROVE Provided'
<1>1. /\ UNCHANGED <<vhost, nginxConf, skipped, globalBefore, before>>
      /\ \A q \in Request \ {r} : UNCHANGED <<step[q], pc[q], job[q], original[q]>>
      /\ pc[r] \in Answered /\ pc'[r] \in Answered \cup {"received"}
      /\ pc'[r] \notin Answered => step'[r] \in Asked
  BY DEF Verify, Asked, Inv, TypeOK, Service!TypeOK, Working
<1>2. step'[r] \in {"patched", "committing", "undoing"} /\ original'[r].pagespeed => Cached
  <2>1. CASE step'[r] = "patched"
    <3>1. /\ step[r] = "informed" /\ pc[r] = "idle" /\ original'[r] = vhost[ask[r].domain]
          /\ ask[r].domain \in Domain
      BY <2>1, Question DEF Verify, Inv, TypeOK, Working
    <3>2. ASSUME NEW c \in Request, pc[c] \in Rewriting PROVE job[c].domain # ask[r].domain
      <4>1. Running(c) /\ job[c].domain = ask[c].domain /\ c # r
        BY <3>1, <3>2, OnlyOwn DEF Rewriting
      <4>. QED BY <4>1, VerifiedApart
    <3>. QED BY <3>1, <3>2, ReadIsBacked
  <2>2. CASE step'[r] # "patched"
    BY <2>2 DEF Verify, Inv, TypeOK
  <2>. QED BY <2>1, <2>2
<1>. QED BY <1>1, <1>2, HelperKept

LEMMA UpdateConf ==
    ASSUME Inv, CommitInv, Provided, NEW r \in Request, Update(r) PROVE Provided'
<1>1. /\ UNCHANGED <<vhost, nginxConf, skipped, globalBefore, before>>
      /\ \A q \in Request \ {r} : UNCHANGED <<step[q], pc[q], job[q], original[q]>>
      /\ pc[r] \in Answered /\ pc'[r] \in Answered \cup {"received"}
      /\ pc'[r] \notin Answered => step'[r] \in Asked
  <2>1. /\ step[r] = "patched" /\ step' = [step EXCEPT ![r] = "committing"]
        /\ Call(r, PatchedVhost(r), ask[r].op = "pagespeed")
        /\ UNCHANGED <<vhost, nginxConf, skipped, globalBefore, before, original>>
    BY DEF Update
  <2>. QED BY <2>1 DEF Call, Asked, Inv, TypeOK, Service!TypeOK, Working
<1>2. step'[r] \in {"patched", "committing", "undoing"} /\ original'[r].pagespeed => Cached
  BY DEF Update, Provided, Needs, Inv, TypeOK, Service!TypeOK, Working, Call
<1>. QED BY <1>1, <1>2, HelperKept

LEMMA SendConf ==
    ASSUME Inv, CommitInv, Provided, NEW r \in Request, Send(r) PROVE Provided'
<1>1. /\ UNCHANGED <<vhost, nginxConf, skipped, globalBefore, before>>
      /\ \A q \in Request \ {r} : UNCHANGED <<step[q], pc[q], job[q], original[q]>>
      /\ pc[r] \in Answered /\ pc'[r] \in Answered \cup {"received"}
      /\ pc'[r] \notin Answered => step'[r] \in Asked
  BY DEF Send, Asked, Inv, TypeOK, Service!TypeOK, Working, Call
<1>2. step'[r] \in {"patched", "committing", "undoing"} /\ original'[r].pagespeed => Cached
  BY DEF Send, Provided, Needs, Inv, TypeOK, Service!TypeOK, Working, Call
<1>. QED BY <1>1, <1>2, HelperKept

LEMMA CommitFailsConf ==
    ASSUME Inv, CommitInv, Provided, NEW r \in Request, CommitFails(r) PROVE Provided'
<1>1. /\ UNCHANGED <<vhost, nginxConf, skipped, globalBefore, before>>
      /\ \A q \in Request \ {r} : UNCHANGED <<step[q], pc[q], job[q], original[q]>>
      /\ pc[r] \in Answered /\ pc'[r] \in Answered \cup {"received"}
      /\ pc'[r] \notin Answered => step'[r] \in Asked
  BY DEF CommitFails, Asked, Inv, TypeOK, Service!TypeOK, Working, Call, Fail, MayFail
<1>2. step'[r] \in {"patched", "committing", "undoing"} /\ original'[r].pagespeed => Cached
  BY DEF CommitFails, Provided, Needs, Inv, TypeOK, Service!TypeOK, Working, Call, Fail, MayFail
<1>. QED BY <1>1, <1>2, HelperKept

\* and the service's.
LEMMA ReadVhostConf ==
    ASSUME Inv, CommitInv, Provided, NEW r \in Request, Service!ReadVhost(r),
           UNCHANGED <<step, Locals>>
    PROVE  Provided'
<1>1. /\ pc[r] \notin Answered /\ UNCHANGED <<vhost, nginxConf>> /\ skipped \subseteq skipped'
      /\ \A q \in Request \ {r} : UNCHANGED <<pc[q], job[q], before[q], globalBefore[q]>>
      /\ Editing(r) <=> Editing(r)'
      /\ Editing(r)' => globalBefore'[r] = globalBefore[r] /\ (pc[r] \in Rewriting => pc'[r] \in Rewriting /\ job'[r].domain = job[r].domain)
  BY DEF Service!ReadVhost, Editing, Rewriting, Inv, TypeOK, Service!TypeOK, Serving
<1>2. Edited(r)'
  BY DEF Service!ReadVhost, Provided, Edited, Editing, Inv, TypeOK, Service!TypeOK, Serving
<1>3. pc'[r] \notin Answered \cup {"received"} /\ before'[r].pagespeed => Cached
  <2>1. /\ pc[r] = "received" /\ before'[r] = vhost[job[r].domain] /\ job[r].domain \in Domain
    BY Job DEF Service!ReadVhost, Inv, TypeOK, Service!TypeOK
  <2>2. \A c \in Request : pc[c] \in Rewriting => job[c].domain # job[r].domain
    BY <2>1, OnlyOwn DEF Rewriting
  <2>. QED BY <2>1, <2>2, ReadIsBacked
<1>. QED BY <1>1, <1>2, <1>3, ServiceKept

LEMMA ReadGlobalConf ==
    ASSUME Inv, CommitInv, Provided, NEW r \in Request, Service!ReadGlobal(r),
           UNCHANGED <<step, Locals>>
    PROVE  Provided'
<1>1. /\ pc[r] \notin Answered /\ UNCHANGED <<vhost, nginxConf>> /\ skipped \subseteq skipped'
      /\ \A q \in Request \ {r} : UNCHANGED <<pc[q], job[q], before[q], globalBefore[q]>>
      /\ Editing(r) <=> Editing(r)'
      /\ Editing(r)' => globalBefore'[r] = globalBefore[r] /\ (pc[r] \in Rewriting => pc'[r] \in Rewriting /\ job'[r].domain = job[r].domain)
  BY DEF Service!ReadGlobal, Editing, Rewriting, Inv, TypeOK, Service!TypeOK, Serving, Service!Answer
<1>2. Edited(r)'
  BY DEF Service!ReadGlobal, Provided, Edited, Editing, Inv, TypeOK, Service!TypeOK, Serving, Service!Answer
<1>3. pc'[r] \notin Answered \cup {"received"} /\ before'[r].pagespeed => Cached
  BY DEF Service!ReadGlobal, Provided, Needs, Inv, TypeOK, Service!TypeOK, Service!Answer
<1>. QED BY <1>1, <1>2, <1>3, ServiceKept

LEMMA TruncateGlobalConf ==
    ASSUME Inv, CommitInv, Provided, NEW r \in Request, Service!TruncateGlobal(r),
           UNCHANGED <<step, Locals>>
    PROVE  Provided'
<1>1. /\ pc[r] \in {"checked", "restored", "abandoned"} /\ job[r].global
      /\ pc'[r] \in {"truncated", "emptied", "dropped"} /\ Editing(r)'
      /\ \A q \in Request \ {r} : UNCHANGED <<pc[q], job[q], before[q], globalBefore[q]>>
      /\ UNCHANGED <<vhost, skipped, before, globalBefore>> /\ nginxConf' = "empty"
  BY DEF Service!TruncateGlobal, Editing, Inv, TypeOK, Service!TypeOK, Serving
<1>2. \A q \in Request : Editing(q) => q = r
  BY <1>1, OneEdits
<1>3. pc[r] = "checked" => nginxConf = globalBefore[r] /\ globalBefore[r] \in {"plain", "cached"}
  BY <1>1, Job DEF Provided, Edited
<1>4. Cached => globalBefore[r] = "cached"
  BY <1>1, <1>2, <1>3 DEF Cached, Editing
<1>5. Cached => Cached'
  BY <1>1, <1>4 DEF Cached
<1>6. Edited(r)'
  BY <1>1 DEF Edited
<1>. QED BY <1>1, <1>5, <1>6, GlobalKept DEF Rewriting

LEMMA PatchGlobalConf ==
    ASSUME Inv, CommitInv, Provided, NEW r \in Request, Service!PatchGlobal(r),
           UNCHANGED <<step, Locals>>
    PROVE  Provided'
<1>1. /\ pc[r] = "truncated" /\ pc'[r] = "patched" /\ job[r].global /\ Editing(r) /\ Editing(r)'
      /\ \A q \in Request \ {r} : UNCHANGED <<pc[q], job[q], before[q], globalBefore[q]>>
      /\ UNCHANGED <<vhost, skipped, before, globalBefore>>
      /\ nginxConf' = Service!Overwrite(nginxConf, "cached")
  BY DEF Service!PatchGlobal, Editing, Inv, TypeOK, Service!TypeOK, Serving
<1>2. nginxConf' = "cached"
  BY <1>1 DEF Provided, Edited, Service!Overwrite
<1>3. \A q \in Request : Editing(q) => q = r
  BY <1>1, OneEdits
<1>4. Cached => Cached'
  BY <1>1, <1>3 DEF Cached
<1>5. Edited(r)'
  BY <1>1, <1>2 DEF Edited
<1>. QED BY <1>1, <1>2, <1>4, <1>5, GlobalKept DEF Rewriting

LEMMA WriteVhostConf ==
    ASSUME Inv, CommitInv, Provided, NEW r \in Request, Service!WriteVhost(r),
           UNCHANGED <<step, Locals>>
    PROVE  Provided'
<1>1. /\ pc[r] \in {"read", "patched"} /\ pc'[r] = "written" /\ job[r].domain \in Domain
      /\ job[r].global <=> pc[r] = "patched"
      /\ vhost' = [vhost EXCEPT ![job[r].domain] = job[r].content]
      /\ \A q \in Request \ {r} : UNCHANGED <<pc[q], job[q], before[q], globalBefore[q]>>
      /\ UNCHANGED <<nginxConf, skipped, job, before, globalBefore>>
  BY Job DEF Service!WriteVhost, Service!Ready, Inv, TypeOK, Service!TypeOK
<1>2. \A q \in Request : (Editing(q)' <=> Editing(q))
  BY <1>1 DEF Editing
<1>3. Cached' <=> Cached
  BY <1>1, <1>2 DEF Cached
<1>4. \A q \in Request : Needs(q)'
  BY <1>1, <1>3, OthersNeed DEF Provided, Needs
<1>5. ASSUME NEW q \in Request
      PROVE  (pc'[q] \notin Answered => step'[q] \in Asked) /\ Edited(q)'
  <2>1. CASE q = r
    BY <1>1, <2>1 DEF Provided, Edited, Editing
  <2>2. CASE q # r
    BY <1>1, <1>2, <2>2 DEF Provided, Edited
  <2>. QED BY <2>1, <2>2
<1>6. ASSUME job[r].content.pagespeed, ~job[r].global PROVE Cached
  <2>1. step[r] \in Asked /\ Sent(r) /\ Needs(r)
    BY <1>1 DEF Provided, CommitInv, Tracked
  <2>2. CASE step[r] = "committing"
    BY <1>1, <1>6, <2>1, <2>2, Patches DEF Sent, Needs
  <2>3. CASE step[r] = "undoing"
    BY <1>1, <1>6, <2>1, <2>3 DEF Sent, Needs
  <2>. QED BY <2>1, <2>2, <2>3 DEF Asked
<1>7. ASSUME NEW d \in Domain PROVE Backed(d)'
  <2>1. CASE d = job[r].domain
    <3>1. vhost'[d] = job[r].content
      BY <1>1, <2>1 DEF Inv, TypeOK, Service!TypeOK
    <3>2. job[r].global => Editing(r)' /\ pc'[r] \in Rewriting /\ job'[r].domain = d
      BY <1>1, <2>1 DEF Editing, Rewriting
    <3>. QED BY <1>3, <1>6, <3>1, <3>2 DEF Backed
  <2>2. CASE d # job[r].domain
    <3>1. vhost'[d] = vhost[d] /\ Backed(d)
      BY <1>1, <2>2 DEF Provided, Inv, TypeOK, Service!TypeOK
    <3>2. \A c \in Request : pc[c] \in Rewriting => pc'[c] \in Rewriting
      BY <1>1 DEF Rewriting
    <3>. QED BY <1>1, <1>2, <1>3, <3>1, <3>2 DEF Backed
  <2>. QED BY <2>1, <2>2
<1>. QED BY <1>1, <1>2, <1>4, <1>5, <1>7 DEF Provided

LEMMA TestConf ==
    ASSUME Inv, CommitInv, Provided, NEW r \in Request, Service!Test(r),
           UNCHANGED <<step, Locals>>
    PROVE  Provided'
<1>1. /\ pc[r] \notin Answered /\ UNCHANGED <<vhost, nginxConf>> /\ skipped \subseteq skipped'
      /\ \A q \in Request \ {r} : UNCHANGED <<pc[q], job[q], before[q], globalBefore[q]>>
      /\ Editing(r) <=> Editing(r)'
      /\ Editing(r)' => globalBefore'[r] = globalBefore[r] /\ (pc[r] \in Rewriting => pc'[r] \in Rewriting /\ job'[r].domain = job[r].domain)
  BY DEF Service!Test, Editing, Rewriting, Inv, TypeOK, Service!TypeOK, Serving
<1>2. Edited(r)'
  BY DEF Service!Test, Provided, Edited, Editing, Inv, TypeOK, Service!TypeOK, Serving
<1>3. pc'[r] \notin Answered \cup {"received"} /\ before'[r].pagespeed => Cached
  BY DEF Service!Test, Provided, Needs, Inv, TypeOK, Service!TypeOK
<1>. QED BY <1>1, <1>2, <1>3, ServiceKept

LEMMA ReloadConf ==
    ASSUME Inv, CommitInv, Provided, NEW r \in Request, Service!Reload(r),
           UNCHANGED <<step, Locals>>
    PROVE  Provided'
<1>1. CASE Service!Accepts(vhost, nginxConf) /\ Service!Answer(r, "ok")
  <2>1. /\ pc[r] = "tested" /\ pc'[r] = "ok" /\ job[r] # None
        /\ \A q \in Request \ {r} : UNCHANGED <<pc[q], job[q], before[q], globalBefore[q]>>
        /\ UNCHANGED <<vhost, nginxConf>> /\ nginxConf \in {"plain", "cached"}
    BY <1>1 DEF Service!Reload, Service!Answer, Service!Accepts, Inv, TypeOK, Service!TypeOK, Serving
  <2>2. job[r].global => nginxConf = "cached" /\ \A q \in Request : ~Editing(q)'
    <3>1. job[r].global => nginxConf = "cached"
      BY <2>1 DEF Provided, Edited, Editing
    <3>2. job[r].global => \A q \in Request \ {r} : ~Editing(q)
      BY <2>1, OneEdits
    <3>. QED BY <2>1, <3>1, <3>2 DEF Editing
  <2>3. ~job[r].global => \A q \in Request : (Editing(q)' <=> Editing(q)) /\ ~Editing(r)
    BY <2>1 DEF Editing
  <2>4. Cached => Cached'
    BY <2>1, <2>2, <2>3 DEF Cached
  <2>5. \A q \in Request : Needs(q)'
    BY <2>1, <2>4, OthersNeed
  <2>6. ASSUME NEW q \in Request
        PROVE  (pc'[q] \notin Answered => step'[q] \in Asked) /\ Edited(q)'
    <3>1. CASE q = r
      BY <2>1, <3>1 DEF Edited, Editing
    <3>2. CASE q # r
      BY <2>1, <3>2 DEF Provided, Edited, Editing
    <3>. QED BY <3>1, <3>2
  <2>7. ASSUME NEW d \in Domain PROVE Backed(d)'
    <3>1. CASE job[r].global
      BY <2>1, <2>2, <3>1 DEF Backed, Cached
    <3>2. CASE ~job[r].global
      BY <2>1, <2>3, <2>4, <3>2 DEF Provided, Backed
    <3>. QED BY <3>1, <3>2
  <2>. QED BY <2>1, <2>5, <2>6, <2>7 DEF Provided
<1>2. CASE pc' = [pc EXCEPT ![r] = "failed"] /\ UNCHANGED <<job, before, globalBefore, skipped, vhost, nginxConf>>
           /\ pc[r] = "tested"
  <2>1. /\ pc'[r] = "failed" /\ \A q \in Request \ {r} : pc'[q] = pc[q]
    BY <1>2 DEF Inv, TypeOK, Service!TypeOK
  <2>2. Edited(r)'
    BY <1>2, <2>1 DEF Provided, Edited, Editing
  <2>3. before'[r].pagespeed => Cached
    BY <1>2 DEF Provided, Needs
  <2>. QED BY <1>2, <2>1, <2>2, <2>3, ServiceKept DEF Editing, Rewriting
<1>. QED BY <1>1, <1>2 DEF Service!Reload

LEMMA RestoreVhostConf ==
    ASSUME Inv, CommitInv, Provided, NEW r \in Request, Service!RestoreVhost(r),
           UNCHANGED <<step, Locals>>
    PROVE  Provided'
<1>1. /\ pc[r] = "failed" /\ pc'[r] = "restored" /\ job[r].domain \in Domain
      /\ vhost' = [vhost EXCEPT ![job[r].domain] = before[r]]
      /\ \A q \in Request \ {r} : UNCHANGED <<pc[q], job[q], before[q], globalBefore[q]>>
      /\ UNCHANGED <<nginxConf, skipped, job, before, globalBefore>>
  BY Job DEF Service!RestoreVhost, Inv, TypeOK, Service!TypeOK
<1>2. \A q \in Request : (Editing(q)' <=> Editing(q))
  BY <1>1 DEF Editing
<1>3. Cached' <=> Cached
  BY <1>1, <1>2 DEF Cached
<1>4. \A q \in Request : Needs(q)'
  BY <1>1, <1>3, OthersNeed DEF Provided, Needs
<1>5. ASSUME NEW q \in Request
      PROVE  (pc'[q] \notin Answered => step'[q] \in Asked) /\ Edited(q)'
  <2>1. CASE q = r
    BY <1>1, <2>1 DEF Provided, Edited, Editing
  <2>2. CASE q # r
    BY <1>1, <1>2, <2>2 DEF Provided, Edited
  <2>. QED BY <2>1, <2>2
<1>6. ASSUME NEW d \in Domain PROVE Backed(d)'
  <2>1. CASE d = job[r].domain
    <3>1. vhost'[d] = before[r] /\ Needs(r)
      BY <1>1, <2>1 DEF Provided, Inv, TypeOK, Service!TypeOK
    <3>. QED BY <1>1, <1>3, <3>1 DEF Backed, Needs
  <2>2. CASE d # job[r].domain
    <3>1. vhost'[d] = vhost[d] /\ Backed(d)
      BY <1>1, <2>2 DEF Provided, Inv, TypeOK, Service!TypeOK
    <3>2. \A c \in Request : pc[c] \in Rewriting /\ job[c].domain = d => pc'[c] \in Rewriting
      BY <1>1, <2>2 DEF Rewriting
    <3>. QED BY <1>1, <1>2, <1>3, <3>1, <3>2 DEF Backed
  <2>. QED BY <2>1, <2>2
<1>. QED BY <1>1, <1>2, <1>4, <1>5, <1>6 DEF Provided

LEMMA RestoreGlobalConf ==
    ASSUME Inv, CommitInv, Provided, NEW r \in Request, Service!RestoreGlobal(r),
           UNCHANGED <<step, Locals>>
    PROVE  Provided'
<1>1. /\ pc[r] \in {"emptied", "dropped"} /\ pc'[r] \in {"reverted", "error"} /\ job[r].global
      /\ Editing(r) /\ ~Editing(r)'
      /\ \A q \in Request \ {r} : UNCHANGED <<pc[q], job[q], before[q], globalBefore[q]>>
      /\ UNCHANGED vhost /\ skipped \subseteq skipped'
      /\ pc'[r] = "reverted" => UNCHANGED <<job, before, globalBefore>>
      /\ nginxConf' = Service!Overwrite(nginxConf, globalBefore[r])
  BY DEF Service!RestoreGlobal, Service!Answer, Editing, Inv, TypeOK, Service!TypeOK, Serving
<1>2. nginxConf' = globalBefore[r] /\ globalBefore[r] \in {"plain", "cached"}
  BY <1>1, Job DEF Provided, Edited, Service!Overwrite
<1>3. \A q \in Request : (Editing(q) => q = r) /\ ~Editing(q)'
  BY <1>1, OneEdits DEF Editing
<1>4. Cached => Cached'
  BY <1>1, <1>2, <1>3 DEF Cached
<1>5. Edited(r)'
  BY <1>1, <1>2 DEF Edited
<1>. QED BY <1>1, <1>2, <1>4, <1>5, GlobalKept DEF Rewriting

LEMMA ReloadRestoredConf ==
    ASSUME Inv, CommitInv, Provided, NEW r \in Request, Service!ReloadRestored(r),
           UNCHANGED <<step, Locals>>
    PROVE  Provided'
<1>1. /\ pc[r] \notin Answered /\ UNCHANGED <<vhost, nginxConf>> /\ skipped \subseteq skipped'
      /\ \A q \in Request \ {r} : UNCHANGED <<pc[q], job[q], before[q], globalBefore[q]>>
      /\ Editing(r) <=> Editing(r)'
      /\ Editing(r)' => globalBefore'[r] = globalBefore[r] /\ (pc[r] \in Rewriting => pc'[r] \in Rewriting /\ job'[r].domain = job[r].domain)
  BY DEF Service!ReloadRestored, Editing, Rewriting, Inv, TypeOK, Service!TypeOK, Serving, Service!Answer, Service!Restored
<1>2. Edited(r)'
  BY DEF Service!ReloadRestored, Provided, Edited, Editing, Inv, TypeOK, Service!TypeOK, Serving, Service!Answer, Service!Restored
<1>3. pc'[r] \notin Answered \cup {"received"} /\ before'[r].pagespeed => Cached
  BY DEF Service!ReloadRestored, Provided, Needs, Inv, TypeOK, Service!TypeOK, Service!Answer, Service!Restored
<1>. QED BY <1>1, <1>2, <1>3, ServiceKept

LEMMA PatchGlobalFailsConf ==
    ASSUME Inv, CommitInv, Provided, NEW r \in Request, Service!PatchGlobalFails(r),
           UNCHANGED <<step, Locals>>
    PROVE  Provided'
<1>1. /\ pc[r] \in {"checked", "truncated"} /\ pc'[r] = "error" /\ job[r].global /\ ~Editing(r)'
      /\ \A q \in Request \ {r} : UNCHANGED <<pc[q], job[q], before[q], globalBefore[q]>>
      /\ UNCHANGED vhost /\ skipped \subseteq skipped'
  BY DEF Service!PatchGlobalFails, Service!Answer, Editing, Inv, TypeOK, Service!TypeOK, Serving
<1>2. \/ pc[r] = "checked" /\ nginxConf' = nginxConf /\ nginxConf' \in {"plain", "cached"}
      \/ pc[r] = "truncated" /\ nginxConf' # "plain" /\ "nginx.conf" \in skipped'
  <2>1. CASE pc[r] = "checked"
    BY <1>1, <2>1, Job DEF Service!PatchGlobalFails, Provided, Edited
  <2>2. CASE pc[r] = "truncated"
    BY <1>1, <2>2 DEF Service!PatchGlobalFails, Service!CutShort, Service!Overwrite
  <2>. QED BY <1>1, <2>1, <2>2
<1>3. \A q \in Request : ~Editing(q)' /\ (Editing(q) => q = r)
  BY <1>1, OneEdits DEF Editing
<1>4. Cached => Cached'
  <2>1. CASE pc[r] = "checked"
    BY <1>1, <1>2, <1>3, <2>1 DEF Cached, Editing
  <2>2. CASE pc[r] = "truncated"
    BY <1>2, <1>3, <2>2 DEF Cached
  <2>. QED BY <1>1, <2>1, <2>2
<1>5. Edited(r)'
  BY <1>1, <1>3 DEF Edited
<1>. QED BY <1>1, <1>2, <1>4, <1>5, GlobalKept DEF Rewriting

\* nginx.conf that could not be put back keeps its FileCachePath,
LEMMA RestoreGlobalUnopenedConf ==
    ASSUME Inv, CommitInv, Provided, NEW r \in Request, Service!RestoreGlobalUnopened(r),
           UNCHANGED <<step, Locals>>
    PROVE  Provided'
<1>1. /\ pc[r] \in {"restored", "abandoned"} /\ pc'[r] \in {"reverted", "error"} /\ job[r].global
      /\ Editing(r) /\ ~Editing(r)'
      /\ \A q \in Request \ {r} : UNCHANGED <<pc[q], job[q], before[q], globalBefore[q]>>
      /\ UNCHANGED <<vhost, nginxConf>> /\ skipped \subseteq skipped'
      /\ pc'[r] = "reverted" => before'[r] = before[r]
  BY DEF Service!RestoreGlobalUnopened, Service!Answer, Editing, Inv, TypeOK, Service!TypeOK,
         Serving
<1>2. nginxConf' = "cached"
  BY <1>1 DEF Provided, Edited
<1>3. \A q \in Request : ~Editing(q)'
  BY <1>1, OneEdits DEF Editing
<1>4. Cached'
  BY <1>2, <1>3 DEF Cached
<1>5. Edited(r)'
  BY <1>1 DEF Edited
<1>. QED BY <1>1, <1>2, <1>4, <1>5, GlobalKept DEF Rewriting

\* or is cut short.
LEMMA RestoreGlobalFailsConf ==
    ASSUME Inv, CommitInv, Provided, NEW r \in Request, Service!RestoreGlobalFails(r),
           UNCHANGED <<step, Locals>>
    PROVE  Provided'
<1>1. /\ pc[r] \in {"emptied", "dropped"} /\ pc'[r] \in {"reverted", "error"} /\ job[r].global
      /\ Editing(r) /\ ~Editing(r)'
      /\ \A q \in Request \ {r} : UNCHANGED <<pc[q], job[q], before[q], globalBefore[q]>>
      /\ UNCHANGED vhost /\ skipped \subseteq skipped' /\ "nginx.conf" \in skipped'
      /\ pc'[r] = "reverted" => before'[r] = before[r]
      /\ nginxConf' \in Service!CutShort(nginxConf, globalBefore[r])
  BY DEF Service!RestoreGlobalFails, Service!Answer, Editing, Inv, TypeOK, Service!TypeOK,
         Serving
<1>2. /\ nginxConf' \in {"empty", "mixed", globalBefore[r]}
      /\ globalBefore[r] \in {"plain", "cached"}
  BY <1>1, Job DEF Provided, Edited, Service!CutShort, Service!Overwrite
<1>3. \A q \in Request : (Editing(q) => q = r) /\ ~Editing(q)'
  BY <1>1, OneEdits DEF Editing
<1>4. Cached => Cached'
  BY <1>1, <1>2, <1>3 DEF Cached
<1>5. Edited(r)'
  BY <1>1 DEF Edited
<1>. QED BY <1>1, <1>4, <1>5, GlobalKept DEF Rewriting

LEMMA WriteVhostFailsConf ==
    ASSUME Inv, CommitInv, Provided, NEW r \in Request, Service!WriteVhostFails(r),
           UNCHANGED <<step, Locals>>
    PROVE  Provided'
<1>1. /\ pc[r] \notin Answered /\ UNCHANGED <<vhost, nginxConf>> /\ skipped \subseteq skipped'
      /\ \A q \in Request \ {r} : UNCHANGED <<pc[q], job[q], before[q], globalBefore[q]>>
      /\ Editing(r) <=> Editing(r)'
      /\ Editing(r)' => globalBefore'[r] = globalBefore[r] /\ (pc[r] \in Rewriting => pc'[r] \in Rewriting /\ job'[r].domain = job[r].domain)
  <2>1. CASE job[r].global
    BY <2>1 DEF Service!WriteVhostFails, Service!Ready, Editing, Rewriting, Inv, TypeOK, Service!TypeOK
  <2>2. CASE ~job[r].global
    BY <2>2 DEF Service!WriteVhostFails, Service!Answer, Service!Ready, Editing, Rewriting, Inv, TypeOK,
                Service!TypeOK
  <2>. QED BY <2>1, <2>2
<1>2. Edited(r)'
  <2>1. CASE job[r].global
    BY <2>1 DEF Service!WriteVhostFails, Service!Ready, Provided, Edited, Editing, Inv, TypeOK, Service!TypeOK
  <2>2. CASE ~job[r].global
    BY <2>2 DEF Service!WriteVhostFails, Service!Answer, Service!Ready, Edited, Editing, Inv, TypeOK, Service!TypeOK
  <2>. QED BY <2>1, <2>2
<1>3. pc'[r] \notin Answered \cup {"received"} /\ before'[r].pagespeed => Cached
  BY DEF Service!WriteVhostFails, Provided, Needs, Inv, TypeOK, Service!TypeOK, Service!Answer
<1>. QED BY <1>1, <1>2, <1>3, ServiceKept

LEMMA CommandFailsConf ==
    ASSUME Inv, CommitInv, Provided, NEW r \in Request, Service!CommandFails(r),
           UNCHANGED <<step, Locals>>
    PROVE  Provided'
<1>1. /\ pc[r] \notin Answered /\ UNCHANGED <<vhost, nginxConf>> /\ skipped \subseteq skipped'
      /\ \A q \in Request \ {r} : UNCHANGED <<pc[q], job[q], before[q], globalBefore[q]>>
      /\ Editing(r) <=> Editing(r)'
      /\ Editing(r)' => globalBefore'[r] = globalBefore[r] /\ (pc[r] \in Rewriting => pc'[r] \in Rewriting /\ job'[r].domain = job[r].domain)
  BY DEF Service!CommandFails, Editing, Rewriting, Inv, TypeOK, Service!TypeOK, Serving
<1>2. Edited(r)'
  BY DEF Service!CommandFails, Provided, Edited, Editing, Inv, TypeOK, Service!TypeOK, Serving
<1>3. pc'[r] \notin Answered \cup {"received"} /\ before'[r].pagespeed => Cached
  BY DEF Service!CommandFails, Provided, Needs, Inv, TypeOK, Service!TypeOK
<1>. QED BY <1>1, <1>2, <1>3, ServiceKept

LEMMA ReloadRestoredFailsConf ==
    ASSUME Inv, CommitInv, Provided, NEW r \in Request, Service!ReloadRestoredFails(r),
           UNCHANGED <<step, Locals>>
    PROVE  Provided'
<1>1. /\ pc[r] \notin Answered /\ UNCHANGED <<vhost, nginxConf>> /\ skipped \subseteq skipped'
      /\ \A q \in Request \ {r} : UNCHANGED <<pc[q], job[q], before[q], globalBefore[q]>>
      /\ Editing(r) <=> Editing(r)'
      /\ Editing(r)' => globalBefore'[r] = globalBefore[r] /\ (pc[r] \in Rewriting => pc'[r] \in Rewriting /\ job'[r].domain = job[r].domain)
  BY DEF Service!ReloadRestoredFails, Editing, Rewriting, Inv, TypeOK, Service!TypeOK, Serving, Service!Answer, Service!Restored
<1>2. Edited(r)'
  BY DEF Service!ReloadRestoredFails, Provided, Edited, Editing, Inv, TypeOK, Service!TypeOK, Serving, Service!Answer, Service!Restored
<1>3. pc'[r] \notin Answered \cup {"received"} /\ before'[r].pagespeed => Cached
  BY DEF Service!ReloadRestoredFails, Provided, Needs, Inv, TypeOK, Service!TypeOK, Service!Answer, Service!Restored
<1>. QED BY <1>1, <1>2, <1>3, ServiceKept

LEMMA CrashConf ==
    ASSUME Inv, CommitInv, Provided, Service!Crash, UNCHANGED <<step, Locals>> PROVE Provided'
<1>1. /\ \A q \in Request : pc'[q] = IF pc[q] \in Answered THEN pc[q] ELSE "error"
      /\ UNCHANGED <<vhost, nginxConf>> /\ "nginx.conf" \in skipped'
  BY DEF Service!Crash
<1>2. \A q \in Request : ~Editing(q)'
  BY <1>1 DEF Editing
<1>3. ASSUME NEW c \in Request, Editing(c) PROVE nginxConf # "plain"
  BY <1>3 DEF Provided, Edited
<1>4. Cached => Cached'
  BY <1>1, <1>2, <1>3 DEF Cached
<1>5. ASSUME NEW q \in Request
      PROVE  (pc'[q] \notin Answered => step'[q] \in Asked) /\ Edited(q)' /\ Needs(q)'
  <2>1. pc'[q] \in Answered /\ Needs(q)
    BY <1>1 DEF Provided
  <2>. QED BY <1>2, <1>4, <2>1 DEF Edited, Needs
<1>6. ASSUME NEW d \in Domain PROVE Backed(d)'
  BY <1>1, <1>2, <1>3, <1>4 DEF Provided, Backed, Cached
<1>. QED BY <1>1, <1>5, <1>6 DEF Provided

\* A helper that dies with nothing half-way leaves the service idle.
LEMMA HelperCrashConf ==
    ASSUME Inv, Provided, HelperCrash, lost' = {} PROVE Provided'
<1>1. /\ \A q \in Request : step'[q] = "idle" /\ step[q] \notin Asked
      /\ UNCHANGED <<vhost, nginxConf, skipped, pc, job, before, globalBefore>>
  BY DEF HelperCrash, Asked
<1>2. \A q \in Request : pc[q] \in Answered
  BY <1>1 DEF Provided
<1>3. \A q \in Request : ~Editing(q) /\ ~Editing(q)'
  BY <1>1, <1>2 DEF Editing
<1>4. Cached' <=> Cached
  BY <1>1, <1>3 DEF Cached
<1>5. ASSUME NEW q \in Request
      PROVE  (pc'[q] \notin Answered => step'[q] \in Asked) /\ Edited(q)' /\ Needs(q)'
  BY <1>1, <1>2, <1>3 DEF Edited, Needs
<1>6. \A d \in Domain : Backed(d)'
  BY <1>1, <1>3, <1>4 DEF Provided, Backed
<1>. QED BY <1>1, <1>3, <1>5, <1>6 DEF Provided

LEMMA TickConf ==
    ASSUME Provided, Tick \/ UNCHANGED vars PROVE Provided'
<1>1. UNCHANGED <<vhost, nginxConf, skipped, pc, job, before, globalBefore, step, original>>
  BY DEF Tick, vars
<1>2. \A q \in Request : (Editing(q)' <=> Editing(q))
  BY <1>1 DEF Editing
<1>3. Cached' <=> Cached
  BY <1>1, <1>2 DEF Cached
<1>4. ASSUME NEW q \in Request PROVE Edited(q)' /\ Needs(q)'
  BY <1>1, <1>2, <1>3 DEF Provided, Edited, Needs
<1>5. ASSUME NEW d \in Domain PROVE Backed(d)'
  BY <1>1, <1>2, <1>3 DEF Provided, Backed
<1>. QED BY <1>1, <1>2, <1>4, <1>5 DEF Provided

\* What is lost stays lost.
LEMMA LostStays == [Next]_vars => lost \subseteq lost'
<1>. SUFFICES ASSUME [Next]_vars PROVE lost \subseteq lost'
  OBVIOUS
<1>1. ASSUME NEW r \in Request, Get(r) \/ Handle(r) \/ Serve(r) \/ ReadFails(r) \/ CommitFails(r)
      PROVE  lost' = lost
  BY <1>1 DEF Get, Handle, Serve, ReadFails, Verify, Conflict, StorePort, ReadOriginal, Update,
     Busy, Send, Commit, Finish, RestorePort, Unheard, CommitFails
<1>2. ASSUME ServiceFails \/ HelperCrash \/ Tick \/ UNCHANGED vars PROVE lost \subseteq lost'
  BY <1>2 DEF ServiceFails, HelperCrash, Tick, vars
<1>. QED BY <1>1, <1>2 DEF Next

\* Every step keeps ConfInv.
LEMMA ConfStep == Conflictless /\ Inv /\ CommitInv /\ ConfInv /\ [Next]_vars => ConfInv'
<1> SUFFICES ASSUME Conflictless, Inv, CommitInv, Provided, lost' = {}, [Next]_vars PROVE Provided'
  BY LostStays DEF ConfInv
<1>1. ASSUME NEW r \in Request, Get(r) PROVE Provided'
  BY <1>1, GetConf
<1>2. ASSUME NEW r \in Request, Handle(r) PROVE Provided'
  BY <1>2, VerifyConf, ConflictConf, StorePortConf, ReadOriginalConf, UpdateConf,
     BusyConf, SendConf, CommitConf, FinishConf, RestorePortConf, UnheardConf DEF Handle
<1>3. ASSUME NEW r \in Request, Serve(r) PROVE Provided'
  BY <1>3, ReadVhostConf, ReadGlobalConf, TruncateGlobalConf, PatchGlobalConf, WriteVhostConf,
     TestConf, ReloadConf, RestoreVhostConf, RestoreGlobalConf, ReloadRestoredConf
     DEF Serve, Service!Serve
<1>4. ASSUME NEW r \in Request, ReadFails(r) \/ CommitFails(r) PROVE Provided'
  BY <1>4, ReadFailsConf, CommitFailsConf
<1>5. ASSUME ServiceFails PROVE Provided'
  <2>1. UNCHANGED <<step, Locals>> /\ torn' = {}
    BY <1>5 DEF ServiceFails
  <2>2. ASSUME NEW r \in Request, Service!Failure(r) PROVE Provided'
    <3>1. ~Service!RestoreVhostFails(r)
      BY <2>1 DEF Service!RestoreVhostFails
    <3>. QED BY <2>1, <2>2, <3>1, PatchGlobalFailsConf, WriteVhostFailsConf, CommandFailsConf,
                RestoreGlobalUnopenedConf, RestoreGlobalFailsConf, ReloadRestoredFailsConf
                DEF Service!Failure
  <2>. QED BY <1>5, <2>1, <2>2, CrashConf DEF ServiceFails
<1>. QED BY <1>1, <1>2, <1>3, <1>4, <1>5, HelperCrashConf, TickConf DEF Next

LEMMA InitConf == Init => ConfInv
<1> SUFFICES ASSUME Init PROVE Provided
  BY DEF ConfInv
<1>1. /\ nginxConf = "plain" /\ \A r \in Request : pc[r] = "idle" /\ step[r] = "idle"
      /\ \A d \in Domain : ~vhost[d].pagespeed
  BY DEF Init, Service!Init, Fresh
<1>. QED BY <1>1 DEF Provided, Edited, Needs, Backed, Editing

LEMMA ConfHolds == Conflictless => (Spec => [](Inv /\ CommitInv /\ ConfInv))
<1>1. ASSUME Conflictless PROVE Spec => [](Inv /\ CommitInv /\ ConfInv)
  <2>1. Inv /\ CommitInv /\ ConfInv /\ [Next]_vars => ConfInv'
    BY <1>1, ConfStep
  <2>. QED BY <1>1, <2>1, InitConf, CommitHolds, PTL DEF Spec
<1>. QED BY <1>1

\* While no site is lost the files are, when all requests are answered, a
\* configuration Nginx can start with, if requests that run at once change different
\* sites: the write lock keeps two PageSpeed updates out of the service.
THEOREM RestIsValidHolds == Conflictless => (Spec => []RestIsValid)
<1>1. Inv /\ ConfInv => RestIsValid
  <2> SUFFICES ASSUME Inv, ConfInv, lost = {}, Service!AtRest, "nginx.conf" \notin skipped
               PROVE  Service!Accepts(vhost, nginxConf)
    BY DEF RestIsValid, Service!RestIsValid
  <2>1. Provided /\ \A c \in Request : ~Editing(c)
    BY DEF ConfInv, Service!AtRest, Editing
  <2>2. nginxConf \in {"plain", "cached"}
    BY <2>1 DEF Provided, Inv, TypeOK, Service!TypeOK, Service!NginxConf
  <2>3. \A d \in Domain : vhost[d].pagespeed => nginxConf = "cached"
    BY <2>1, <2>2 DEF Provided, Backed, Cached
  <2>. QED BY <2>2, <2>3 DEF Service!Accepts
<1>2. ASSUME Conflictless PROVE Spec => []RestIsValid
  BY <1>1, <1>2, ConfHolds, PTL
<1>. QED BY <1>2

-----------------------------------------------------------------------------
\* The settings that are in the row and in the vhost.
Same(v, s) == v.root = s.root /\ v.pagespeed = s.pagespeed

\* What was put into effect for d is not in its row, or no longer.
Waiting(d) == \E r \in Request :
    /\ step[r] \in Asked /\ ask[r].op \in Stored /\ ask[r].domain = d
    /\ step[r] = "committing" <=> pc[r] = "ok"

\* A request read what the row has, and its row has what its vhost has; the old
\* vhost is taken back.
Stores(r) == ask[r] # None /\ ask[r].domain \notin lost =>
    /\ step[r] \in {"patched", "committing", "undoing"} => Same(original[r], site[ask[r].domain])
    /\ step[r] \in Asked /\ ask[r].op \in Stored => Same(PatchedVhost(r), pending[r])
    /\ step[r] = "undoing" => pc[r] \in {"received", "read", "written", "tested", "ok"}

\* The rows have what is in effect, but for the one change that waits.
RowInv == /\ \A r \in Request : Stores(r)
          /\ \A d \in Domain \ lost : Waiting(d) \/ Same(committed[d], site[d])

\* What RowInv says of q depends on.
My(q) == <<step[q], ask[q], change[q], original[q], pending[q], pc[q]>>

\* The change r makes is in effect, but not in the row.
Awaits(r) == /\ step[r] \in Asked /\ ask[r].op \in Stored
             /\ step[r] = "committing" <=> pc[r] = "ok"

\* A step of the helper for r that stores neither of the two settings.
LEMMA RowKept ==
    ASSUME Inv, RowInv, NEW r \in Request, UNCHANGED <<committed, lost>>,
           \A q \in Request \ {r} : UNCHANGED My(q),
           \A d \in Domain : Same(site'[d], site[d]),
           Stores(r)', Awaits(r) /\ ask[r].domain \notin lost => Awaits(r)' /\ ask'[r] = ask[r]
    PROVE  RowInv'
<1>1. ASSUME NEW q \in Request PROVE Stores(q)'
  <2>1. CASE q # r
    <3>1. UNCHANGED <<step[q], ask[q], change[q], original[q], pending[q], pc[q]>> /\ Stores(q)
      BY <2>1 DEF My, RowInv
    <3>2. PatchedVhost(q)' = PatchedVhost(q)
      BY <3>1 DEF PatchedVhost
    <3>3. ask[q] # None => ask[q].domain \in Domain
      BY DEF Inv, TypeOK, Ask
    <3>. QED BY <3>1, <3>2, <3>3 DEF Stores, Same
  <2>. QED BY <2>1
<1>2. ASSUME NEW d \in Domain \ lost, Waiting(d) PROVE Waiting(d)'
  BY <1>2 DEF Waiting, Awaits, My
<1>3. ASSUME NEW d \in Domain \ lost' PROVE Waiting(d)' \/ Same(committed[d], site[d])'
  BY <1>2, <1>3 DEF RowInv, Same
<1>. QED BY <1>1, <1>3 DEF RowInv

\* Who takes the old vhost back has had the one failure: nothing else fails, and
\* the vhosts are a configuration Nginx accepts.
LEMMA UndoGoesWell ==
    ASSUME Inv, CommitInv, ConfInv, Spotless, RowInv, MaxFaults <= 1,
           NEW r \in Request, step[r] = "undoing", ask[r].domain \notin lost
    PROVE  /\ ~(faults < MaxFaults)
           /\ pc[r] \in {"received", "read", "written", "tested", "ok"}
           /\ pc[r] \notin Answered => ~job[r].global /\ Service!Accepts(vhost, nginxConf)
<1>1. faults \in Nat /\ faults >= 1
  BY DEF Spotless, Inv, TypeOK, Service!TypeOK
<1>2. pc[r] \in {"received", "read", "written", "tested", "ok"} /\ writer = r
  BY DEF RowInv, Stores, Inv, Working, Asked
<1>3. pc[r] \notin Answered => ~job[r].global
  BY DEF CommitInv, Tracked, Sent
<1>4. Provided /\ "nginx.conf" \notin skipped
  BY DEF ConfInv, Spotless
<1>5. ASSUME NEW c \in Request PROVE ~Editing(c)
  BY <1>2, <1>4, OneLock DEF Editing
<1>6. nginxConf \in {"plain", "cached"}
  BY <1>4, <1>5 DEF Provided, Inv, TypeOK, Service!TypeOK, Service!NginxConf
<1>7. \A d \in Domain : vhost[d].pagespeed => nginxConf = "cached"
  BY <1>4, <1>5, <1>6 DEF Provided, Backed, Cached
<1>8. Service!Accepts(vhost, nginxConf)
  BY <1>6, <1>7 DEF Service!Accepts
<1>. QED BY <1>1, <1>2, <1>3, <1>8

\* A step of the service that changes no site.
LEMMA ServiceRow ==
    ASSUME Inv, RowInv, NEW r \in Request,
           UNCHANGED <<Database, step, Locals, now, committed>>, lost \subseteq lost',
           \A q \in Request \ {r} : pc'[q] = pc[q],
           pc[r] \notin Answered, pc'[r] # "ok",
           step[r] = "undoing" /\ ask[r].domain \notin lost =>
             pc'[r] \in {"received", "read", "written", "tested", "ok"}
    PROVE  RowInv'
<1>1. ASSUME NEW q \in Request PROVE Stores(q)'
  <2>1. PatchedVhost(q)' = PatchedVhost(q) /\ Stores(q)
    BY DEF PatchedVhost, RowInv
  <2>. QED BY <2>1 DEF Stores, Same
<1>2. \A d \in Domain : Waiting(d) => Waiting(d)'
  BY DEF Waiting
<1>. QED BY <1>1, <1>2 DEF RowInv, Same

\* What is read of a site nobody is changing is what its row has.
LEMMA ReadsRow ==
    ASSUME Inv, CommitInv, RowInv, NEW d \in Domain \ lost,
           \A q \in Request : step[q] \in Asked => ask[q].domain # d
    PROVE  Same(vhost[d], site[d])
<1>1. \A c \in Request : pc[c] \in Rewriting => job[c].domain # d
  BY DEF CommitInv, Tracked, Waited, Rewriting
<1>2. vhost[d] = committed[d]
  BY <1>1 DEF CommitInv, Settled
<1>3. ~Waiting(d)
  BY DEF Waiting
<1>. QED BY <1>2, <1>3 DEF RowInv

\* Each action keeps RowInv: the helper's,
LEMMA GetRow ==
    ASSUME Conflictless, Inv, CommitInv, RowInv, NEW r \in Request, Get(r) PROVE RowInv'
<1>1. /\ UNCHANGED <<committed, lost>>
      /\ \A q \in Request \ {r} : UNCHANGED My(q)
      /\ \A d \in Domain : Same(site'[d], site[d])
  BY DEF Get, My, Same, Inv, TypeOK, Service!TypeOK
<1>2. Stores(r)'
  BY DEF Get, RowInv, Stores, Same, PatchedVhost, Asked, Inv, TypeOK, Service!TypeOK, Working
<1>3. Awaits(r) /\ ask[r].domain \notin lost => Awaits(r)' /\ ask'[r] = ask[r]
  BY DEF Get, Awaits, Asked, Inv, TypeOK, Service!TypeOK, Working
<1>. QED BY <1>1, <1>2, <1>3, RowKept

LEMMA VerifyRow ==
    ASSUME Conflictless, Inv, CommitInv, RowInv, NEW r \in Request, Verify(r) PROVE RowInv'
<1>1. /\ UNCHANGED <<committed, lost>>
      /\ \A q \in Request \ {r} : UNCHANGED My(q)
      /\ \A d \in Domain : Same(site'[d], site[d])
  BY DEF Verify, My, Same, Inv, TypeOK, Service!TypeOK
<1>2. Stores(r)'
  <2>1. CASE step'[r] = "patched" /\ ask[r].domain \notin lost
    <3>1. /\ step[r] = "informed" /\ original'[r] = vhost[ask[r].domain] /\ ask[r].domain \in Domain
          /\ UNCHANGED <<ask, site>>
      BY <2>1, Question DEF Verify, Inv, TypeOK
    <3>2. ASSUME NEW q \in Request, step[q] \in Asked PROVE ask[q].domain # ask[r].domain
      <4>1. q # r /\ Running(q)
        BY <3>1, <3>2 DEF Asked, Running
      <4>. QED BY <4>1, VerifiedApart
    <3>. QED BY <2>1, <3>1, <3>2, ReadsRow DEF Stores, Asked
  <2>2. CASE ~(step'[r] = "patched" /\ ask[r].domain \notin lost)
    BY <2>2 DEF Verify, Stores, Asked, Inv, TypeOK
  <2>. QED BY <2>1, <2>2
<1>3. Awaits(r) /\ ask[r].domain \notin lost => Awaits(r)' /\ ask'[r] = ask[r]
  BY DEF Verify, Awaits, Asked, Inv, TypeOK, Service!TypeOK, Working
<1>. QED BY <1>1, <1>2, <1>3, RowKept

LEMMA ConflictRow ==
    ASSUME Conflictless, Inv, CommitInv, RowInv, NEW r \in Request, Conflict(r) PROVE RowInv'
<1>1. /\ UNCHANGED <<committed, lost>>
      /\ \A q \in Request \ {r} : UNCHANGED My(q)
      /\ \A d \in Domain : Same(site'[d], site[d])
  BY DEF Conflict, My, Same, Inv, TypeOK, Service!TypeOK, Return
<1>2. Stores(r)'
  BY DEF Conflict, RowInv, Stores, Same, PatchedVhost, Asked, Inv, TypeOK, Service!TypeOK, Working, Return
<1>3. Awaits(r) /\ ask[r].domain \notin lost => Awaits(r)' /\ ask'[r] = ask[r]
  BY DEF Conflict, Awaits, Asked, Inv, TypeOK, Service!TypeOK, Working, Return
<1>. QED BY <1>1, <1>2, <1>3, RowKept

LEMMA StorePortRow ==
    ASSUME Conflictless, Inv, CommitInv, RowInv, NEW r \in Request, StorePort(r) PROVE RowInv'
<1>1. /\ UNCHANGED <<committed, lost>>
      /\ \A q \in Request \ {r} : UNCHANGED My(q)
      /\ \A d \in Domain : Same(site'[d], site[d])
  BY DEF StorePort, My, Same, Inv, TypeOK, Service!TypeOK
<1>2. Stores(r)'
  BY DEF StorePort, RowInv, Stores, Same, PatchedVhost, Asked, Inv, TypeOK, Service!TypeOK, Working
<1>3. Awaits(r) /\ ask[r].domain \notin lost => Awaits(r)' /\ ask'[r] = ask[r]
  BY DEF StorePort, Awaits, Asked, Inv, TypeOK, Service!TypeOK, Working
<1>. QED BY <1>1, <1>2, <1>3, RowKept

LEMMA BusyRow ==
    ASSUME Conflictless, Inv, CommitInv, RowInv, NEW r \in Request, Busy(r) PROVE RowInv'
<1>1. /\ UNCHANGED <<committed, lost>>
      /\ \A q \in Request \ {r} : UNCHANGED My(q)
      /\ \A d \in Domain : Same(site'[d], site[d])
  BY DEF Busy, My, Same, Inv, TypeOK, Service!TypeOK, Return
<1>2. Stores(r)'
  BY DEF Busy, RowInv, Stores, Same, PatchedVhost, Asked, Inv, TypeOK, Service!TypeOK, Working, Return
<1>3. Awaits(r) /\ ask[r].domain \notin lost => Awaits(r)' /\ ask'[r] = ask[r]
  BY DEF Busy, Awaits, Asked, Inv, TypeOK, Service!TypeOK, Working, Return
<1>. QED BY <1>1, <1>2, <1>3, RowKept

LEMMA CommitRow ==
    ASSUME Conflictless, Inv, CommitInv, RowInv, NEW r \in Request, Commit(r) PROVE RowInv'
<1>1. /\ step[r] = "committing" /\ pc[r] = "ok" /\ ask[r].op \in Stored /\ ask[r].domain \in Domain
      /\ site' = [site EXCEPT ![ask[r].domain] = pending[r]] /\ UNCHANGED <<committed, lost>>
      /\ step'[r] = "idle" /\ ask'[r] = None
      /\ \A q \in Request \ {r} : UNCHANGED <<step[q], ask[q], change[q], original[q], pending[q], pc[q]>>
  BY Question DEF Commit, HangUp, Return, Inv, TypeOK, Service!TypeOK
<1>2. ASSUME NEW d \in Domain PROVE site'[d] = IF d = ask[r].domain THEN pending[r] ELSE site[d]
  BY <1>1 DEF Inv, TypeOK
<1>3. ASSUME NEW q \in Request PROVE Stores(q)'
  <2>1. CASE q = r
    BY <1>1, <2>1 DEF Stores
  <2>2. CASE q # r
    <3>1. PatchedVhost(q)' = PatchedVhost(q) /\ Stores(q)
      BY <1>1, <2>2 DEF PatchedVhost, RowInv
    <3>2. Running(q) => ask[q].domain \in Domain /\ ask[q].domain # ask[r].domain
      BY <1>1, <2>2, Question DEF CommitInv, Apart, Running
    <3>. QED BY <1>1, <1>2, <2>2, <3>1, <3>2 DEF Stores, Same, Running, Asked
  <2>. QED BY <2>1, <2>2
<1>4. ASSUME NEW d \in Domain \ lost PROVE Waiting(d)' \/ Same(committed'[d], site'[d])
  <2>1. CASE d = ask[r].domain
    <3>1. committed[d] = PatchedVhost(r) /\ Same(PatchedVhost(r), pending[r])
      BY <1>1, <2>1 DEF CommitInv, Tracked, Based, RowInv, Stores, Asked, Inv, TypeOK, Working
    <3>. QED BY <1>1, <1>2, <2>1, <3>1
  <2>2. CASE d # ask[r].domain
    <3>1. Waiting(d) => Waiting(d)'
      BY <1>1, <2>2 DEF Waiting
    <3>. QED BY <1>1, <1>2, <1>4, <2>2, <3>1 DEF RowInv
  <2>. QED BY <2>1, <2>2
<1>. QED BY <1>1, <1>3, <1>4 DEF RowInv

LEMMA FinishRow ==
    ASSUME Conflictless, Inv, CommitInv, RowInv, NEW r \in Request, Finish(r) PROVE RowInv'
<1>1. /\ UNCHANGED <<committed, lost>>
      /\ \A q \in Request \ {r} : UNCHANGED My(q)
      /\ \A d \in Domain : Same(site'[d], site[d])
  BY DEF Finish, My, Same, Inv, TypeOK, Service!TypeOK, HangUp, Return
<1>2. Stores(r)'
  BY DEF Finish, RowInv, Stores, Same, PatchedVhost, Asked, Inv, TypeOK, Service!TypeOK, Working, HangUp, Return
<1>3. Awaits(r) /\ ask[r].domain \notin lost => Awaits(r)' /\ ask'[r] = ask[r]
  <2>1. ask[r] # None
    BY Question DEF Finish
  <2>2. step[r] = "undoing" /\ ask[r].domain \notin lost => pc[r] # "error"
    BY <2>1 DEF RowInv, Stores
  <2>3. ~(Awaits(r) /\ ask[r].domain \notin lost)
    BY <2>2 DEF Finish, Awaits, Asked
  <2>. QED BY <2>3
<1>. QED BY <1>1, <1>2, <1>3, RowKept

LEMMA RestorePortRow ==
    ASSUME Conflictless, Inv, CommitInv, RowInv, NEW r \in Request, RestorePort(r) PROVE RowInv'
<1>1. /\ UNCHANGED <<committed, lost>>
      /\ \A q \in Request \ {r} : UNCHANGED My(q)
      /\ \A d \in Domain : Same(site'[d], site[d])
  <2>1. /\ step' = [step EXCEPT ![r] = "idle"] /\ ask' = [ask EXCEPT ![r] = None]
        /\ change' = [change EXCEPT ![r] = None] /\ original' = [original EXCEPT ![r] = None]
        /\ pending' = [pending EXCEPT ![r] = None] /\ pc' = [pc EXCEPT ![r] = "idle"]
        /\ UNCHANGED <<committed, lost>>
    BY DEF RestorePort, HangUp, Return
  <2>2. \A q \in Request \ {r} : UNCHANGED My(q)
    BY <2>1 DEF My, Inv, TypeOK, Service!TypeOK
  <2>3. \A d \in Domain : Same(site'[d], site[d])
    <3>1. site \in [Domain -> Row]
      BY DEF Inv, TypeOK
    <3>2. CASE UNCHANGED site
      BY <3>2 DEF Same
    <3>3. CASE site' = [site EXCEPT ![ask[r].domain].port = pending[r].port]
      BY <3>1, <3>3 DEF Same, Row
    <3>. QED BY <3>2, <3>3 DEF RestorePort
  <2>. QED BY <2>1, <2>2, <2>3
<1>2. Stores(r)'
  BY DEF RestorePort, RowInv, Stores, Same, PatchedVhost, Asked, Inv, TypeOK, Service!TypeOK, Working, HangUp, Return
<1>3. Awaits(r) /\ ask[r].domain \notin lost => Awaits(r)' /\ ask'[r] = ask[r]
  BY DEF RestorePort, Awaits, Asked, Inv, TypeOK, Service!TypeOK, Working, HangUp, Return
<1>. QED BY <1>1, <1>2, <1>3, RowKept

LEMMA UnheardRow ==
    ASSUME Conflictless, Inv, CommitInv, RowInv, NEW r \in Request, Unheard(r) PROVE RowInv'
<1>1. /\ UNCHANGED <<committed, lost>>
      /\ \A q \in Request \ {r} : UNCHANGED My(q)
      /\ \A d \in Domain : Same(site'[d], site[d])
  BY DEF Unheard, My, Same, Inv, TypeOK, Service!TypeOK, HangUp
<1>2. Stores(r)'
  BY DEF Unheard, RowInv, Stores, Same, PatchedVhost, Asked, Inv, TypeOK, Service!TypeOK, Working, HangUp
<1>3. Awaits(r) /\ ask[r].domain \notin lost => Awaits(r)' /\ ask'[r] = ask[r]
  BY DEF Unheard, Awaits, Asked, Inv, TypeOK, Service!TypeOK, Working, HangUp
<1>. QED BY <1>1, <1>2, <1>3, RowKept

LEMMA ReadFailsRow ==
    ASSUME Conflictless, Inv, CommitInv, RowInv, NEW r \in Request, ReadFails(r) PROVE RowInv'
<1>1. /\ UNCHANGED <<committed, lost>>
      /\ \A q \in Request \ {r} : UNCHANGED My(q)
      /\ \A d \in Domain : Same(site'[d], site[d])
  BY DEF ReadFails, My, Same, Inv, TypeOK, Service!TypeOK, ReadsVhost, Fail, MayFail, Return
<1>2. Stores(r)'
  BY DEF ReadFails, RowInv, Stores, Same, PatchedVhost, Asked, Inv, TypeOK, Service!TypeOK, Working, ReadsVhost, Fail, MayFail, Return
<1>3. Awaits(r) /\ ask[r].domain \notin lost => Awaits(r)' /\ ask'[r] = ask[r]
  BY DEF ReadFails, Awaits, Asked, Inv, TypeOK, Service!TypeOK, Working, ReadsVhost, Fail, MayFail, Return
<1>. QED BY <1>1, <1>2, <1>3, RowKept

LEMMA ReadOriginalRow ==
    ASSUME Conflictless, Inv, CommitInv, RowInv, NEW r \in Request, ReadOriginal(r) PROVE RowInv'
<1>1. /\ UNCHANGED <<committed, lost>>
      /\ \A q \in Request \ {r} : UNCHANGED My(q)
      /\ \A d \in Domain : Same(site'[d], site[d])
  BY DEF ReadOriginal, My, Same, Inv, TypeOK, Service!TypeOK, ReadsVhost
<1>2. Stores(r)'
  <2>1. /\ Running(r) /\ step[r] \notin Asked /\ step'[r] = "patched"
        /\ original'[r] = vhost[ask[r].domain] /\ ask[r].domain \in Domain /\ UNCHANGED <<ask, site, lost>>
    BY Question DEF ReadOriginal, ReadsVhost, Running, Asked, Inv, TypeOK
  <2>2. \A q \in Request : step[q] \in Asked => ask[q].domain # ask[r].domain
    BY <2>1 DEF CommitInv, Apart, Asked, Running
  <2>. QED BY <2>1, <2>2, ReadsRow DEF Stores, Asked
<1>3. Awaits(r) /\ ask[r].domain \notin lost => Awaits(r)' /\ ask'[r] = ask[r]
  BY DEF ReadOriginal, Awaits, Asked, Inv, TypeOK, Service!TypeOK, Working, ReadsVhost
<1>. QED BY <1>1, <1>2, <1>3, RowKept

LEMMA UpdateRow ==
    ASSUME Conflictless, Inv, CommitInv, RowInv, NEW r \in Request, Update(r) PROVE RowInv'
<1>1. /\ UNCHANGED <<committed, lost>>
      /\ \A q \in Request \ {r} : UNCHANGED My(q)
      /\ \A d \in Domain : Same(site'[d], site[d])
  BY DEF Update, My, Same, Inv, TypeOK, Service!TypeOK, Call
<1>2. Stores(r)'
  <2>1. /\ step[r] = "patched" /\ ask[r].op \in Stored /\ step'[r] = "committing"
        /\ pending'[r] = NewRow(r) /\ UNCHANGED <<ask, change, original, site, lost>>
    BY DEF Update, NewRow, Inv, TypeOK
  <2>2. PatchedVhost(r)' = PatchedVhost(r)
    BY <2>1 DEF PatchedVhost
  <2>3. ask[r].domain \notin lost /\ ask[r] # None => Same(original[r], site[ask[r].domain])
    BY <2>1 DEF RowInv, Stores
  <2>4. ask[r].domain \notin lost /\ ask[r] # None => Same(PatchedVhost(r), NewRow(r))
    BY <2>1, <2>3, Patches, RowChanges DEF Same, Stored
  <2>. QED BY <2>1, <2>2, <2>3, <2>4 DEF Stores, Same
<1>3. Awaits(r) /\ ask[r].domain \notin lost => Awaits(r)' /\ ask'[r] = ask[r]
  BY DEF Update, Awaits, Asked, Inv, TypeOK, Service!TypeOK, Working, Call
<1>. QED BY <1>1, <1>2, <1>3, RowKept

LEMMA SendRow ==
    ASSUME Conflictless, Inv, CommitInv, RowInv, NEW r \in Request, Send(r) PROVE RowInv'
<1>1. /\ UNCHANGED <<committed, lost>>
      /\ \A q \in Request \ {r} : UNCHANGED My(q)
      /\ \A d \in Domain : Same(site'[d], site[d])
  BY DEF Send, My, Same, Inv, TypeOK, Service!TypeOK, Call
<1>2. Stores(r)'
  BY DEF Send, RowInv, Stores, Same, PatchedVhost, Asked, Inv, TypeOK, Service!TypeOK, Working, Call
<1>3. Awaits(r) /\ ask[r].domain \notin lost => Awaits(r)' /\ ask'[r] = ask[r]
  BY DEF Send, Awaits, Asked, Inv, TypeOK, Service!TypeOK, Working, Call
<1>. QED BY <1>1, <1>2, <1>3, RowKept

LEMMA CommitFailsRow ==
    ASSUME Conflictless, Inv, CommitInv, RowInv, NEW r \in Request, CommitFails(r) PROVE RowInv'
<1>1. /\ UNCHANGED <<committed, lost>>
      /\ \A q \in Request \ {r} : UNCHANGED My(q)
      /\ \A d \in Domain : Same(site'[d], site[d])
  BY DEF CommitFails, My, Same, Inv, TypeOK, Service!TypeOK, Call, Fail, MayFail
<1>2. Stores(r)'
  BY DEF CommitFails, RowInv, Stores, Same, PatchedVhost, Asked, Inv, TypeOK, Service!TypeOK, Working, Call, Fail, MayFail
<1>3. Awaits(r) /\ ask[r].domain \notin lost => Awaits(r)' /\ ask'[r] = ask[r]
  BY DEF CommitFails, Awaits, Asked, Inv, TypeOK, Service!TypeOK, Working, Call, Fail, MayFail
<1>. QED BY <1>1, <1>2, <1>3, RowKept

\* and the service's.
LEMMA ReadVhostRow ==
    ASSUME Inv, CommitInv, ConfInv, Spotless, RowInv, MaxFaults <= 1,
           NEW r \in Request, Service!ReadVhost(r),
           UNCHANGED <<Database, step, Locals, now>>, lost \subseteq lost'
    PROVE  RowInv'
<1>1. /\ UNCHANGED committed /\ \A q \in Request \ {r} : pc'[q] = pc[q]
      /\ pc[r] \notin Answered /\ pc'[r] # "ok"
  BY DEF Service!ReadVhost, Inv, TypeOK, Service!TypeOK
<1>2. step[r] = "undoing" /\ ask[r].domain \notin lost => pc'[r] \in {"received", "read", "written", "tested", "ok"}
  BY UndoGoesWell DEF Service!ReadVhost, Inv, TypeOK, Service!TypeOK
<1>. QED BY <1>1, <1>2, ServiceRow

LEMMA ReadGlobalRow ==
    ASSUME Inv, CommitInv, ConfInv, Spotless, RowInv, MaxFaults <= 1,
           NEW r \in Request, Service!ReadGlobal(r),
           UNCHANGED <<Database, step, Locals, now>>, lost \subseteq lost'
    PROVE  RowInv'
<1>1. /\ UNCHANGED committed /\ \A q \in Request \ {r} : pc'[q] = pc[q]
      /\ pc[r] \notin Answered /\ pc'[r] # "ok"
  BY DEF Service!ReadGlobal, Inv, TypeOK, Service!TypeOK, Service!Answer
<1>2. step[r] = "undoing" /\ ask[r].domain \notin lost => pc'[r] \in {"received", "read", "written", "tested", "ok"}
  BY UndoGoesWell DEF Service!ReadGlobal, Inv, TypeOK, Service!TypeOK, Service!Answer
<1>. QED BY <1>1, <1>2, ServiceRow

LEMMA TruncateGlobalRow ==
    ASSUME Inv, CommitInv, ConfInv, Spotless, RowInv, MaxFaults <= 1,
           NEW r \in Request, Service!TruncateGlobal(r),
           UNCHANGED <<Database, step, Locals, now>>, lost \subseteq lost'
    PROVE  RowInv'
<1>1. /\ UNCHANGED committed /\ \A q \in Request \ {r} : pc'[q] = pc[q]
      /\ pc[r] \notin Answered /\ pc'[r] # "ok"
  BY DEF Service!TruncateGlobal, Inv, TypeOK, Service!TypeOK
<1>2. step[r] = "undoing" /\ ask[r].domain \notin lost => pc'[r] \in {"received", "read", "written", "tested", "ok"}
  BY UndoGoesWell DEF Service!TruncateGlobal, Inv, TypeOK, Service!TypeOK
<1>. QED BY <1>1, <1>2, ServiceRow

LEMMA PatchGlobalRow ==
    ASSUME Inv, CommitInv, ConfInv, Spotless, RowInv, MaxFaults <= 1,
           NEW r \in Request, Service!PatchGlobal(r),
           UNCHANGED <<Database, step, Locals, now>>, lost \subseteq lost'
    PROVE  RowInv'
<1>1. /\ UNCHANGED committed /\ \A q \in Request \ {r} : pc'[q] = pc[q]
      /\ pc[r] \notin Answered /\ pc'[r] # "ok"
  BY DEF Service!PatchGlobal, Inv, TypeOK, Service!TypeOK
<1>2. step[r] = "undoing" /\ ask[r].domain \notin lost => pc'[r] \in {"received", "read", "written", "tested", "ok"}
  BY UndoGoesWell DEF Service!PatchGlobal, Inv, TypeOK, Service!TypeOK
<1>. QED BY <1>1, <1>2, ServiceRow

LEMMA WriteVhostRow ==
    ASSUME Inv, CommitInv, ConfInv, Spotless, RowInv, MaxFaults <= 1,
           NEW r \in Request, Service!WriteVhost(r),
           UNCHANGED <<Database, step, Locals, now>>, lost \subseteq lost'
    PROVE  RowInv'
<1>1. /\ UNCHANGED committed /\ \A q \in Request \ {r} : pc'[q] = pc[q]
      /\ pc[r] \notin Answered /\ pc'[r] # "ok"
  BY DEF Service!WriteVhost, Inv, TypeOK, Service!TypeOK
<1>2. step[r] = "undoing" /\ ask[r].domain \notin lost => pc'[r] \in {"received", "read", "written", "tested", "ok"}
  BY UndoGoesWell DEF Service!WriteVhost, Inv, TypeOK, Service!TypeOK
<1>. QED BY <1>1, <1>2, ServiceRow

LEMMA TestRow ==
    ASSUME Inv, CommitInv, ConfInv, Spotless, RowInv, MaxFaults <= 1,
           NEW r \in Request, Service!Test(r),
           UNCHANGED <<Database, step, Locals, now>>, lost \subseteq lost'
    PROVE  RowInv'
<1>1. /\ UNCHANGED committed /\ \A q \in Request \ {r} : pc'[q] = pc[q]
      /\ pc[r] \notin Answered /\ pc'[r] # "ok"
  BY DEF Service!Test, Inv, TypeOK, Service!TypeOK
<1>2. step[r] = "undoing" /\ ask[r].domain \notin lost => pc'[r] \in {"received", "read", "written", "tested", "ok"}
  BY UndoGoesWell DEF Service!Test, Inv, TypeOK, Service!TypeOK
<1>. QED BY <1>1, <1>2, ServiceRow

LEMMA ReloadRow ==
    ASSUME Inv, CommitInv, ConfInv, Spotless, RowInv, MaxFaults <= 1,
           NEW r \in Request, Service!Reload(r),
           UNCHANGED <<Database, step, Locals, now>>, lost \subseteq lost'
    PROVE  RowInv'
<1>1. CASE /\ committed' = [committed EXCEPT ![job[r].domain] = job[r].content]
           /\ Service!Answer(r, "ok")
  <2>1. /\ pc[r] = "tested" /\ pc'[r] = "ok" /\ job[r].domain \in Domain
        /\ \A q \in Request \ {r} : pc'[q] = pc[q]
        /\ \A d \in Domain : committed'[d] = IF d = job[r].domain THEN job[r].content ELSE committed[d]
    BY <1>1, Job DEF Service!Reload, Service!Answer, Inv, TypeOK, Service!TypeOK
  <2>2. ASSUME NEW q \in Request PROVE Stores(q)'
    <3>1. PatchedVhost(q)' = PatchedVhost(q) /\ Stores(q)
      BY DEF PatchedVhost, RowInv
    <3>. QED BY <2>1, <3>1 DEF Stores, Same
  <2>3. ASSUME NEW d \in Domain \ lost' PROVE Waiting(d)' \/ Same(committed'[d], site'[d])
    <3>1. CASE d = job[r].domain
      <4>1. step[r] \in Asked /\ ask[r].domain = d /\ Sent(r) /\ ask[r] # None /\ d \notin lost
        BY <2>1, <2>3, <3>1 DEF CommitInv, Tracked, Waited, Asked, Inv, TypeOK, Working
      <4>2. CASE step[r] = "committing" /\ ask[r].op \in Stored
        BY <2>1, <4>1, <4>2 DEF Waiting, Asked
      <4>3. CASE step[r] = "committing" /\ ask[r].op \notin Stored
        <5>1. Same(PatchedVhost(r), original[r])
          BY <4>3, Patches DEF Same, Stored
        <5>. QED BY <2>1, <3>1, <4>1, <4>3, <5>1 DEF Sent, RowInv, Stores, Same
      <4>4. CASE step[r] = "undoing"
        BY <2>1, <3>1, <4>1, <4>4 DEF Sent, RowInv, Stores
      <4>. QED BY <4>1, <4>2, <4>3, <4>4 DEF Asked
    <3>2. CASE d # job[r].domain
      <4>1. ASSUME Waiting(d) PROVE Waiting(d)'
        <5>1. PICK q \in Request : /\ step[q] \in Asked /\ ask[q].op \in Stored /\ ask[q].domain = d
                                   /\ step[q] = "committing" <=> pc[q] = "ok"
          BY <4>1 DEF Waiting
        <5>2. q # r
          BY <2>1, <3>2, <5>1 DEF CommitInv, Tracked, Sent
        <5>. QED BY <2>1, <5>1, <5>2 DEF Waiting
      <4>. QED BY <2>1, <2>3, <3>2, <4>1 DEF RowInv
    <3>. QED BY <3>1, <3>2
  <2>. QED BY <2>2, <2>3 DEF RowInv
<1>2. CASE pc' = [pc EXCEPT ![r] = "failed"] /\ UNCHANGED committed /\ ~Service!Accepts(vhost, nginxConf)
           /\ pc[r] = "tested"
  <2>1. pc'[r] = "failed" /\ \A q \in Request \ {r} : pc'[q] = pc[q]
    BY <1>2 DEF Inv, TypeOK, Service!TypeOK
  <2>. QED BY <1>2, <2>1, UndoGoesWell, ServiceRow
<1>. QED BY <1>1, <1>2 DEF Service!Reload

LEMMA RestoreVhostRow ==
    ASSUME Inv, CommitInv, ConfInv, Spotless, RowInv, MaxFaults <= 1,
           NEW r \in Request, Service!RestoreVhost(r),
           UNCHANGED <<Database, step, Locals, now>>, lost \subseteq lost'
    PROVE  RowInv'
<1>1. /\ UNCHANGED committed /\ \A q \in Request \ {r} : pc'[q] = pc[q]
      /\ pc[r] \notin Answered /\ pc'[r] # "ok"
  BY DEF Service!RestoreVhost, Inv, TypeOK, Service!TypeOK
<1>2. step[r] = "undoing" /\ ask[r].domain \notin lost => pc'[r] \in {"received", "read", "written", "tested", "ok"}
  BY UndoGoesWell DEF Service!RestoreVhost, Inv, TypeOK, Service!TypeOK
<1>. QED BY <1>1, <1>2, ServiceRow

LEMMA RestoreGlobalRow ==
    ASSUME Inv, CommitInv, ConfInv, Spotless, RowInv, MaxFaults <= 1,
           NEW r \in Request, Service!RestoreGlobal(r),
           UNCHANGED <<Database, step, Locals, now>>, lost \subseteq lost'
    PROVE  RowInv'
<1>1. /\ UNCHANGED committed /\ \A q \in Request \ {r} : pc'[q] = pc[q]
      /\ pc[r] \notin Answered /\ pc'[r] # "ok"
  BY DEF Service!RestoreGlobal, Inv, TypeOK, Service!TypeOK, Service!Answer
<1>2. step[r] = "undoing" /\ ask[r].domain \notin lost => pc'[r] \in {"received", "read", "written", "tested", "ok"}
  BY UndoGoesWell DEF Service!RestoreGlobal, Inv, TypeOK, Service!TypeOK, Service!Answer
<1>. QED BY <1>1, <1>2, ServiceRow

LEMMA ReloadRestoredRow ==
    ASSUME Inv, CommitInv, ConfInv, Spotless, RowInv, MaxFaults <= 1,
           NEW r \in Request, Service!ReloadRestored(r),
           UNCHANGED <<Database, step, Locals, now>>, lost \subseteq lost'
    PROVE  RowInv'
<1>1. /\ UNCHANGED committed /\ \A q \in Request \ {r} : pc'[q] = pc[q]
      /\ pc[r] \notin Answered /\ pc'[r] # "ok"
  BY DEF Service!ReloadRestored, Inv, TypeOK, Service!TypeOK, Service!Answer, Service!Restored
<1>2. step[r] = "undoing" /\ ask[r].domain \notin lost => pc'[r] \in {"received", "read", "written", "tested", "ok"}
  BY UndoGoesWell DEF Service!ReloadRestored, Inv, TypeOK, Service!TypeOK, Service!Answer, Service!Restored
<1>. QED BY <1>1, <1>2, ServiceRow

LEMMA PatchGlobalFailsRow ==
    ASSUME Inv, CommitInv, ConfInv, Spotless, RowInv, MaxFaults <= 1,
           NEW r \in Request, Service!PatchGlobalFails(r),
           UNCHANGED <<Database, step, Locals, now>>, lost \subseteq lost'
    PROVE  RowInv'
<1>1. /\ UNCHANGED committed /\ \A q \in Request \ {r} : pc'[q] = pc[q]
      /\ pc[r] \notin Answered /\ pc'[r] # "ok"
  BY DEF Service!PatchGlobalFails, Inv, TypeOK, Service!TypeOK, Service!Answer
<1>2. step[r] = "undoing" /\ ask[r].domain \notin lost => pc'[r] \in {"received", "read", "written", "tested", "ok"}
  BY UndoGoesWell DEF Service!PatchGlobalFails, Inv, TypeOK, Service!TypeOK, Service!Answer
<1>. QED BY <1>1, <1>2, ServiceRow

LEMMA WriteVhostFailsRow ==
    ASSUME Inv, CommitInv, ConfInv, Spotless, RowInv, MaxFaults <= 1,
           NEW r \in Request, Service!WriteVhostFails(r),
           UNCHANGED <<Database, step, Locals, now>>, lost \subseteq lost'
    PROVE  RowInv'
<1>1. /\ UNCHANGED committed /\ \A q \in Request \ {r} : pc'[q] = pc[q]
      /\ pc[r] \notin Answered /\ pc'[r] # "ok"
  BY DEF Service!WriteVhostFails, Inv, TypeOK, Service!TypeOK, Service!Answer
<1>2. step[r] = "undoing" /\ ask[r].domain \notin lost => pc'[r] \in {"received", "read", "written", "tested", "ok"}
  BY UndoGoesWell DEF Service!WriteVhostFails, Service!Fail, Service!MayFail
<1>. QED BY <1>1, <1>2, ServiceRow

LEMMA CommandFailsRow ==
    ASSUME Inv, CommitInv, ConfInv, Spotless, RowInv, MaxFaults <= 1,
           NEW r \in Request, Service!CommandFails(r),
           UNCHANGED <<Database, step, Locals, now>>, lost \subseteq lost'
    PROVE  RowInv'
<1>1. /\ UNCHANGED committed /\ \A q \in Request \ {r} : pc'[q] = pc[q]
      /\ pc[r] \notin Answered /\ pc'[r] # "ok"
  BY DEF Service!CommandFails, Inv, TypeOK, Service!TypeOK
<1>2. step[r] = "undoing" /\ ask[r].domain \notin lost => pc'[r] \in {"received", "read", "written", "tested", "ok"}
  BY UndoGoesWell DEF Service!CommandFails, Service!Fail, Service!MayFail
<1>. QED BY <1>1, <1>2, ServiceRow

LEMMA ReloadRestoredFailsRow ==
    ASSUME Inv, CommitInv, ConfInv, Spotless, RowInv, MaxFaults <= 1,
           NEW r \in Request, Service!ReloadRestoredFails(r),
           UNCHANGED <<Database, step, Locals, now>>, lost \subseteq lost'
    PROVE  RowInv'
<1>1. /\ UNCHANGED committed /\ \A q \in Request \ {r} : pc'[q] = pc[q]
      /\ pc[r] \notin Answered /\ pc'[r] # "ok"
  BY DEF Service!ReloadRestoredFails, Inv, TypeOK, Service!TypeOK, Service!Answer, Service!Restored
<1>2. step[r] = "undoing" /\ ask[r].domain \notin lost => pc'[r] \in {"received", "read", "written", "tested", "ok"}
  BY UndoGoesWell DEF Service!ReloadRestoredFails, Inv, TypeOK, Service!TypeOK, Service!Answer, Service!Restored
<1>. QED BY <1>1, <1>2, ServiceRow

\* The deaths of the two processes, and the clock.
LEMMA RestoreVhostFailsRow ==
    ASSUME Inv, CommitInv, ConfInv, Spotless, RowInv, MaxFaults <= 1,
           NEW r \in Request, Service!RestoreVhostFails(r),
           UNCHANGED <<Database, step, Locals, now>>, lost \subseteq lost'
    PROVE  RowInv'
<1>1. /\ UNCHANGED committed /\ \A q \in Request \ {r} : pc'[q] = pc[q]
      /\ pc[r] \notin Answered /\ pc'[r] # "ok" /\ faults < MaxFaults
  BY DEF Service!RestoreVhostFails, Service!Fail, Service!MayFail, Inv, TypeOK,
         Service!TypeOK
<1>2. step[r] = "undoing" => ask[r].domain \in lost
  BY <1>1, UndoGoesWell
<1>. QED BY <1>1, <1>2, ServiceRow

LEMMA RestoreGlobalUnopenedRow ==
    ASSUME Inv, CommitInv, ConfInv, Spotless, RowInv, MaxFaults <= 1,
           NEW r \in Request, Service!RestoreGlobalUnopened(r),
           UNCHANGED <<Database, step, Locals, now>>, lost \subseteq lost'
    PROVE  RowInv'
<1>1. /\ UNCHANGED committed /\ \A q \in Request \ {r} : pc'[q] = pc[q]
      /\ pc[r] \notin Answered /\ pc'[r] # "ok" /\ faults < MaxFaults
  BY DEF Service!RestoreGlobalUnopened, Service!Fail, Service!MayFail, Inv, TypeOK,
         Service!TypeOK, Service!Answer
<1>2. step[r] = "undoing" => ask[r].domain \in lost
  BY <1>1, UndoGoesWell
<1>. QED BY <1>1, <1>2, ServiceRow

LEMMA RestoreGlobalFailsRow ==
    ASSUME Inv, CommitInv, ConfInv, Spotless, RowInv, MaxFaults <= 1,
           NEW r \in Request, Service!RestoreGlobalFails(r),
           UNCHANGED <<Database, step, Locals, now>>, lost \subseteq lost'
    PROVE  RowInv'
<1>1. /\ UNCHANGED committed /\ \A q \in Request \ {r} : pc'[q] = pc[q]
      /\ pc[r] \notin Answered /\ pc'[r] # "ok" /\ faults < MaxFaults
  BY DEF Service!RestoreGlobalFails, Service!Fail, Service!MayFail, Inv, TypeOK,
         Service!TypeOK, Service!Answer
<1>2. step[r] = "undoing" => ask[r].domain \in lost
  BY <1>1, UndoGoesWell
<1>. QED BY <1>1, <1>2, ServiceRow

LEMMA CrashRow ==
    ASSUME Inv, CommitInv, ConfInv, Spotless, RowInv, MaxFaults <= 1, Service!Crash,
           UNCHANGED <<Database, step, Locals, now>>, lost \subseteq lost'
    PROVE  RowInv'
<1>1. /\ \A q \in Request : pc'[q] = IF pc[q] \in Answered THEN pc[q] ELSE "error"
      /\ UNCHANGED committed /\ faults < MaxFaults
  BY DEF Service!Crash, Service!Fail, Service!MayFail
<1>2. ASSUME NEW q \in Request PROVE Stores(q)'
  <2>1. PatchedVhost(q)' = PatchedVhost(q) /\ Stores(q)
    BY DEF PatchedVhost, RowInv
  <2>2. step[q] = "undoing" => ask[q].domain \in lost
    BY <1>1, UndoGoesWell
  <2>. QED BY <2>1, <2>2 DEF Stores, Same
<1>3. \A d \in Domain : Waiting(d) => Waiting(d)'
  BY <1>1 DEF Waiting
<1>. QED BY <1>1, <1>2, <1>3 DEF RowInv, Same

LEMMA HelperCrashRow == ASSUME Inv, RowInv, HelperCrash PROVE RowInv'
<1>1. /\ \A q \in Request : ask'[q] = None
      /\ UNCHANGED <<site, committed>> /\ lost \subseteq lost'
      /\ \A q \in Request : step[q] \in Asked => ask[q].domain \in lost'
  BY DEF HelperCrash, Asked
<1>2. \A q \in Request : Stores(q)'
  BY <1>1 DEF Stores
<1>3. \A d \in Domain \ lost' : ~Waiting(d)
  BY <1>1 DEF Waiting
<1>. QED BY <1>1, <1>2, <1>3 DEF RowInv, Same

LEMMA TickRow == ASSUME RowInv, Tick \/ UNCHANGED vars PROVE RowInv'
<1>1. UNCHANGED <<site, committed, step, ask, change, original, pending, pc, lost>>
  BY DEF Tick, vars
<1>2. ASSUME NEW q \in Request PROVE Stores(q)'
  <2>1. PatchedVhost(q)' = PatchedVhost(q) /\ Stores(q)
    BY <1>1 DEF PatchedVhost, RowInv
  <2>. QED BY <1>1, <2>1 DEF Stores, Same
<1>3. \A d \in Domain : Waiting(d) => Waiting(d)'
  BY <1>1 DEF Waiting
<1>. QED BY <1>1, <1>2, <1>3 DEF RowInv, Same

\* A failure is only counted, and an undoing only begun by one.
Counts ==
    /\ faults \in Nat /\ MaxFaults \in Nat
    /\ \/ faults' = faults
       \/ /\ faults < MaxFaults
          /\ faults' = faults + 1
    /\ faults' = faults => /\ \A q \in Request : step'[q] = "undoing" => step[q] = "undoing"
                           /\ "nginx.conf" \in skipped' => "nginx.conf" \in skipped
                           /\ lost' = lost
    /\ \/ \A q \in Request : step'[q] = "undoing" => step[q] = "undoing"
       \/ faults' = faults + 1 /\ UNCHANGED <<skipped, lost>>

\* Every step counts what fails.
LEMMA Counted == Inv /\ [Next]_vars => Counts
<1>. SUFFICES ASSUME Inv, [Next]_vars PROVE Counts
  OBVIOUS
<1>0. faults \in Nat /\ MaxFaults \in Nat
  BY DEF Inv, TypeOK, Service!TypeOK
<1>1. ASSUME NEW r \in Request, Get(r) \/ Handle(r) PROVE Counts
  <2>1. /\ UNCHANGED <<faults, skipped, lost>>
        /\ \A q \in Request : step'[q] = "undoing" => step[q] = "undoing"
    BY ZenonT(60), <1>1 DEF Get, Handle, Verify, Conflict, StorePort, ReadOriginal, Update, Busy, Send, Commit,
       Finish, RestorePort, Unheard, Return, HangUp, Inv, TypeOK
  <2>. QED BY <1>0, <2>1 DEF Counts
<1>2. ASSUME NEW r \in Request, Serve(r) PROVE Counts
  <2>1. UNCHANGED <<faults, step, lost>> /\ ("nginx.conf" \in skipped' => "nginx.conf" \in skipped)
    BY <1>2 DEF Serve, Service!Serve, Service!ReadVhost, Service!ReadGlobal, Service!TruncateGlobal,
       Service!PatchGlobal, Service!WriteVhost, Service!Test, Service!Reload, Service!RestoreVhost,
       Service!RestoreGlobal, Service!ReloadRestored
  <2>. QED BY <1>0, <2>1 DEF Counts
<1>3. ASSUME NEW r \in Request, ReadFails(r) PROVE Counts
  <2>1. step' = [step EXCEPT ![r] = "idle"] /\ UNCHANGED <<skipped, lost>>
    BY <1>3 DEF ReadFails, Return
  <2>2. \/ faults' = faults
        \/ /\ faults < MaxFaults
           /\ faults' = faults + 1
    BY <1>3 DEF ReadFails, Fail, MayFail
  <2>. QED BY <1>0, <2>1, <2>2 DEF Counts, Inv, TypeOK
<1>4. ASSUME NEW r \in Request, CommitFails(r) PROVE Counts
  BY <1>0, <1>4 DEF CommitFails, Fail, MayFail, Counts
<1>5. ASSUME ServiceFails PROVE Counts
  <2>1. faults < MaxFaults /\ faults' = faults + 1 /\ step' = step
    BY <1>5 DEF ServiceFails, Service!Failure, Service!PatchGlobalFails, Service!WriteVhostFails,
       Service!CommandFails, Service!RestoreVhostFails, Service!RestoreGlobalUnopened,
       Service!RestoreGlobalFails, Service!ReloadRestoredFails, Service!Crash, Service!Fail,
       Service!MayFail
  <2>. QED BY <1>0, <2>1 DEF Counts
<1>6. ASSUME HelperCrash PROVE Counts
  BY <1>0, <1>6 DEF HelperCrash, Fail, MayFail, Counts
<1>7. ASSUME Tick \/ UNCHANGED vars PROVE Counts
  BY <1>0, <1>7 DEF Tick, vars, Counts
<1>. QED BY <1>1, <1>2, <1>3, <1>4, <1>5, <1>6, <1>7 DEF Next

\* Every step keeps Spotless
LEMMA SpotlessStep == Inv /\ Spotless /\ [Next]_vars => Spotless'
  BY Counted DEF Counts, Spotless

\* and RowInv.
LEMMA RowStep ==
    Conflictless /\ MaxFaults <= 1 /\ Inv /\ CommitInv /\ ConfInv /\ Spotless /\ RowInv /\ [Next]_vars
      => RowInv'
<1> SUFFICES ASSUME Conflictless, MaxFaults <= 1, Inv, CommitInv, ConfInv, Spotless, RowInv, [Next]_vars
             PROVE  RowInv'
  OBVIOUS
<1>1. ASSUME NEW r \in Request, Get(r) PROVE RowInv'
  BY <1>1, GetRow
<1>2. ASSUME NEW r \in Request, Handle(r) PROVE RowInv'
  BY <1>2, VerifyRow, ConflictRow, StorePortRow, ReadOriginalRow, UpdateRow, BusyRow, SendRow,
     CommitRow, FinishRow, RestorePortRow, UnheardRow DEF Handle
<1>3. ASSUME NEW r \in Request, Serve(r) PROVE RowInv'
  <2>1. UNCHANGED <<Database, step, Locals, now>> /\ lost \subseteq lost'
    BY <1>3 DEF Serve
  <2>. QED BY <1>3, <2>1, ReadVhostRow, ReadGlobalRow, TruncateGlobalRow, PatchGlobalRow, WriteVhostRow,
              TestRow, ReloadRow, RestoreVhostRow, RestoreGlobalRow, ReloadRestoredRow
              DEF Serve, Service!Serve
<1>4. ASSUME NEW r \in Request, ReadFails(r) \/ CommitFails(r) PROVE RowInv'
  BY <1>4, ReadFailsRow, CommitFailsRow
<1>5. ASSUME ServiceFails PROVE RowInv'
  <2>1. UNCHANGED <<Database, step, Locals, now>> /\ lost \subseteq lost'
    BY <1>5 DEF ServiceFails
  <2>2. ASSUME NEW r \in Request, Service!Failure(r) PROVE RowInv'
    BY <2>1, <2>2, PatchGlobalFailsRow, WriteVhostFailsRow, CommandFailsRow,
       RestoreVhostFailsRow, RestoreGlobalUnopenedRow, RestoreGlobalFailsRow,
       ReloadRestoredFailsRow DEF Service!Failure
  <2>. QED BY <1>5, <2>1, <2>2, CrashRow DEF ServiceFails
<1>. QED BY <1>1, <1>2, <1>3, <1>4, <1>5, HelperCrashRow, TickRow DEF Next

LEMMA InitRow == Init => Spotless /\ RowInv
<1> SUFFICES ASSUME Init PROVE Spotless /\ RowInv
  OBVIOUS
<1>1. lost = {} /\ skipped = {} /\ \A r \in Request : step[r] = "idle" /\ ask[r] = None
  BY DEF Init, Service!Init
<1>2. ASSUME NEW d \in Domain PROVE Same(committed[d], site[d])
  BY DEF Init, Service!Init, Same, Fresh
<1>3. Spotless
  BY <1>1 DEF Spotless
<1>4. \A r \in Request : Stores(r)
  BY <1>1 DEF Stores
<1>. QED BY <1>2, <1>3, <1>4 DEF RowInv

-----------------------------------------------------------------------------
\* Where neither process dies and the files of Nginx can be written nothing is left
\* half-way.
LEMMA NothingLost ==
    ASSUME "crash" \notin Faults, "restart" \notin Faults, "write" \notin Faults
    PROVE  Spec => [](lost = {} /\ torn = {})
<1>1. Init => lost = {} /\ torn = {}
  BY DEF Init, Service!Init
<1>2. ASSUME lost = {} /\ torn = {}, [Next]_vars PROVE lost' = {} /\ torn' = {}
  <2>1. ASSUME NEW r \in Request, Get(r) \/ Handle(r) \/ ReadFails(r) \/ CommitFails(r)
        PROVE  lost' = {} /\ torn' = {}
    BY <1>2, <2>1 DEF Get, Handle, Verify, Conflict, StorePort, ReadOriginal, Update, Busy, Send, Commit,
       Finish, RestorePort, Unheard, ReadFails, CommitFails
  <2>2. ASSUME NEW r \in Request, Serve(r) PROVE lost' = {} /\ torn' = {}
    BY <1>2, <2>2 DEF Serve, Service!Serve, Service!ReadVhost, Service!ReadGlobal, Service!TruncateGlobal,
       Service!PatchGlobal, Service!WriteVhost, Service!Test, Service!Reload, Service!RestoreVhost,
       Service!RestoreGlobal, Service!ReloadRestored
  <2>3. CASE ServiceFails
    <3>1. ~Service!Crash
      BY DEF Service!Crash, Service!Fail, Service!MayFail
    <3>2. torn' = {}
      BY <1>2, <2>3, <3>1 DEF ServiceFails, Service!Failure, Service!PatchGlobalFails,
         Service!WriteVhostFails, Service!CommandFails, Service!RestoreVhostFails,
         Service!RestoreGlobalUnopened, Service!RestoreGlobalFails,
         Service!ReloadRestoredFails, Service!Fail, Service!MayFail
    <3>. QED BY <1>2, <2>3, <3>2 DEF ServiceFails
  <2>4. ~HelperCrash
    BY DEF HelperCrash, Fail, MayFail
  <2>5. CASE Tick \/ UNCHANGED vars
    BY <1>2, <2>5 DEF Tick, vars
  <2>. QED BY <1>2, <2>1, <2>2, <2>3, <2>4, <2>5 DEF Next
<1>3. (lost = {} /\ torn = {}) /\ [Next]_vars => (lost = {} /\ torn = {})'
  BY <1>2
<1>. QED BY <1>1, <1>3, PTL DEF Spec

\* RowInv is an invariant where one thing fails.
LEMMA RowHolds ==
    ASSUME Conflictless, MaxFaults <= 1
    PROVE  Spec => [](Inv /\ CommitInv /\ ConfInv /\ Spotless /\ RowInv)
<1>1. Inv /\ CommitInv /\ ConfInv /\ Spotless /\ RowInv /\ [Next]_vars => Spotless' /\ RowInv'
  BY RowStep, SpotlessStep
<1>. QED BY <1>1, InitRow, ConfHolds, PTL DEF Spec

\* The vhost of a site for whose row nobody waits shows what the row has.
LEMMA RowsShown ==
    ASSUME Inv, CommitInv, RowInv, NEW d \in Domain \ lost,
           \A q \in Request : step[q] \in Asked /\ ask[q].op \in Stored => ask[q].domain # d
    PROVE  Same(vhost[d], site[d])
<1>1. ~Waiting(d)
  BY DEF Waiting
<1>2. Same(committed[d], site[d])
  BY <1>1 DEF RowInv
<1>3. CASE \A c \in Request : pc[c] \in Rewriting => job[c].domain # d
  BY <1>2, <1>3 DEF CommitInv, Settled
<1>4. ASSUME NEW c \in Request, pc[c] \in Rewriting, job[c].domain = d
      PROVE  Same(vhost[d], site[d])
  <2>1. step[c] \in Asked /\ ask[c].domain = d /\ ask[c] # None
    BY <1>4 DEF CommitInv, Tracked, Waited, Rewriting, Answered, Inv, TypeOK, Working, Asked
  <2>2. ask[c].op \notin Stored /\ step[c] = "committing"
    BY <2>1 DEF Inv, Working, Asked
  <2>3. vhost[d] = PatchedVhost(c)
    BY <1>4, <2>1, <2>2 DEF CommitInv, Tracked, Sent, Replacing, Rewriting, Answered
  <2>4. Same(PatchedVhost(c), original[c])
    BY <2>2, Patches DEF Same, Stored
  <2>. QED BY <2>1, <2>2, <2>3, <2>4 DEF RowInv, Stores, Same
<1>. QED BY <1>3, <1>4

\* The row r is to change has r holding the lock: all the others are shown.
LEMMA OthersShown ==
    ASSUME Inv, CommitInv, RowInv, NEW r \in Request, step[r] \in Asked, ask[r].op \in Stored,
           NEW d \in Domain \ lost, d # ask[r].domain
    PROVE  Same(vhost[d], site[d])
<1>1. \A q \in Request : step[q] \in Asked /\ ask[q].op \in Stored => q = r
  BY DEF Inv, Working
<1>. QED BY <1>1, RowsShown

\* The variables of WriteThrough.
Shown == [d \in Domain |-> SettingsOf(vhost[d])]

InRow == [d \in Domain |-> SettingsOf(site[d])]

LEMMA Alike ==
    ASSUME NEW v, NEW w, Same(v, w) PROVE SettingsOf(v) = SettingsOf(w)
BY DEF Same, SettingsOf

\* The step leaves rows and vhosts as they are.
Silent == \A d \in Domain : Same(vhost'[d], vhost[d]) /\ Same(site'[d], site[d])

\* Such a step is none of WriteThrough's.
LEMMA SilentStutters == Silent => UNCHANGED <<InRow, Shown>>
  BY Alike DEF Silent, InRow, Shown

\* A vhost is written to show a change, or to take it back,
LEMMA WriteVhostShows ==
    ASSUME Conflictless, Inv, CommitInv, RowInv, lost = {}, NEW r \in Request, Service!WriteVhost(r),
           UNCHANGED <<Database, step, Locals, now>>
    PROVE  Silent \/ Implements!Show(ask[r].domain) \/ Implements!Undo
<1>1. /\ pc[r] \in {"read", "patched"} /\ pc[r] \notin Answered \cup {"received"} \cup Rewriting
      /\ UNCHANGED site
      /\ job[r].domain \in Domain
      /\ vhost' = [vhost EXCEPT ![job[r].domain] = job[r].content]
      /\ vhost \in [Domain -> Vhost]
  BY Job DEF Service!WriteVhost, Database, Answered, Rewriting, Inv, TypeOK, Service!TypeOK
<1>2. step[r] \in Asked /\ job[r].domain = ask[r].domain /\ Sent(r) /\ ask[r] # None /\ ask[r].domain \in Domain
  BY <1>1 DEF CommitInv, Tracked, Waited, Asked, Inv, TypeOK, Working
<1>3. job[r].content \in Vhost
  BY <1>1, Job
<1>4. CASE ask[r].op \notin Stored
  <2>1. step[r] = "committing" /\ job[r].content = PatchedVhost(r)
    BY <1>1, <1>2, <1>4 DEF Inv, Working, Asked, Sent
  <2>2. Same(PatchedVhost(r), original[r])
    BY <1>4, <2>1, Patches DEF Same, Stored
  <2>3. Same(original[r], site[ask[r].domain])
    BY <1>2, <2>1 DEF RowInv, Stores
  <2>4. ASSUME NEW q \in Request, step[q] \in Asked, ask[q].op \in Stored PROVE ask[q].domain # ask[r].domain
    <3>1. q # r /\ Running(q) /\ Running(r)
      BY <1>2, <1>4, <2>4 DEF Running, Asked
    <3>. QED BY <3>1 DEF CommitInv, Apart
  <2>5. Same(vhost[ask[r].domain], site[ask[r].domain])
    BY <1>2, <2>4, RowsShown
  <2>6. ASSUME NEW d \in Domain PROVE Same(vhost'[d], vhost[d]) /\ Same(site'[d], site[d])
    BY <1>1, <1>2, <2>1, <2>2, <2>3, <2>5 DEF Same
  <2>. QED BY <2>6 DEF Silent
<1>5. CASE ask[r].op \in Stored /\ step[r] = "committing"
  <2>1. Same(vhost[ask[r].domain], site[ask[r].domain])
    <3>1. \A c \in Request : pc[c] \in Rewriting => job[c].domain # ask[r].domain
      BY <1>1, <1>2, NobodyElse DEF Rewriting, Answered, Running, Asked
    <3>2. vhost[ask[r].domain] = committed[ask[r].domain]
      BY <1>2, <3>1 DEF CommitInv, Settled
    <3>3. committed[ask[r].domain] = original[r]
      BY <1>1, <1>2, <1>5 DEF CommitInv, Tracked, Based
    <3>. QED BY <1>2, <1>5, <3>2, <3>3 DEF RowInv, Stores
  <2>2. ASSUME NEW d \in Domain PROVE SettingsOf(site[d]) = SettingsOf(vhost[d])
    <3>1. Same(vhost[d], site[d])
      BY <1>2, <1>5, <2>1, OthersShown
    <3>. QED BY <3>1, Alike
  <2>3. SettingsOf(job[r].content) \in Settings
    BY <1>3 DEF SettingsOf, Settings, Vhost
  <2>4. [d \in Domain |-> SettingsOf(vhost'[d])] =
          [[d \in Domain |-> SettingsOf(vhost[d])] EXCEPT ![ask[r].domain] = SettingsOf(job[r].content)]
    BY <1>1, <1>2
  <2>5. [d \in Domain |-> SettingsOf(site[d])] = [d \in Domain |-> SettingsOf(vhost[d])]
    BY <2>2
  <2>6. [d \in Domain |-> SettingsOf(site'[d])] = [d \in Domain |-> SettingsOf(site[d])]
    BY <1>1
  <2>7. Implements!Show(ask[r].domain)
    BY <2>3, <2>4, <2>5, <2>6 DEF Implements!Show
  <2>. QED BY <2>7
<1>6. CASE ask[r].op \in Stored /\ step[r] = "undoing"
  <2>1. Same(job[r].content, site[ask[r].domain])
    BY <1>1, <1>2, <1>6 DEF Sent, RowInv, Stores
  <2>2. ASSUME NEW d \in Domain PROVE Same(vhost'[d], site[d])
    BY <1>1, <1>2, <1>6, <2>1, OthersShown
  <2>. QED BY <1>1, <2>2, Alike DEF Implements!Undo
<1>. QED BY <1>2, <1>4, <1>5, <1>6 DEF Asked

\* put back by the service to undo it,
LEMMA RestoreVhostUndoes ==
    ASSUME Conflictless, Inv, CommitInv, RowInv, lost = {}, NEW r \in Request, Service!RestoreVhost(r),
           UNCHANGED <<Database, step, Locals, now>>
    PROVE  Silent \/ Implements!Undo
<1>1. /\ pc[r] = "failed" /\ pc[r] \notin Answered \cup {"received"} /\ pc[r] \in Rewriting
      /\ UNCHANGED site
      /\ job[r].domain \in Domain
      /\ vhost' = [vhost EXCEPT ![job[r].domain] = before[r]]
      /\ vhost \in [Domain -> Vhost]
  BY Job DEF Service!RestoreVhost, Database, Answered, Rewriting, Inv, TypeOK, Service!TypeOK
<1>2. step[r] \in Asked /\ job[r].domain = ask[r].domain /\ ask[r] # None /\ ask[r].domain \in Domain
  BY <1>1 DEF CommitInv, Tracked, Waited, Asked, Inv, TypeOK, Working
<1>3. step[r] = "committing"
  BY <1>1, <1>2 DEF Asked, RowInv, Stores
<1>4. before[r] = original[r]
  BY <1>1, <1>2, <1>3 DEF CommitInv, Tracked, Replacing, Based
<1>5. Same(original[r], site[ask[r].domain])
  BY <1>2, <1>3 DEF RowInv, Stores
<1>6. CASE ask[r].op \notin Stored
  <2>1. vhost[ask[r].domain] = PatchedVhost(r)
    BY <1>1, <1>2, <1>3 DEF CommitInv, Tracked, Replacing, Sent
  <2>2. Same(PatchedVhost(r), original[r])
    BY <1>3, <1>6, Patches DEF Same, Stored
  <2>3. \A d \in Domain : Same(vhost'[d], vhost[d]) /\ Same(site'[d], site[d])
    BY <1>1, <1>2, <1>4, <2>1, <2>2 DEF Same
  <2>. QED BY <2>3 DEF Silent
<1>7. CASE ask[r].op \in Stored
  <2>1. ASSUME NEW d \in Domain PROVE Same(vhost'[d], site[d])
    BY <1>1, <1>2, <1>4, <1>5, <1>7, OthersShown
  <2>. QED BY <1>1, <2>1, Alike DEF Implements!Undo
<1>. QED BY <1>6, <1>7

\* and the commit keeps it.
LEMMA CommitKeeps ==
    ASSUME Inv, CommitInv, RowInv, lost = {}, NEW r \in Request, Commit(r)
    PROVE  Implements!Keep
<1>1. /\ step[r] = "committing" /\ pc[r] = "ok" /\ ask[r].op \in Stored /\ ask[r].domain \in Domain
      /\ ask[r] # None
      /\ site' = [site EXCEPT ![ask[r].domain] = pending[r]] /\ UNCHANGED vhost /\ site \in [Domain -> Row]
  BY Question DEF Commit, Rest, Inv, TypeOK
<1>2. Same(vhost[ask[r].domain], pending[r])
  <2>1. \A c \in Request : pc[c] \in Rewriting => job[c].domain # ask[r].domain
    BY <1>1, NobodyElse DEF Rewriting, Answered, Running
  <2>2. vhost[ask[r].domain] = PatchedVhost(r)
    BY <1>1, <2>1 DEF CommitInv, Settled, Tracked, Based
  <2>. QED BY <1>1, <2>2 DEF RowInv, Stores, Asked
<1>3. ASSUME NEW d \in Domain PROVE Same(vhost[d], site'[d])
  BY <1>1, <1>2, OthersShown DEF Asked
<1>. QED BY <1>1, <1>3, Alike DEF Implements!Keep

\* Every step of a request or of the service is one of WriteThrough's or none.
LEMMA StepWritesThrough ==
    ASSUME Conflictless, Inv, CommitInv, RowInv, lost = {}, [Next]_vars
    PROVE  [Implements!Next]_<<InRow, Shown>>
<1>1. ASSUME Silent PROVE [Implements!Next]_<<InRow, Shown>>
  BY <1>1, SilentStutters
<1>2. site \in [Domain -> Row]
  BY DEF Inv, TypeOK
<1>3. ASSUME UNCHANGED <<site, vhost>> PROVE Silent
  BY <1>3 DEF Silent, Same
<1>4. ASSUME NEW r \in Request, Get(r) \/ ReadFails(r) \/ CommitFails(r) PROVE Silent
  BY <1>3, <1>4 DEF Get, ReadFails, CommitFails, Database, serviceVars, Rest
<1>5. ASSUME NEW r \in Request, StorePort(r) PROVE Silent
  <2>1. UNCHANGED vhost /\ site' = [site EXCEPT ![ask[r].domain].port = change[r], ![ask[r].domain].at = now]
    BY <1>5 DEF StorePort, serviceVars
  <2>2. \A d \in Domain : Same(site'[d], site[d])
    BY <1>2, <2>1 DEF Same, Row
  <2>. QED BY <2>1, <2>2 DEF Silent, Same
<1>6. ASSUME NEW r \in Request, RestorePort(r) PROVE Silent
  <2>1. UNCHANGED vhost
    BY <1>6 DEF RestorePort, Rest
  <2>2. CASE UNCHANGED site
    BY <1>3, <2>1, <2>2
  <2>3. CASE site' = [site EXCEPT ![ask[r].domain].port = pending[r].port]
    <3>1. \A d \in Domain : Same(site'[d], site[d])
      BY <1>2, <2>3 DEF Same, Row
    <3>. QED BY <2>1, <3>1 DEF Silent, Same
  <2>. QED BY <1>6, <2>2, <2>3 DEF RestorePort
<1>7. ASSUME NEW r \in Request, Handle(r), ~Commit(r) PROVE Silent
  <2>1. CASE StorePort(r) \/ RestorePort(r)
    BY <1>5, <1>6, <2>1
  <2>2. CASE ~(StorePort(r) \/ RestorePort(r))
    BY <1>3, <1>7, <2>2 DEF Handle, Verify, Conflict, ReadOriginal, Update, Busy, Send, Finish, Unheard,
       Database, serviceVars, Rest
  <2>. QED BY <2>1, <2>2
<1>8. ASSUME NEW r \in Request, Commit(r) PROVE Implements!Next
  BY <1>8, CommitKeeps DEF Implements!Next
<1>9. ASSUME NEW r \in Request, Serve(r) PROVE Silent \/ Implements!Next
  <2>1. UNCHANGED <<Database, step, Locals, now>> /\ Service!Serve(r)
    BY <1>9 DEF Serve
  <2>2. CASE Service!WriteVhost(r)
    <3>1. Silent \/ Implements!Show(ask[r].domain) \/ Implements!Undo
      BY <2>1, <2>2, WriteVhostShows
    <3>2. Silent \/ ask[r].domain \in Domain
      BY <2>1, <2>2, Job DEF Service!WriteVhost, CommitInv, Tracked, Waited, Answered
    <3>. QED BY <3>1, <3>2 DEF Implements!Next
  <2>3. CASE Service!RestoreVhost(r)
    BY <2>1, <2>3, RestoreVhostUndoes DEF Implements!Next
  <2>4. CASE ~Service!WriteVhost(r) /\ ~Service!RestoreVhost(r)
    <3>1. UNCHANGED vhost
      BY <2>1, <2>4 DEF Service!Serve, Service!ReadVhost, Service!ReadGlobal, Service!TruncateGlobal,
         Service!PatchGlobal, Service!Test, Service!Reload, Service!RestoreGlobal,
         Service!ReloadRestored, Service!Files
    <3>. QED BY <1>3, <2>1, <3>1 DEF Database
  <2>. QED BY <2>2, <2>3, <2>4
<1>10. ASSUME ServiceFails PROVE Silent
  <2>1. UNCHANGED <<site, vhost>>
    BY <1>10 DEF ServiceFails, Database, Service!Failure, Service!PatchGlobalFails,
       Service!WriteVhostFails, Service!CommandFails, Service!RestoreVhostFails,
       Service!RestoreGlobalUnopened, Service!RestoreGlobalFails, Service!ReloadRestoredFails,
       Service!Crash, Service!Files
  <2>. QED BY <1>3, <2>1
<1>11. ASSUME HelperCrash \/ Tick \/ UNCHANGED vars PROVE Silent
  BY <1>3, <1>11 DEF HelperCrash, Tick, vars, Rest, serviceVars, Database
<1>. QED BY <1>1, <1>4, <1>7, <1>8, <1>9, <1>10, <1>11 DEF Next

\* mutateSite writes through: with one failure, of a command, a commit or a read, a
\* vhost is changed only to have its row committed or to be put back, and no other
\* vhost is changed until then.
THEOREM WritesThroughHolds ==
    Conflictless /\ MaxFaults <= 1 /\ Faults \cap {"crash", "restart", "write"} = {}
      => (Spec => WritesThrough)
<1>1. ASSUME Init PROVE Implements!Init
  <2>1. \A d \in Domain : SettingsOf(site[d]) = SettingsOf(vhost[d]) /\ SettingsOf(vhost[d]) \in Settings
    BY <1>1, SiteSettingsAssumption DEF Init, Service!Init, SettingsOf, Settings, Fresh
  <2>. QED BY <2>1 DEF Implements!Init
<1>2. ASSUME Conflictless, MaxFaults <= 1, Faults \cap {"crash", "restart", "write"} = {}
      PROVE  Spec => WritesThrough
  <2>1. Inv /\ CommitInv /\ RowInv /\ lost = {} /\ [Next]_vars
          => [Implements!Next]_<<InRow, Shown>>
    BY <1>2, StepWritesThrough
  <2>2. Inv /\ CommitInv /\ RowInv /\ lost = {} /\ [Next]_vars
          => [Implements!Next]_Implements!vars
    BY <2>1 DEF InRow, Shown, Implements!vars
  <2>3. Spec => [](Inv /\ CommitInv /\ ConfInv /\ Spotless /\ RowInv)
    BY <1>2, RowHolds
  <2>4. Spec => [](lost = {} /\ torn = {})
    BY <1>2, NothingLost
  <2>. QED BY <1>1, <2>2, <2>3, <2>4, PTL DEF Spec, WritesThrough, Implements!Spec
<1>. QED BY <1>2

-----------------------------------------------------------------------------
\* Who has stored a port still owes the vhost, or the old port.
Owes(r) == /\ step[r] \in Begun /\ ask[r].op = "port"
           /\ ~(step[r] = "committing" /\ pc[r] = "ok")

\* The port is remembered before it is replaced; then the new one is in the row, the
\* old one still in effect; a transaction commits the port that the row has.
Ports(r) == ask[r] # None /\ ask[r].domain \notin lost =>
    /\ step[r] = "verified" /\ ask[r].op = "port" => pending[r].port = site[ask[r].domain].port
    /\ step[r] \in {"stored", "patched", "committing"} /\ ask[r].op = "port" =>
         site[ask[r].domain].port = change[r]
    /\ Owes(r) => committed[ask[r].domain].port = pending[r].port
    /\ step[r] \in Asked /\ ask[r].op \in Stored => pending[r].port = site[ask[r].domain].port

\* One request runs at a time; a row has the port in effect, but for the one a
\* request still owes.
PortInv == /\ \A q, r \in Request : Running(q) /\ Running(r) => q = r
           /\ \A r \in Request : Ports(r)
           /\ \A d \in Domain \ lost : \/ \E r \in Request : Owes(r) /\ ask[r].domain = d
                                       \/ committed[d].port = site[d].port

\* A step of the helper for r that leaves the ports alone.
LEMMA PortKept ==
    ASSUME Inv, PortInv, NEW r \in Request, UNCHANGED <<committed, lost>>,
           \A q \in Request \ {r} : UNCHANGED My(q),
           \A d \in Domain \ lost : site'[d].port = site[d].port \/ (Owes(r) /\ ask[r].domain = d),
           Ports(r)',
           Owes(r) /\ ask[r].domain \notin lost =>
             \/ Owes(r)' /\ ask'[r] = ask[r]
             \/ committed[ask[r].domain].port = site'[ask[r].domain].port,
           Running(r)' => Running(r)
    PROVE  PortInv'
<1>1. ASSUME NEW q \in Request PROVE Ports(q)'
  <2>1. CASE q # r
    <3>1. UNCHANGED <<step[q], ask[q], change[q], pending[q], pc[q]>> /\ Ports(q)
      BY <2>1 DEF My, PortInv
    <3>2. ask[q] # None => ask[q].domain \in Domain
      BY DEF Inv, TypeOK, Ask
    <3>3. step[q] \in {"verified", "stored", "patched", "committing"} \cup Asked => Running(q)
      BY DEF Running, Asked
    <3>4. Running(q) => ~Owes(r)
      BY <2>1 DEF PortInv, Owes, Running, Begun
    <3>. QED BY <3>1, <3>2, <3>3, <3>4 DEF Ports, Owes
  <2>. QED BY <2>1
<1>2. ASSUME NEW d \in Domain \ lost
      PROVE  \/ \E q \in Request : Owes(q)' /\ ask'[q].domain = d
             \/ committed[d].port = site'[d].port
  <2>1. CASE \E q \in Request : Owes(q) /\ ask[q].domain = d
    <3>1. PICK q \in Request : Owes(q) /\ ask[q].domain = d
      BY <2>1
    <3>2. CASE q # r
      BY <3>1, <3>2 DEF Owes, My
    <3>3. CASE q = r
      BY <3>1, <3>3
    <3>. QED BY <3>2, <3>3
  <2>2. CASE committed[d].port = site[d].port /\ site'[d].port = site[d].port
    BY <2>2
  <2>. QED BY <2>1, <2>2 DEF PortInv
<1>3. \A p, q \in Request : Running(p)' /\ Running(q)' => p = q
  BY DEF PortInv, Running, My
<1>. QED BY <1>1, <1>2, <1>3 DEF PortInv

\* A step of the service that changes no site.
LEMMA ServicePort ==
    ASSUME Inv, PortInv, NEW r \in Request,
           UNCHANGED <<Database, step, Locals, now, committed>>, lost \subseteq lost',
           \A q \in Request \ {r} : pc'[q] = pc[q],
           pc[r] # "ok", pc'[r] # "ok"
    PROVE  PortInv'
<1>1. ASSUME NEW q \in Request PROVE Owes(q)' <=> Owes(q)
  BY DEF Owes
<1>2. \A q \in Request : Ports(q)'
  BY <1>1 DEF PortInv, Ports
<1>3. \A p, q \in Request : Running(p)' /\ Running(q)' => p = q
  BY DEF PortInv, Running
<1>. QED BY <1>1, <1>2, <1>3 DEF PortInv

\* Each action keeps PortInv: the helper's,
LEMMA GetPort ==
    ASSUME Inv, CommitInv, PortInv, NEW r \in Request, Get(r) PROVE PortInv'
<1>1. /\ UNCHANGED <<committed, lost>>
      /\ \A q \in Request \ {r} : UNCHANGED My(q)
      /\ \A d \in Domain \ lost : site'[d].port = site[d].port \/ (Owes(r) /\ ask[r].domain = d)
  BY DEF Get, My, Inv, TypeOK, Service!TypeOK
<1>2. Ports(r)'
  BY DEF Get, PortInv, Ports, Owes, Begun, Asked, Inv, TypeOK, Service!TypeOK, Working
<1>3. Owes(r) /\ ask[r].domain \notin lost => \/ Owes(r)' /\ ask'[r] = ask[r]
                                            \/ committed[ask[r].domain].port = site'[ask[r].domain].port
  BY DEF Get, Owes, Begun, Asked, Stored, Inv, TypeOK, Service!TypeOK, Working
<1>4. Running(r)' => Running(r)
  BY DEF Get, Running, Inv, TypeOK, Service!TypeOK
<1>. QED BY <1>1, <1>2, <1>3, <1>4, PortKept

LEMMA ConflictPort ==
    ASSUME Inv, CommitInv, PortInv, NEW r \in Request, Conflict(r) PROVE PortInv'
<1>1. /\ UNCHANGED <<committed, lost>>
      /\ \A q \in Request \ {r} : UNCHANGED My(q)
      /\ \A d \in Domain \ lost : site'[d].port = site[d].port \/ (Owes(r) /\ ask[r].domain = d)
  BY DEF Conflict, My, Inv, TypeOK, Service!TypeOK, Return
<1>2. Ports(r)'
  BY DEF Conflict, PortInv, Ports, Owes, Begun, Asked, Inv, TypeOK, Service!TypeOK, Working, Return
<1>3. Owes(r) /\ ask[r].domain \notin lost => \/ Owes(r)' /\ ask'[r] = ask[r]
                                            \/ committed[ask[r].domain].port = site'[ask[r].domain].port
  BY DEF Conflict, Owes, Begun, Asked, Stored, Inv, TypeOK, Service!TypeOK, Working, Return
<1>4. Running(r)' => Running(r)
  BY DEF Conflict, Running, Inv, TypeOK, Service!TypeOK, Return
<1>. QED BY <1>1, <1>2, <1>3, <1>4, PortKept

LEMMA BusyPort ==
    ASSUME Inv, CommitInv, PortInv, NEW r \in Request, Busy(r) PROVE PortInv'
<1>1. /\ UNCHANGED <<committed, lost>>
      /\ \A q \in Request \ {r} : UNCHANGED My(q)
      /\ \A d \in Domain \ lost : site'[d].port = site[d].port \/ (Owes(r) /\ ask[r].domain = d)
  BY DEF Busy, My, Inv, TypeOK, Service!TypeOK, Return
<1>2. Ports(r)'
  BY DEF Busy, PortInv, Ports, Owes, Begun, Asked, Inv, TypeOK, Service!TypeOK, Working, Return
<1>3. Owes(r) /\ ask[r].domain \notin lost => \/ Owes(r)' /\ ask'[r] = ask[r]
                                            \/ committed[ask[r].domain].port = site'[ask[r].domain].port
  BY DEF Busy, Owes, Begun, Asked, Stored, Inv, TypeOK, Service!TypeOK, Working, Return
<1>4. Running(r)' => Running(r)
  BY DEF Busy, Running, Inv, TypeOK, Service!TypeOK, Return
<1>. QED BY <1>1, <1>2, <1>3, <1>4, PortKept

LEMMA FinishPort ==
    ASSUME Inv, CommitInv, PortInv, NEW r \in Request, Finish(r) PROVE PortInv'
<1>1. /\ UNCHANGED <<committed, lost>>
      /\ \A q \in Request \ {r} : UNCHANGED My(q)
      /\ \A d \in Domain \ lost : site'[d].port = site[d].port \/ (Owes(r) /\ ask[r].domain = d)
  BY DEF Finish, My, Inv, TypeOK, Service!TypeOK, HangUp, Return
<1>2. Ports(r)'
  BY DEF Finish, PortInv, Ports, Owes, Begun, Asked, Inv, TypeOK, Service!TypeOK, Working, HangUp, Return
<1>3. Owes(r) /\ ask[r].domain \notin lost => \/ Owes(r)' /\ ask'[r] = ask[r]
                                            \/ committed[ask[r].domain].port = site'[ask[r].domain].port
  BY DEF Finish, Owes, Begun, Asked, Stored, Inv, TypeOK, Service!TypeOK, Working, HangUp, Return
<1>4. Running(r)' => Running(r)
  BY DEF Finish, Running, Inv, TypeOK, Service!TypeOK, HangUp, Return
<1>. QED BY <1>1, <1>2, <1>3, <1>4, PortKept

LEMMA UnheardPort ==
    ASSUME Inv, CommitInv, PortInv, NEW r \in Request, Unheard(r) PROVE PortInv'
<1>1. /\ UNCHANGED <<committed, lost>>
      /\ \A q \in Request \ {r} : UNCHANGED My(q)
      /\ \A d \in Domain \ lost : site'[d].port = site[d].port \/ (Owes(r) /\ ask[r].domain = d)
  BY DEF Unheard, My, Inv, TypeOK, Service!TypeOK, HangUp
<1>2. Ports(r)'
  BY DEF Unheard, PortInv, Ports, Owes, Begun, Asked, Inv, TypeOK, Service!TypeOK, Working, HangUp
<1>3. Owes(r) /\ ask[r].domain \notin lost => \/ Owes(r)' /\ ask'[r] = ask[r]
                                            \/ committed[ask[r].domain].port = site'[ask[r].domain].port
  BY DEF Unheard, Owes, Begun, Asked, Stored, Inv, TypeOK, Service!TypeOK, Working, HangUp
<1>4. Running(r)' => Running(r)
  BY DEF Unheard, Running, Inv, TypeOK, Service!TypeOK, HangUp
<1>. QED BY <1>1, <1>2, <1>3, <1>4, PortKept

LEMMA ReadFailsPort ==
    ASSUME Inv, CommitInv, PortInv, NEW r \in Request, ReadFails(r), "read" \notin Faults PROVE PortInv'
<1>1. /\ UNCHANGED <<committed, lost>>
      /\ \A q \in Request \ {r} : UNCHANGED My(q)
      /\ \A d \in Domain \ lost : site'[d].port = site[d].port \/ (Owes(r) /\ ask[r].domain = d)
  BY DEF ReadFails, My, Inv, TypeOK, Service!TypeOK, ReadsVhost, Fail, MayFail, Return
<1>2. Ports(r)'
  BY DEF ReadFails, PortInv, Ports, Owes, Begun, Asked, Inv, TypeOK, Service!TypeOK, Working, ReadsVhost, Fail, MayFail, Return
<1>3. Owes(r) /\ ask[r].domain \notin lost => \/ Owes(r)' /\ ask'[r] = ask[r]
                                            \/ committed[ask[r].domain].port = site'[ask[r].domain].port
  BY DEF ReadFails, Owes, Begun, Asked, Stored, Inv, TypeOK, Service!TypeOK, Working, ReadsVhost, Fail, MayFail, Return
<1>4. Running(r)' => Running(r)
  BY DEF ReadFails, Running, Inv, TypeOK, Service!TypeOK, ReadsVhost, Fail, MayFail, Return
<1>. QED BY <1>1, <1>2, <1>3, <1>4, PortKept

LEMMA ReadOriginalPort ==
    ASSUME Inv, CommitInv, PortInv, NEW r \in Request, ReadOriginal(r) PROVE PortInv'
<1>1. /\ UNCHANGED <<committed, lost>>
      /\ \A q \in Request \ {r} : UNCHANGED My(q)
      /\ \A d \in Domain \ lost : site'[d].port = site[d].port \/ (Owes(r) /\ ask[r].domain = d)
  BY DEF ReadOriginal, My, Inv, TypeOK, Service!TypeOK, ReadsVhost
<1>2. Ports(r)'
  <2>1. /\ \/ step[r] = "verified" /\ ask[r].op \in Stored
           \/ step[r] = "stored" /\ ask[r].op = "port"
        /\ step'[r] = "patched" /\ UNCHANGED <<ask, change, pending, site, committed, lost>>
    BY DEF ReadOriginal, ReadsVhost, Inv, TypeOK, Working
  <2>2. Owes(r)' => Owes(r)
    BY <2>1 DEF Owes, Begun, Stored
  <2>. QED BY <2>1, <2>2 DEF PortInv, Ports, Stored, Asked
<1>3. Owes(r) /\ ask[r].domain \notin lost => \/ Owes(r)' /\ ask'[r] = ask[r]
                                            \/ committed[ask[r].domain].port = site'[ask[r].domain].port
  BY DEF ReadOriginal, Owes, Begun, Asked, Stored, Inv, TypeOK, Service!TypeOK, Working, ReadsVhost
<1>4. Running(r)' => Running(r)
  BY DEF ReadOriginal, Running, Inv, TypeOK, Service!TypeOK, ReadsVhost
<1>. QED BY <1>1, <1>2, <1>3, <1>4, PortKept

LEMMA UpdatePort ==
    ASSUME Inv, CommitInv, PortInv, NEW r \in Request, Update(r) PROVE PortInv'
<1>1. /\ UNCHANGED <<committed, lost>>
      /\ \A q \in Request \ {r} : UNCHANGED My(q)
      /\ \A d \in Domain \ lost : site'[d].port = site[d].port \/ (Owes(r) /\ ask[r].domain = d)
  BY DEF Update, My, Inv, TypeOK, Service!TypeOK, Call
<1>2. Ports(r)'
  <2>1. /\ step[r] = "patched" /\ ask[r].op \in Stored /\ step'[r] = "committing"
        /\ pending'[r] = NewRow(r) /\ UNCHANGED <<ask, change, site, lost>>
    BY DEF Update, NewRow, Inv, TypeOK
  <2>2. NewRow(r).port = site[ask[r].domain].port
    BY <2>1, RowChanges
  <2>. QED BY <2>1, <2>2 DEF Ports, Owes, Stored
<1>3. Owes(r) /\ ask[r].domain \notin lost => \/ Owes(r)' /\ ask'[r] = ask[r]
                                            \/ committed[ask[r].domain].port = site'[ask[r].domain].port
  BY DEF Update, Owes, Begun, Asked, Stored, Inv, TypeOK, Service!TypeOK, Working, Call
<1>4. Running(r)' => Running(r)
  BY DEF Update, Running, Inv, TypeOK, Service!TypeOK, Call
<1>. QED BY <1>1, <1>2, <1>3, <1>4, PortKept

LEMMA SendPort ==
    ASSUME Inv, CommitInv, PortInv, NEW r \in Request, Send(r) PROVE PortInv'
<1>1. /\ UNCHANGED <<committed, lost>>
      /\ \A q \in Request \ {r} : UNCHANGED My(q)
      /\ \A d \in Domain \ lost : site'[d].port = site[d].port \/ (Owes(r) /\ ask[r].domain = d)
  BY DEF Send, My, Inv, TypeOK, Service!TypeOK, Call
<1>2. Ports(r)'
  BY DEF Send, PortInv, Ports, Owes, Begun, Asked, Inv, TypeOK, Service!TypeOK, Working, Call
<1>3. Owes(r) /\ ask[r].domain \notin lost => \/ Owes(r)' /\ ask'[r] = ask[r]
                                            \/ committed[ask[r].domain].port = site'[ask[r].domain].port
  BY DEF Send, Owes, Begun, Asked, Stored, Inv, TypeOK, Service!TypeOK, Working, Call
<1>4. Running(r)' => Running(r)
  BY DEF Send, Running, Inv, TypeOK, Service!TypeOK, Call
<1>. QED BY <1>1, <1>2, <1>3, <1>4, PortKept

LEMMA CommitFailsPort ==
    ASSUME Inv, CommitInv, PortInv, NEW r \in Request, CommitFails(r) PROVE PortInv'
<1>1. /\ UNCHANGED <<committed, lost>>
      /\ \A q \in Request \ {r} : UNCHANGED My(q)
      /\ \A d \in Domain \ lost : site'[d].port = site[d].port \/ (Owes(r) /\ ask[r].domain = d)
  BY DEF CommitFails, My, Inv, TypeOK, Service!TypeOK, Call, Fail, MayFail
<1>2. Ports(r)'
  <2>1. /\ step[r] = "committing" /\ ask[r].op \in Stored /\ step'[r] = "undoing"
        /\ UNCHANGED <<ask, pending, site, lost>>
    BY DEF CommitFails, Inv, TypeOK
  <2>. QED BY <2>1 DEF PortInv, Ports, Owes, Stored, Asked
<1>3. Owes(r) /\ ask[r].domain \notin lost => \/ Owes(r)' /\ ask'[r] = ask[r]
                                            \/ committed[ask[r].domain].port = site'[ask[r].domain].port
  BY DEF CommitFails, Owes, Begun, Asked, Stored, Inv, TypeOK, Service!TypeOK, Working, Call, Fail, MayFail
<1>4. Running(r)' => Running(r)
  BY DEF CommitFails, Running, Inv, TypeOK, Service!TypeOK, Call, Fail, MayFail
<1>. QED BY <1>1, <1>2, <1>3, <1>4, PortKept

LEMMA VerifyPort ==
    ASSUME Inv, CommitInv, PortInv, NEW r \in Request, Verify(r), MaxRunning <= 1 PROVE PortInv'
<1>1. /\ UNCHANGED <<committed, lost, site, ask, pc>> /\ step[r] = "informed"
      /\ step'[r] \in {"verified", "patched"} /\ (step'[r] = "patched" => ask[r].op = "static")
      /\ ask[r].op = "port" => pending'[r] = site[ask[r].domain]
      /\ \A q \in Request \ {r} : UNCHANGED <<step[q], change[q], pending[q]>>
  BY DEF Verify, Inv, TypeOK, Service!TypeOK
<1>2. ASSUME NEW q \in Request PROVE ~Running(q)
  <2>. DEFINE busy == {p \in Request : Running(p)}
  <2>1. Cardinality(busy) < MaxRunning /\ IsFiniteSet(busy) /\ MaxRunning \in Nat
    BY FS_Subset, SiteSettingsAssumption DEF Verify
  <2>2. Cardinality(busy) \in Nat
    BY <2>1, FS_CardinalityType
  <2>3. Cardinality(busy) = 0
    BY <2>1, <2>2
  <2>4. busy = {}
    BY <2>1, <2>3, FS_EmptySet
  <2>. QED BY <2>4
<1>3. \A q \in Request : ~Owes(q) /\ ~Owes(q)'
  BY <1>1, <1>2 DEF Owes, Begun, Running
<1>4. \A q \in Request : Ports(q)'
  BY <1>1, <1>2, <1>3 DEF Ports, Running, Asked, Stored
<1>5. \A p, q \in Request : Running(p)' /\ Running(q)' => p = q
  BY <1>1, <1>2 DEF Running
<1>. QED BY <1>1, <1>3, <1>4, <1>5 DEF PortInv

LEMMA CommitPort ==
    ASSUME Inv, CommitInv, PortInv, NEW r \in Request, Commit(r) PROVE PortInv'
<1>1. /\ UNCHANGED <<committed, lost>>
      /\ \A q \in Request \ {r} : UNCHANGED My(q)
      /\ \A d \in Domain \ lost : site'[d].port = site[d].port \/ (Owes(r) /\ ask[r].domain = d)
  <2>1. /\ step[r] = "committing" /\ ask[r].op \in Stored /\ ask[r] # None
        /\ site' = [site EXCEPT ![ask[r].domain] = pending[r]]
        /\ site \in [Domain -> Row]
        /\ UNCHANGED <<committed, lost>> /\ \A q \in Request \ {r} : UNCHANGED My(q)
    BY Question DEF Commit, HangUp, Return, My, Inv, TypeOK, Service!TypeOK
  <2>2. ask[r].domain \notin lost => pending[r].port = site[ask[r].domain].port
    BY <2>1 DEF PortInv, Ports, Asked
  <2>. QED BY <2>1, <2>2 DEF Running
<1>2. Ports(r)'
  BY DEF Commit, PortInv, Ports, Owes, Begun, Asked, Inv, TypeOK, Service!TypeOK, Working, HangUp, Return
<1>3. Owes(r) /\ ask[r].domain \notin lost => \/ Owes(r)' /\ ask'[r] = ask[r]
                                            \/ committed[ask[r].domain].port = site'[ask[r].domain].port
  BY DEF Commit, Owes, Begun, Asked, Stored, Inv, TypeOK, Service!TypeOK, Working, HangUp, Return
<1>4. Running(r)' => Running(r)
  BY DEF Commit, Running, Inv, TypeOK, Service!TypeOK, HangUp, Return
<1>. QED BY <1>1, <1>2, <1>3, <1>4, PortKept

LEMMA RestorePortPort ==
    ASSUME Inv, CommitInv, PortInv, NEW r \in Request, RestorePort(r) PROVE PortInv'
<1>1. /\ UNCHANGED <<committed, lost>>
      /\ \A q \in Request \ {r} : UNCHANGED My(q)
      /\ \A d \in Domain \ lost : site'[d].port = site[d].port \/ (Owes(r) /\ ask[r].domain = d)
  <2>1. /\ step[r] = "committing" /\ pc[r] = "error" /\ ask[r].op = "port" /\ step' = [step EXCEPT ![r] = "idle"] /\ ask' = [ask EXCEPT ![r] = None]
        /\ change' = [change EXCEPT ![r] = None] /\ original' = [original EXCEPT ![r] = None]
        /\ pending' = [pending EXCEPT ![r] = None] /\ pc' = [pc EXCEPT ![r] = "idle"]
        /\ UNCHANGED <<committed, lost>> /\ site \in [Domain -> Row]
        /\ \/ site' = [site EXCEPT ![ask[r].domain].port = pending[r].port]
           \/ UNCHANGED site
    BY DEF RestorePort, HangUp, Return, Inv, TypeOK
  <2>2. \A q \in Request \ {r} : UNCHANGED My(q)
    BY <2>1 DEF My, Inv, TypeOK, Service!TypeOK
  <2>3. \A d \in Domain : site'[d].port = site[d].port \/ (Owes(r) /\ ask[r].domain = d)
    BY <2>1 DEF Owes, Begun, Row
  <2>. QED BY <2>1, <2>2, <2>3
<1>2. Ports(r)'
  BY DEF RestorePort, Return, Ports, Inv, TypeOK
<1>3. Owes(r) /\ ask[r].domain \notin lost => \/ Owes(r)' /\ ask'[r] = ask[r]
                                            \/ committed[ask[r].domain].port = site'[ask[r].domain].port
  <2>1. /\ step[r] = "committing" /\ ask[r].op = "port" /\ pc[r] = "error"
        /\ ask[r] # None /\ ask[r].domain \in Domain /\ site \in [Domain -> Row]
    BY Question DEF RestorePort, Inv, TypeOK
  <2>2. writer = None
    BY <2>1 DEF PortInv, Running, Asked, Stored, Inv, TypeOK, Working
  <2>3. site'[ask[r].domain].port = pending[r].port
    BY <2>1, <2>2 DEF RestorePort, Row
  <2>4. Owes(r)
    BY <2>1 DEF Owes, Begun
  <2>. QED BY <2>1, <2>3, <2>4 DEF PortInv, Ports
<1>4. Running(r)' => Running(r)
  BY DEF RestorePort, Running, Inv, TypeOK, Service!TypeOK, HangUp, Return
<1>. QED BY <1>1, <1>2, <1>3, <1>4, PortKept

\* and the service's.
LEMMA ReadVhostPort ==
    ASSUME Inv, PortInv, NEW r \in Request, Service!ReadVhost(r),
           UNCHANGED <<Database, step, Locals, now>>, lost \subseteq lost'
    PROVE  PortInv'
<1>1. /\ UNCHANGED committed /\ \A q \in Request \ {r} : pc'[q] = pc[q]
      /\ pc[r] \notin Answered /\ pc'[r] # "ok"
  BY DEF Service!ReadVhost, Answered, Inv, TypeOK, Service!TypeOK
<1>. QED BY <1>1, ServicePort DEF Answered

LEMMA ReadGlobalPort ==
    ASSUME Inv, PortInv, NEW r \in Request, Service!ReadGlobal(r),
           UNCHANGED <<Database, step, Locals, now>>, lost \subseteq lost'
    PROVE  PortInv'
<1>1. /\ UNCHANGED committed /\ \A q \in Request \ {r} : pc'[q] = pc[q]
      /\ pc[r] \notin Answered /\ pc'[r] # "ok"
  BY DEF Service!ReadGlobal, Answered, Inv, TypeOK, Service!TypeOK, Service!Answer
<1>. QED BY <1>1, ServicePort DEF Answered

LEMMA TruncateGlobalPort ==
    ASSUME Inv, PortInv, NEW r \in Request, Service!TruncateGlobal(r),
           UNCHANGED <<Database, step, Locals, now>>, lost \subseteq lost'
    PROVE  PortInv'
<1>1. /\ UNCHANGED committed /\ \A q \in Request \ {r} : pc'[q] = pc[q]
      /\ pc[r] \notin Answered /\ pc'[r] # "ok"
  BY DEF Service!TruncateGlobal, Answered, Inv, TypeOK, Service!TypeOK
<1>. QED BY <1>1, ServicePort DEF Answered

LEMMA PatchGlobalPort ==
    ASSUME Inv, PortInv, NEW r \in Request, Service!PatchGlobal(r),
           UNCHANGED <<Database, step, Locals, now>>, lost \subseteq lost'
    PROVE  PortInv'
<1>1. /\ UNCHANGED committed /\ \A q \in Request \ {r} : pc'[q] = pc[q]
      /\ pc[r] \notin Answered /\ pc'[r] # "ok"
  BY DEF Service!PatchGlobal, Answered, Inv, TypeOK, Service!TypeOK
<1>. QED BY <1>1, ServicePort DEF Answered

LEMMA WriteVhostPort ==
    ASSUME Inv, PortInv, NEW r \in Request, Service!WriteVhost(r),
           UNCHANGED <<Database, step, Locals, now>>, lost \subseteq lost'
    PROVE  PortInv'
<1>1. /\ UNCHANGED committed /\ \A q \in Request \ {r} : pc'[q] = pc[q]
      /\ pc[r] \notin Answered /\ pc'[r] # "ok"
  BY DEF Service!WriteVhost, Answered, Inv, TypeOK, Service!TypeOK
<1>. QED BY <1>1, ServicePort DEF Answered

LEMMA TestPort ==
    ASSUME Inv, PortInv, NEW r \in Request, Service!Test(r),
           UNCHANGED <<Database, step, Locals, now>>, lost \subseteq lost'
    PROVE  PortInv'
<1>1. /\ UNCHANGED committed /\ \A q \in Request \ {r} : pc'[q] = pc[q]
      /\ pc[r] \notin Answered /\ pc'[r] # "ok"
  BY DEF Service!Test, Answered, Inv, TypeOK, Service!TypeOK
<1>. QED BY <1>1, ServicePort DEF Answered

LEMMA RestoreVhostPort ==
    ASSUME Inv, PortInv, NEW r \in Request, Service!RestoreVhost(r),
           UNCHANGED <<Database, step, Locals, now>>, lost \subseteq lost'
    PROVE  PortInv'
<1>1. /\ UNCHANGED committed /\ \A q \in Request \ {r} : pc'[q] = pc[q]
      /\ pc[r] \notin Answered /\ pc'[r] # "ok"
  BY DEF Service!RestoreVhost, Answered, Inv, TypeOK, Service!TypeOK
<1>. QED BY <1>1, ServicePort DEF Answered

LEMMA RestoreGlobalPort ==
    ASSUME Inv, PortInv, NEW r \in Request, Service!RestoreGlobal(r),
           UNCHANGED <<Database, step, Locals, now>>, lost \subseteq lost'
    PROVE  PortInv'
<1>1. /\ UNCHANGED committed /\ \A q \in Request \ {r} : pc'[q] = pc[q]
      /\ pc[r] \notin Answered /\ pc'[r] # "ok"
  BY DEF Service!RestoreGlobal, Answered, Inv, TypeOK, Service!TypeOK, Service!Answer
<1>. QED BY <1>1, ServicePort DEF Answered

LEMMA ReloadRestoredPort ==
    ASSUME Inv, PortInv, NEW r \in Request, Service!ReloadRestored(r),
           UNCHANGED <<Database, step, Locals, now>>, lost \subseteq lost'
    PROVE  PortInv'
<1>1. /\ UNCHANGED committed /\ \A q \in Request \ {r} : pc'[q] = pc[q]
      /\ pc[r] \notin Answered /\ pc'[r] # "ok"
  BY DEF Service!ReloadRestored, Answered, Inv, TypeOK, Service!TypeOK, Service!Answer, Service!Restored
<1>. QED BY <1>1, ServicePort DEF Answered

LEMMA PatchGlobalFailsPort ==
    ASSUME Inv, PortInv, NEW r \in Request, Service!PatchGlobalFails(r),
           UNCHANGED <<Database, step, Locals, now>>, lost \subseteq lost'
    PROVE  PortInv'
<1>1. /\ UNCHANGED committed /\ \A q \in Request \ {r} : pc'[q] = pc[q]
      /\ pc[r] \notin Answered /\ pc'[r] # "ok"
  BY DEF Service!PatchGlobalFails, Answered, Inv, TypeOK, Service!TypeOK, Service!Answer
<1>. QED BY <1>1, ServicePort DEF Answered

LEMMA WriteVhostFailsPort ==
    ASSUME Inv, PortInv, NEW r \in Request, Service!WriteVhostFails(r),
           UNCHANGED <<Database, step, Locals, now>>, lost \subseteq lost'
    PROVE  PortInv'
<1>1. /\ UNCHANGED committed /\ \A q \in Request \ {r} : pc'[q] = pc[q]
      /\ pc[r] \notin Answered /\ pc'[r] # "ok"
  BY DEF Service!WriteVhostFails, Answered, Inv, TypeOK, Service!TypeOK, Service!Answer
<1>. QED BY <1>1, ServicePort DEF Answered

LEMMA CommandFailsPort ==
    ASSUME Inv, PortInv, NEW r \in Request, Service!CommandFails(r),
           UNCHANGED <<Database, step, Locals, now>>, lost \subseteq lost'
    PROVE  PortInv'
<1>1. /\ UNCHANGED committed /\ \A q \in Request \ {r} : pc'[q] = pc[q]
      /\ pc[r] \notin Answered /\ pc'[r] # "ok"
  BY DEF Service!CommandFails, Answered, Inv, TypeOK, Service!TypeOK
<1>. QED BY <1>1, ServicePort DEF Answered

LEMMA ReloadRestoredFailsPort ==
    ASSUME Inv, PortInv, NEW r \in Request, Service!ReloadRestoredFails(r),
           UNCHANGED <<Database, step, Locals, now>>, lost \subseteq lost'
    PROVE  PortInv'
<1>1. /\ UNCHANGED committed /\ \A q \in Request \ {r} : pc'[q] = pc[q]
      /\ pc[r] \notin Answered /\ pc'[r] # "ok"
  BY DEF Service!ReloadRestoredFails, Answered, Inv, TypeOK, Service!TypeOK, Service!Answer, Service!Restored
<1>. QED BY <1>1, ServicePort DEF Answered

LEMMA RestoreVhostFailsPort ==
    ASSUME Inv, PortInv, NEW r \in Request, Service!RestoreVhostFails(r),
           UNCHANGED <<Database, step, Locals, now>>, lost \subseteq lost'
    PROVE  PortInv'
<1>1. /\ UNCHANGED committed /\ \A q \in Request \ {r} : pc'[q] = pc[q]
      /\ pc[r] \notin Answered /\ pc'[r] # "ok"
  BY DEF Service!RestoreVhostFails, Answered, Inv, TypeOK, Service!TypeOK, Service!CutShort
<1>. QED BY <1>1, ServicePort DEF Answered

LEMMA RestoreGlobalUnopenedPort ==
    ASSUME Inv, PortInv, NEW r \in Request, Service!RestoreGlobalUnopened(r),
           UNCHANGED <<Database, step, Locals, now>>, lost \subseteq lost'
    PROVE  PortInv'
<1>1. /\ UNCHANGED committed /\ \A q \in Request \ {r} : pc'[q] = pc[q]
      /\ pc[r] \notin Answered /\ pc'[r] # "ok"
  BY DEF Service!RestoreGlobalUnopened, Answered, Inv, TypeOK, Service!TypeOK, Service!Answer
<1>. QED BY <1>1, ServicePort DEF Answered

LEMMA RestoreGlobalFailsPort ==
    ASSUME Inv, PortInv, NEW r \in Request, Service!RestoreGlobalFails(r),
           UNCHANGED <<Database, step, Locals, now>>, lost \subseteq lost'
    PROVE  PortInv'
<1>1. /\ UNCHANGED committed /\ \A q \in Request \ {r} : pc'[q] = pc[q]
      /\ pc[r] \notin Answered /\ pc'[r] # "ok"
  BY DEF Service!RestoreGlobalFails, Answered, Inv, TypeOK, Service!TypeOK, Service!Answer, Service!CutShort
<1>. QED BY <1>1, ServicePort DEF Answered

\* The steps that change a port: it is stored,
LEMMA StorePortPort == ASSUME Inv, CommitInv, PortInv, NEW r \in Request, StorePort(r) PROVE PortInv'
<1>1. /\ step[r] = "verified" /\ ask[r].op = "port" /\ ask[r].domain \in Domain
      /\ step' = [step EXCEPT ![r] = "stored"] /\ UNCHANGED pending
      /\ site' = [site EXCEPT ![ask[r].domain].port = change[r], ![ask[r].domain].at = now]
      /\ UNCHANGED <<ask, change, committed, lost, pc>>
      /\ site \in [Domain -> Row] /\ step'[r] = "stored" /\ \A q \in Request \ {r} : step'[q] = step[q]
  BY Question DEF StorePort, Inv, TypeOK
<1>2. ASSUME NEW q \in Request \ {r} PROVE step[q] \in {"idle", "informed"}
  BY <1>1 DEF PortInv, Running
<1>3. ASSUME NEW d \in Domain
      PROVE  site'[d].port = IF d = ask[r].domain THEN change[r] ELSE site[d].port
  BY <1>1 DEF Row
<1>4. \A q \in Request : ~Owes(q)
  BY <1>1, <1>2 DEF Owes, Begun
<1>5. \A d \in Domain \ lost : committed[d].port = site[d].port
  BY <1>4 DEF PortInv
<1>6. Owes(r)'
  BY <1>1 DEF Owes, Begun
<1>7. ASSUME NEW q \in Request PROVE Ports(q)'
  <2>1. CASE q # r
    BY <1>1, <1>2, <2>1 DEF Ports, Owes, Begun, Asked
  <2>2. CASE q = r
    <3>1. ask[r] # None /\ ask[r].domain \notin lost => pending[r].port = site[ask[r].domain].port
      BY <1>1 DEF PortInv, Ports
    <3>. QED BY <1>1, <1>3, <1>5, <2>2, <3>1 DEF Ports, Asked, Stored
  <2>. QED BY <2>1, <2>2
<1>8. \A p, q \in Request : Running(p)' /\ Running(q)' => p = q
  BY <1>1, <1>2 DEF Running
<1>9. ASSUME NEW d \in Domain \ lost
      PROVE  (Owes(r)' /\ ask'[r].domain = d) \/ committed'[d].port = site'[d].port
  BY <1>1, <1>3, <1>5, <1>6
<1>. QED BY <1>1, <1>7, <1>8, <1>9 DEF PortInv

\* and put into effect.
LEMMA ReloadPort ==
    ASSUME Inv, CommitInv, PortInv, NEW r \in Request, Service!Reload(r),
           UNCHANGED <<Database, step, Locals, now>>, lost \subseteq lost'
    PROVE  PortInv'
<1>1. CASE /\ committed' = [committed EXCEPT ![job[r].domain] = job[r].content]
           /\ Service!Answer(r, "ok")
  <2>1. /\ pc[r] = "tested" /\ pc'[r] = "ok" /\ job[r].domain \in Domain
        /\ \A q \in Request \ {r} : pc'[q] = pc[q]
        /\ \A d \in Domain : committed'[d] = IF d = job[r].domain THEN job[r].content ELSE committed[d]
        /\ UNCHANGED <<ask, step, change, pending, site>>
    BY <1>1, Job DEF Service!Reload, Service!Answer, Answered, Inv, TypeOK, Service!TypeOK
  <2>2. ASSUME job[r].domain \notin lost
        PROVE  /\ step[r] \in Asked /\ ask[r].domain = job[r].domain /\ ask[r] # None
               /\ IF ask[r].op = "port" THEN job[r].content.port = change[r]
                                        ELSE job[r].content.port = committed[job[r].domain].port
               /\ \A q \in Request \ {r} : ~Running(q)
    <3>1. step[r] \in Asked /\ ask[r].domain = job[r].domain /\ ask[r] # None /\ Sent(r) /\ Based(r)
      BY <2>1, <2>2 DEF CommitInv, Tracked, Waited, Asked, Answered, Inv, TypeOK, Working
    <3>2. PatchedVhost(r).port = IF ask[r].op = "port" THEN change[r] ELSE original[r].port
      BY <3>1, Patches DEF Asked
    <3>3. step[r] = "undoing" => ask[r].op # "port"
      BY DEF Inv, Working, Stored
    <3>4. \A q \in Request \ {r} : ~Running(q)
      BY <3>1 DEF PortInv, Running, Asked
    <3>. QED BY <2>1, <2>2, <3>1, <3>2, <3>3, <3>4 DEF Sent, Based, Asked, Answered
  <2>3. ASSUME NEW q \in Request PROVE Ports(q)'
    <3>1. CASE ask[q] = None \/ ask[q].domain \in lost
      BY <2>1, <3>1 DEF Ports
    <3>2. CASE ~Running(q)
      BY <2>1, <3>2 DEF Ports, Owes, Begun, Asked, Running
    <3>3. CASE ask[q] # None /\ ask[q].domain \notin lost /\ Running(q)
      <4>1. CASE job[r].domain \in lost
        <5>1. ask[q].domain \in Domain /\ committed'[ask[q].domain] = committed[ask[q].domain]
          BY <2>1, <3>3, <4>1 DEF Inv, TypeOK, Ask
        <5>2. Owes(q)' => Owes(q)
          BY <2>1 DEF Owes
        <5>. QED BY <2>1, <5>1, <5>2 DEF Ports, PortInv
      <4>2. CASE job[r].domain \notin lost
        <5>1. q = r
          BY <2>2, <3>3, <4>2
        <5>2. ~Owes(r)' \/ step[r] = "undoing"
          BY <2>1, <2>2, <4>2 DEF Owes, Asked
        <5>3. Ports(r) /\ ask[r].op \in Stored => ask[r].op # "port"
          BY DEF PortInv, Stored
        <5>4. ~Owes(r)'
          BY <2>1, <5>2 DEF Owes, Inv, Working, Stored
        <5>. QED BY <2>1, <5>1, <5>4 DEF Ports, PortInv
      <4>. QED BY <4>1, <4>2
    <3>. QED BY <3>1, <3>2, <3>3
  <2>4. ASSUME NEW d \in Domain \ lost'
        PROVE  \/ \E q \in Request : Owes(q)' /\ ask'[q].domain = d
               \/ committed'[d].port = site'[d].port
    <3>1. CASE d = job[r].domain
      <4>1. job[r].domain \notin lost
        BY <2>4, <3>1
      <4>2. CASE ask[r].op = "port"
        <5>1. step[r] = "committing"
          BY <2>2, <4>1, <4>2 DEF Inv, Working, Asked, Stored
        <5>. QED BY <2>1, <2>2, <3>1, <4>1, <4>2, <5>1 DEF PortInv, Ports
      <4>3. CASE ask[r].op # "port"
        <5>1. \A q \in Request : ~Owes(q)
          BY <2>2, <4>1, <4>3 DEF Owes, Begun, Running
        <5>2. committed[d].port = site[d].port
          BY <2>4, <5>1 DEF PortInv
        <5>. QED BY <2>1, <2>2, <3>1, <4>1, <4>3, <5>2
      <4>. QED BY <4>2, <4>3
    <3>2. CASE d # job[r].domain
      <4>1. ASSUME NEW q \in Request, Owes(q), ask[q].domain = d PROVE Owes(q)'
        <5>1. q # r
          BY <2>1, <3>2, <4>1 DEF CommitInv, Tracked, Sent, Owes, Answered, Asked, Begun, Inv, Working
        <5>. QED BY <2>1, <4>1, <5>1 DEF Owes
      <4>. QED BY <2>1, <2>4, <3>2, <4>1 DEF PortInv
    <3>. QED BY <3>1, <3>2
  <2>5. \A p, q \in Request : Running(p)' /\ Running(q)' => p = q
    BY DEF PortInv, Running
  <2>. QED BY <2>3, <2>4, <2>5 DEF PortInv
<1>2. CASE pc' = [pc EXCEPT ![r] = "failed"] /\ UNCHANGED committed /\ pc[r] = "tested"
  <2>1. pc'[r] = "failed" /\ \A q \in Request \ {r} : pc'[q] = pc[q]
    BY <1>2 DEF Inv, TypeOK, Service!TypeOK
  <2>. QED BY <1>2, <2>1, ServicePort
<1>. QED BY <1>1, <1>2 DEF Service!Reload

\* The deaths of the two processes, and the clock.
LEMMA CrashPort ==
    ASSUME Inv, PortInv, Service!Crash,
           UNCHANGED <<Database, step, Locals, now>>, lost \subseteq lost'
    PROVE  PortInv'
<1>1. /\ \A q \in Request : pc'[q] = IF pc[q] \in Answered THEN pc[q] ELSE "error"
      /\ UNCHANGED committed
  BY DEF Service!Crash, Answered
<1>2. ASSUME NEW q \in Request PROVE Owes(q)' <=> Owes(q)
  BY <1>1 DEF Owes, Answered
<1>3. \A q \in Request : Ports(q)'
  BY <1>1, <1>2 DEF PortInv, Ports
<1>4. \A p, q \in Request : Running(p)' /\ Running(q)' => p = q
  BY DEF PortInv, Running
<1>. QED BY <1>1, <1>2, <1>3, <1>4 DEF PortInv

LEMMA HelperCrashPort == ASSUME Inv, PortInv, HelperCrash PROVE PortInv'
<1>1. /\ \A q \in Request : ask'[q] = None /\ step'[q] = "idle"
      /\ UNCHANGED <<site, committed>> /\ lost \subseteq lost'
      /\ \A q \in Request : step[q] \in Begun => ask[q].domain \in lost'
  BY DEF HelperCrash, Begun
<1>2. \A q \in Request : Ports(q)'
  BY <1>1 DEF Ports
<1>3. \A d \in Domain \ lost' : ~\E q \in Request : Owes(q) /\ ask[q].domain = d
  BY <1>1 DEF Owes
<1>4. \A p, q \in Request : Running(p)' /\ Running(q)' => p = q
  BY <1>1 DEF Running
<1>. QED BY <1>1, <1>2, <1>3, <1>4 DEF PortInv

LEMMA TickPort == ASSUME PortInv, Tick \/ UNCHANGED vars PROVE PortInv'
<1>1. UNCHANGED <<site, committed, step, ask, change, pending, pc, lost>>
  BY DEF Tick, vars
<1>2. ASSUME NEW q \in Request PROVE Owes(q)' <=> Owes(q)
  BY <1>1 DEF Owes
<1>3. \A q \in Request : Ports(q)'
  BY <1>1, <1>2 DEF PortInv, Ports
<1>4. \A p, q \in Request : Running(p)' /\ Running(q)' => p = q
  BY <1>1 DEF PortInv, Running
<1>. QED BY <1>1, <1>2, <1>3, <1>4 DEF PortInv

\* Every step keeps PortInv.
LEMMA PortStep ==
    MaxRunning <= 1 /\ "read" \notin Faults /\ Inv /\ CommitInv /\ PortInv /\ [Next]_vars => PortInv'
<1> SUFFICES ASSUME MaxRunning <= 1, "read" \notin Faults, Inv, CommitInv, PortInv, [Next]_vars
             PROVE  PortInv'
  OBVIOUS
<1>1. ASSUME NEW r \in Request, Get(r) PROVE PortInv'
  BY <1>1, GetPort
<1>2. ASSUME NEW r \in Request, Handle(r) PROVE PortInv'
  BY <1>2, VerifyPort, ConflictPort, StorePortPort, ReadOriginalPort, UpdatePort, BusyPort, SendPort,
     CommitPort, FinishPort, RestorePortPort, UnheardPort DEF Handle
<1>3. ASSUME NEW r \in Request, Serve(r) PROVE PortInv'
  <2>1. UNCHANGED <<Database, step, Locals, now>> /\ lost \subseteq lost'
    BY <1>3 DEF Serve
  <2>. QED BY <1>3, <2>1, ReadVhostPort, ReadGlobalPort, TruncateGlobalPort, PatchGlobalPort,
              WriteVhostPort, TestPort, ReloadPort, RestoreVhostPort, RestoreGlobalPort,
              ReloadRestoredPort DEF Serve, Service!Serve
<1>4. ASSUME NEW r \in Request, ReadFails(r) \/ CommitFails(r) PROVE PortInv'
  BY <1>4, ReadFailsPort, CommitFailsPort
<1>5. ASSUME ServiceFails PROVE PortInv'
  <2>1. UNCHANGED <<Database, step, Locals, now>> /\ lost \subseteq lost'
    BY <1>5 DEF ServiceFails
  <2>2. ASSUME NEW r \in Request, Service!Failure(r) PROVE PortInv'
    BY <2>1, <2>2, PatchGlobalFailsPort, WriteVhostFailsPort, CommandFailsPort, ReloadRestoredFailsPort,
       RestoreVhostFailsPort, RestoreGlobalUnopenedPort, RestoreGlobalFailsPort
       DEF Service!Failure
  <2>. QED BY <1>5, <2>1, <2>2, CrashPort DEF ServiceFails
<1>. QED BY <1>1, <1>2, <1>3, <1>4, <1>5, HelperCrashPort, TickPort DEF Next

LEMMA InitPort == Init => PortInv
<1> SUFFICES ASSUME Init PROVE PortInv
  OBVIOUS
<1>1. \A r \in Request : step[r] = "idle" /\ ask[r] = None
  BY DEF Init
<1>2. \A d \in Domain : committed[d].port = site[d].port
  BY DEF Init, Service!Init, Fresh
<1>3. \A r \in Request : Ports(r) /\ ~Running(r)
  BY <1>1 DEF Ports, Running
<1>. QED BY <1>2, <1>3 DEF PortInv

\* When nothing is running, a vhost has the root, PageSpeed and port of its row,
\* where requests run one at a time, one thing fails and a vhost that is there can
\* be read: a request that stored its port and cannot read the vhost leaves the port.
THEOREM NoDriftHolds ==
    MaxRunning <= 1 /\ MaxFaults <= 1 /\ "read" \notin Faults => (Spec => []NoDrift)
<1>1. Inv /\ CommitInv /\ RowInv /\ PortInv => NoDrift
  <2> SUFFICES ASSUME Inv, CommitInv, RowInv, PortInv, AtRest, NEW d \in Domain \ lost
               PROVE  /\ vhost[d].root = site[d].root
                      /\ vhost[d].pagespeed = site[d].pagespeed
                      /\ vhost[d].port = site[d].port
    BY DEF NoDrift
  <2>1. \A r \in Request : step[r] \notin Asked /\ ~Owes(r) /\ pc[r] \notin Rewriting
    BY DEF AtRest, Service!AtRest, Asked, Owes, Begun, Rewriting
  <2>2. Same(vhost[d], site[d])
    BY <2>1, RowsShown
  <2>3. vhost[d] = committed[d] /\ committed[d].port = site[d].port
    BY <2>1 DEF CommitInv, Settled, PortInv
  <2>. QED BY <2>2, <2>3 DEF Same
<1>2. ASSUME MaxRunning <= 1, MaxFaults <= 1, "read" \notin Faults PROVE Spec => []NoDrift
  <2>1. Inv /\ CommitInv /\ PortInv /\ [Next]_vars => PortInv'
    BY <1>2, PortStep
  <2>2. Conflictless
    BY <1>2 DEF Conflictless
  <2>3. Spec => [](Inv /\ CommitInv /\ ConfInv /\ Spotless /\ RowInv)
    BY <1>2, <2>2, RowHolds
  <2>. QED BY <1>1, <2>1, <2>3, InitPort, PTL DEF Spec
<1>. QED BY <1>2

=============================================================================
