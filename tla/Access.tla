------------------------------- MODULE Access -------------------------------
(***************************************************************************)
(* Who may have an operation done, and what is kept of it: bearer tokens,   *)
(* scopes, local policies, the audit table, the calls of the HTTP server    *)
(* and of root's commands to the helper, and the domains the gateway itself *)
(* is reached at (internal/gateway/http.go, core.go, cli.go).               *)
(*                                                                         *)
(* A request is authorized once, with the token as it is read then; the     *)
(* policy is read by the helper, when it gets the job.  The client may      *)
(* leave, and the server, the helper or a command may die at any time.  The *)
(* commands of root share the state database and the helper; the policy     *)
(* binds them too, nothing audits them.                                     *)
(*                                                                         *)
(* Abstractions.  A request and a command happen once.  An operation is     *)
(* done in one step of the helper or not at all; the other modules have     *)
(* their steps.  Only operations on sites change something that is seen     *)
(* here, the site of a domain; the others leave that they were done.        *)
(***************************************************************************)
EXTENDS Endpoints, Naturals, FiniteSets

CONSTANTS
    Request,    \* HTTP requests
    Command,    \* processes of root
    Offered,    \* what each request may ask for: a set of endpoints
    Orders,     \* what each command may do: a set of kinds
    Token,      \* identifiers of tokens
    Initial,    \* the token of bootstrap
    Managed,    \* the policies that commands change
    Operated,   \* the operations that commands ask for
    Domain,
    Initially,  \* what a domain may have at first: none, proxy or other
    Grants,     \* scopes and expiry that a command may give a token
    Faults,     \* the kinds of failure that may happen
    MaxFaults,  \* bound: how many of them in one behaviour
    MaxTime,    \* bound: the last second the clock shows
    None

Caller == Request \cup Command
Kind == {"create", "rotate", "revoke", "enable", "disable", "map", "adopt", "unmap", "issue",
         "operate"}
Grant == [scopes : SUBSET Scope, expires : Nat \cup {None}]
Row == [scopes : SUBSET Scope, expires : Nat \cup {None}, revoked : BOOLEAN]
Asked == [to : Endpoint, with : Token]
Operation == {e.op : e \in Endpoint}
Call == [op : Operation, domain : Domain]
Task == [kind : Kind, made : Token \cup {None}, old : Token \cup {None}]

ASSUME AccessAssumption ==
    /\ Request \cap Command = {} /\ Initial \in Token
    /\ Offered \in [Request -> SUBSET Endpoint] /\ Orders \in [Command -> SUBSET Kind]
    /\ Initially \subseteq {"none", "proxy", "other"}
    /\ Managed \subseteq Policy /\ Operated \subseteq Commands /\ Grants \subseteq Grant
    /\ {MaxFaults, MaxTime} \subseteq Nat
    /\ None \notin {"ok", "error"} \cup Token \cup Nat \cup Row \cup Asked \cup Call \cup Task

VARIABLES
    token,    \* the table tokens
    shown,    \* tokens whose plaintext was printed
    enabled,  \* the table policy: what is enabled
    mapped,   \* the table domains
    site,     \* CloudPanel's site of each domain: none, a proxy a command made, another
    audit,    \* the table audit: the outcome kept of each request
    stage,    \* where a request is
    ask,      \* its endpoint and its token
    gone,     \* requests whose client has left
    call,     \* what a caller asks of the helper, and of which domain
    job,      \* how far the helper is with it
    effect,   \* callers whose operation was done
    at,       \* where a command is
    task,     \* its kind, the token it made, the token it replaces
    now,
    faults,
    marks,    \* history: what is known of a caller
    strayed,  \* history: domains whose mapping may be wrong after a failure
    excused   \* history: a token was revoked for good

tokens == <<token, shown, excused>>
domains == <<mapped, strayed>>
server == <<stage, ask, gone, audit>>
helper == <<call, job, effect, site>>
commands == <<at, task>>
vars == <<tokens, enabled, domains, server, helper, commands, now, faults, marks>>

Mark == {"valid", "permitted", "unrecorded", "doubtful"}

Fault(kind) == kind \in Faults /\ faults < MaxFaults /\ faults' = faults + 1

-----------------------------------------------------------------------------
(* Tokens and policies *)

Lasting(t) == token[t] # None /\ ~token[t].revoked /\ token[t].expires = None

\* Mutant: a token is accepted in spite of its revocation.
ActiveAgain(t) ==
    token[t] # None /\ (token[t].expires # None => now <= token[t].expires)

Active(t) ==
    /\ token[t] # None /\ ~token[t].revoked
    /\ token[t].expires # None => now <= token[t].expires

HasScope(t, s) == {s, "admin"} \cap token[t].scopes # {}
Opens(t, e) == \A s \in e.scopes : HasScope(t, s)
Gated(op) == {p \in Policy : <<op, p>> \in Gates}

-----------------------------------------------------------------------------
(* After bootstrap *)

Init ==
    /\ token = [t \in Token |-> IF t = Initial
                   THEN [scopes |-> {"admin"}, expires |-> None, revoked |-> FALSE]
                   ELSE None]
    /\ shown = {Initial} /\ enabled = {} /\ excused = FALSE
    /\ site \in [Domain -> Initially]
    /\ mapped = {d \in Domain : site[d] = "proxy"} /\ strayed = {}
    /\ audit = [q \in Request |-> None] /\ stage = [q \in Request |-> "new"]
    /\ ask = [q \in Request |-> None] /\ gone = {}
    /\ call = [x \in Caller |-> None] /\ job = [x \in Caller |-> "none"] /\ effect = {}
    /\ at = [c \in Command |-> "idle"] /\ task = [c \in Command |-> None]
    /\ now = 0 /\ faults = 0 /\ marks = [x \in Caller |-> {}]

-----------------------------------------------------------------------------
(* The helper *)

\* The connection is made and the request written; marked is what policies allow
\* then, or come to allow before the helper asks.
Send(x, op, d) ==
    /\ call' = [call EXCEPT ![x] = [op |-> op, domain |-> d]]
    /\ job' = [job EXCEPT ![x] = "sent"]
    /\ marks' = [marks EXCEPT ![x] = @ \cup
                    IF Gated(op) \subseteq enabled THEN {"permitted"} ELSE {}]
    /\ UNCHANGED <<effect, site>>

Allowed(op) == Gated(op) \subseteq enabled

Check(x) ==
    /\ job[x] = "sent"
    /\ Allowed(call[x].op)
    /\ job' = [job EXCEPT ![x] = "running"]
    /\ UNCHANGED <<tokens, enabled, domains, server, call, effect, site, commands, now,
                   faults, marks>>

Forbid(x) ==
    /\ job[x] = "sent"
    /\ \/ ~Allowed(call[x].op) /\ UNCHANGED faults
       \/ Gated(call[x].op) # {} /\ Fault("database")
    /\ job' = [job EXCEPT ![x] = "failed"]
    /\ UNCHANGED <<tokens, enabled, domains, server, call, effect, site, commands, now, marks>>

Creating == {"site.create_static", "site.create_nodejs", "site.create_php",
             "site.create_python", "site.create_reverse_proxy"}
Feasible(x) ==
    LET d == call[x].domain
    IN  /\ call[x].op \in Creating => site[d] = "none"
        /\ call[x].op \in {"site.delete", "certificate.lets_encrypt"} => site[d] # "none"

Becomes(x, s) ==
    IF call[x].op \in Creating THEN IF x \in Command THEN "proxy" ELSE "other"
    ELSE IF call[x].op = "site.delete" THEN "none" ELSE s

Do(x) ==
    /\ Feasible(x)
    /\ effect' = effect \cup {x}
    /\ site' = [site EXCEPT ![call[x].domain] = Becomes(x, @)]

\* A request that deletes the site of the gateway leaves its mapping.
Perform(x) ==
    /\ job[x] = "running"
    /\ Do(x)
    /\ job' = [job EXCEPT ![x] = "ok"]
    /\ strayed' = IF x \in Request /\ call[x].op = "site.delete"
                     THEN strayed \cup {call[x].domain} ELSE strayed
    /\ UNCHANGED <<tokens, enabled, mapped, server, call, commands, now, faults, marks>>

PerformFails(x) ==
    /\ job[x] = "running"
    /\ \/ ~Feasible(x) /\ UNCHANGED faults
       \/ Fault("command")
    /\ job' = [job EXCEPT ![x] = "failed"]
    /\ UNCHANGED <<tokens, enabled, domains, server, call, effect, site, commands, now, marks>>

\* What nobody can tell of the callers any more: whether it was done.
Lose(callers) ==
    /\ marks' = [x \in Caller |->
                    IF x \in callers THEN marks[x] \cup {"doubtful"} ELSE marks[x]]
    /\ strayed' = strayed \cup {call[x].domain : x \in callers}

\* The job's context ends and kills what it runs, after its effect or before.
Deadline(x) ==
    /\ job[x] = "running"
    /\ Fault("deadline")
    /\ Do(x) \/ UNCHANGED <<effect, site>>
    /\ job' = [job EXCEPT ![x] = "failed"]
    /\ Lose({x})
    /\ UNCHANGED <<tokens, enabled, mapped, server, call, commands, now>>

Waiting(x) == IF x \in Request THEN stage[x] = "waiting" ELSE at[x] = "calling"

HelperDies ==
    LET lost == {x \in Caller : \/ job[x] \in {"sent", "running"}
                                \/ job[x] \in {"ok", "failed"} /\ Waiting(x)}
    IN  /\ lost # {}
        /\ Fault("helper")
        /\ job' = [x \in Caller |-> IF x \in lost THEN "lost" ELSE job[x]]
        /\ Lose(lost)
        /\ UNCHANGED <<tokens, enabled, mapped, server, call, effect, site, commands, now>>

-----------------------------------------------------------------------------
(* The HTTP server *)

\* What a token must be when it is used.
Valid(t) == ~token[t].revoked /\ (token[t].expires # None => token[t].expires >= now)

Ask(q) ==
    /\ stage[q] = "new"
    /\ \E e \in Offered[q], t \in shown :
          /\ ask' = [ask EXCEPT ![q] = [to |-> e, with |-> t]]
          /\ marks' = [marks EXCEPT ![q] = IF Valid(t) THEN {"valid"} ELSE {}]
    /\ stage' = [stage EXCEPT ![q] = "asked"]
    /\ UNCHANGED <<tokens, enabled, domains, gone, audit, helper, commands, now, faults>>

\* The context of a request only ends its dialling.
Leave(q) ==
    /\ stage[q] \in {"asked", "authorized", "waiting"}
    /\ q \notin gone
    /\ gone' = gone \cup {q}
    /\ UNCHANGED <<tokens, enabled, domains, stage, ask, audit, helper, commands, now,
                   faults, marks>>

Move(q, s) ==
    /\ stage' = [stage EXCEPT ![q] = s]
    /\ UNCHANGED <<tokens, enabled, ask, gone, commands, now>>

\* One reading of the token serves for every scope that is asked.
Permitted(q) == Active(ask[q].with) /\ Opens(ask[q].with, ask[q].to)

Authorize(q) ==
    /\ stage[q] = "asked"
    /\ Permitted(q)
    /\ Move(q, "authorized")
    /\ UNCHANGED <<domains, audit, helper, faults, marks>>

Deny(q) ==
    /\ stage[q] = "asked"
    /\ \/ ~Permitted(q) /\ UNCHANGED faults
       \/ Fault("database")
    /\ Move(q, "done")
    /\ UNCHANGED <<domains, audit, helper, marks>>

Serve(q) ==
    /\ stage[q] = "authorized"
    /\ ask[q].to.op \in ServerOps
    /\ effect' = effect \cup {q}
    /\ Move(q, "done")
    /\ UNCHANGED <<domains, audit, call, job, site, faults, marks>>

Hand(q) ==
    /\ stage[q] = "authorized"
    /\ ask[q].to.op \notin ServerOps
    /\ q \notin gone
    /\ \E d \in Domain : Send(q, ask[q].to.op, d)
    /\ Move(q, "waiting")
    /\ UNCHANGED <<domains, audit, faults>>

HandFails(q) ==
    /\ stage[q] = "authorized"
    /\ ask[q].to.op \notin ServerOps
    /\ \/ q \in gone /\ UNCHANGED faults
       \/ Fault("helper")
    /\ job' = [job EXCEPT ![q] = "lost"]
    /\ Move(q, "auditing")
    /\ UNCHANGED <<domains, audit, call, effect, site, marks>>

\* Mutant: the handler ends when its client has left.
ReceiveIfThere(q) ==
    /\ stage[q] = "waiting" /\ q \notin gone
    /\ job[q] \in {"ok", "failed", "lost"}
    /\ Move(q, "auditing")
    /\ UNCHANGED <<domains, audit, helper, faults, marks>>

Receive(q) ==
    /\ stage[q] = "waiting"
    /\ job[q] \in {"ok", "failed", "lost"}
    /\ Move(q, "auditing")
    /\ UNCHANGED <<domains, audit, helper, faults, marks>>

\* Mutant: only an answer that did not come is an error.
OutcomeOfCall(q) == IF job[q] = "lost" THEN "error" ELSE "ok"
Outcome(q) == IF job[q] = "ok" THEN "ok" ELSE "error"

\* The insertion's error is dropped; then the client has its answer.
Record(q) ==
    /\ stage[q] = "auditing"
    /\ IF ask[q].to.event = "none" THEN UNCHANGED <<audit, faults, marks>>
       ELSE \/ /\ audit' = [audit EXCEPT ![q] = Outcome(q)]
               /\ UNCHANGED <<faults, marks>>
            \/ /\ Fault("database")
               /\ marks' = [marks EXCEPT ![q] = @ \cup {"unrecorded"}]
               /\ UNCHANGED audit
    /\ Move(q, "done")
    /\ UNCHANGED <<domains, helper>>

\* What the helper was asked for goes on.
ServerDies ==
    LET open == {q \in Request : stage[q] \notin {"new", "done", "cut"}}
    IN  /\ open # {}
        /\ Fault("server")
        /\ stage' = [q \in Request |-> IF q \in open THEN "cut" ELSE stage[q]]
        /\ UNCHANGED <<tokens, enabled, domains, ask, gone, audit, helper, commands, now,
                       marks>>

-----------------------------------------------------------------------------
(* Commands of root; one that is refused before it changes anything is no   *)
(* step                                                                      *)

\* Identifiers are random: any that is not used.
Unused == {t \in Token : token[t] = None}
NewID == CHOOSE t \in Token : t \in Unused
Insert(t, g) == [token EXCEPT ![t] = [scopes |-> g.scopes, expires |-> g.expires,
                                      revoked |-> FALSE]]
Step(c, s) ==
    /\ at' = [at EXCEPT ![c] = s]
    /\ UNCHANGED <<server, now>>
Begin(c, kind, made, old) ==
    /\ at[c] = "idle" /\ kind \in Orders[c]
    /\ task' = [task EXCEPT ![c] = [kind |-> kind, made |-> made, old |-> old]]

CreateToken(c) ==
    /\ Unused # {}
    /\ Begin(c, "create", NewID, None)
    /\ \E g \in Grants : token' = Insert(NewID, g)
    /\ Step(c, "showing")
    /\ UNCHANGED <<shown, excused, enabled, domains, helper, faults, marks>>

Revocable(t) == t # None /\ token[t] # None /\ ~token[t].revoked
Revoked(t) == [token EXCEPT ![t].revoked = TRUE]

\* Mutant: the old token is revoked first.
RotateRevokingFirst(c) ==
    /\ Unused # {}
    /\ \E old \in Token \ Unused, g \in Grants :
          /\ Begin(c, "rotate", NewID, old) /\ Revocable(old)
          /\ token' = [Insert(NewID, [g EXCEPT !.expires = None]) EXCEPT ![old].revoked = TRUE]
    /\ Step(c, "revoking")
    /\ UNCHANGED <<shown, excused, enabled, domains, helper, faults, marks>>

\* The identifier that is given need not be one of a token: None.  The replacement
\* does not expire.
Rotate(c) ==
    /\ Unused # {}
    /\ \E old \in (Token \ Unused) \cup {None}, g \in Grants :
          /\ Begin(c, "rotate", NewID, old)
          /\ token' = Insert(NewID, [g EXCEPT !.expires = None])
    /\ Step(c, "revoking")
    /\ UNCHANGED <<shown, excused, enabled, domains, helper, faults, marks>>

RevokeOld(c) ==
    /\ at[c] = "revoking"
    /\ Revocable(task[c].old)
    /\ token' = Revoked(task[c].old)
    /\ Step(c, "showing")
    /\ UNCHANGED <<shown, excused, enabled, domains, helper, task, faults, marks>>

\* The replacement stays active and is never printed.
RevokeOldFails(c) ==
    /\ at[c] = "revoking"
    /\ \/ ~Revocable(task[c].old) /\ UNCHANGED faults
       \/ Fault("database")
    /\ Step(c, "done")
    /\ UNCHANGED <<tokens, enabled, domains, helper, task, marks>>

\* Mutant: the identifier that was given is printed.
ShowOld(c) ==
    /\ at[c] = "showing"
    /\ shown' = shown \cup {task[c].old}
    /\ Step(c, "done")
    /\ UNCHANGED <<token, excused, enabled, domains, helper, task, faults, marks>>

Show(c) ==
    /\ at[c] = "showing"
    /\ shown' = shown \cup {task[c].made}
    /\ Step(c, "done")
    /\ UNCHANGED <<token, excused, enabled, domains, helper, task, faults, marks>>

Revoke(c) ==
    /\ \E t \in Token :
          /\ Revocable(t)
          /\ Begin(c, "revoke", None, t)
          /\ token' = Revoked(t)
    /\ excused' = TRUE
    /\ Step(c, "done")
    /\ UNCHANGED <<shown, enabled, domains, helper, faults, marks>>

SetPolicy(c) ==
    /\ \E p \in Managed :
          \/ Begin(c, "enable", None, None) /\ enabled' = enabled \cup {p}
          \/ Begin(c, "disable", None, None) /\ enabled' = enabled \ {p}
    /\ marks' = [x \in Caller |->
                    IF job[x] = "sent" /\ Gated(call[x].op) \subseteq enabled'
                       THEN marks[x] \cup {"permitted"} ELSE marks[x]]
    /\ Step(c, "done")
    /\ UNCHANGED <<tokens, domains, helper, faults>>

\* An error of the lookup counts as not mapped.
Map(c) ==
    /\ Begin(c, "map", None, None)
    /\ \E d \in Domain :
          /\ \/ d \notin mapped /\ UNCHANGED faults
             \/ d \in mapped /\ Fault("database")
          /\ Send(c, "site.create_reverse_proxy", d)
    /\ Step(c, "calling")
    /\ UNCHANGED <<tokens, enabled, domains>>

\* Mutant: the mapping is deleted before the site.
UnmapForgetting(c) ==
    /\ Begin(c, "unmap", None, None)
    /\ \E d \in mapped : Send(c, "site.delete", d) /\ mapped' = mapped \ {d}
    /\ Step(c, "calling")
    /\ UNCHANGED <<tokens, enabled, strayed, faults>>

Unmap(c) ==
    /\ Begin(c, "unmap", None, None)
    /\ \E d \in mapped : Send(c, "site.delete", d)
    /\ Step(c, "calling")
    /\ UNCHANGED <<tokens, enabled, domains, faults>>

IssueCertificate(c) ==
    /\ Begin(c, "issue", None, None)
    /\ \E d \in mapped : Send(c, "certificate.lets_encrypt", d)
    /\ Step(c, "calling")
    /\ UNCHANGED <<tokens, enabled, domains, faults>>

\* The commands for settings, TLS, files, backups, cron and node, and doctor.
Operate(c) ==
    /\ Begin(c, "operate", None, None)
    /\ \E op \in Operated, d \in Domain : Send(c, op, d)
    /\ Step(c, "calling")
    /\ UNCHANGED <<tokens, enabled, domains, faults>>

\* Nothing asks whether there is such a site.
Adopt(c) ==
    /\ Begin(c, "adopt", None, None)
    /\ \E d \in Domain :
          /\ mapped' = mapped \cup {d}
          /\ strayed' = IF site[d] = "none" THEN strayed \cup {d} ELSE strayed
    /\ Step(c, "done")
    /\ UNCHANGED <<tokens, enabled, helper, faults, marks>>

Answered(c) ==
    /\ at[c] = "calling"
    /\ job[c] \in {"ok", "failed", "lost"}
    /\ Step(c, IF job[c] = "ok" /\ task[c].kind \in {"map", "unmap"} THEN "storing" ELSE "done")
    /\ UNCHANGED <<tokens, enabled, domains, helper, task, faults, marks>>

StoreDomain(c) ==
    /\ at[c] = "storing" /\ task[c].kind = "map"
    /\ mapped' = mapped \cup {call[c].domain}
    /\ Step(c, "done")
    /\ UNCHANGED <<tokens, enabled, strayed, helper, task, faults, marks>>

DeleteDomain(c) ==
    /\ at[c] = "storing" /\ task[c].kind = "unmap"
    /\ mapped' = mapped \ {call[c].domain}
    /\ Step(c, "done")
    /\ UNCHANGED <<tokens, enabled, strayed, helper, task, faults, marks>>

\* Killed, or the database refuses: the site is made or deleted, the table is not changed.
StopShort(c) ==
    /\ \/ at[c] \notin {"idle", "done"} /\ Fault("kill")
       \/ at[c] = "storing" /\ Fault("database")
    /\ strayed' = IF call[c] = None THEN strayed ELSE strayed \cup {call[c].domain}
    /\ excused' = (excused \/ (at[c] = "showing" /\ task[c].kind = "rotate"))
    /\ Step(c, "done")
    /\ UNCHANGED <<token, shown, enabled, mapped, helper, task, marks>>

-----------------------------------------------------------------------------
Tick ==
    /\ now < MaxTime
    /\ now' = now + 1
    /\ UNCHANGED <<tokens, enabled, domains, server, helper, commands, faults, marks>>

Handle(q) == \/ Authorize(q) \/ Deny(q) \/ Serve(q) \/ Hand(q) \/ HandFails(q)
             \/ Receive(q) \/ Record(q)
Work(x) == \/ Check(x) \/ Forbid(x) \/ Perform(x) \/ PerformFails(x) \/ Deadline(x)
Execute(c) == \/ CreateToken(c) \/ Rotate(c) \/ RevokeOld(c) \/ RevokeOldFails(c)
              \/ Show(c) \/ Revoke(c) \/ SetPolicy(c)
              \/ Map(c) \/ Unmap(c) \/ IssueCertificate(c) \/ Adopt(c) \/ Operate(c)
              \/ Answered(c) \/ StoreDomain(c) \/ DeleteDomain(c) \/ StopShort(c)

Next == \/ \E q \in Request : Ask(q) \/ Leave(q) \/ Handle(q)
        \/ \E x \in Caller : Work(x)
        \/ \E c \in Command : Execute(c)
        \/ HelperDies \/ ServerDies \/ Tick

Spec == Init /\ [][Next]_vars

\* The goroutines of the server and of the helper run on; a job ends by its deadline.
FairSpec == /\ Spec
            /\ \A q \in Request : WF_vars(Handle(q))
            /\ \A x \in Caller : WF_vars(Work(x))

-----------------------------------------------------------------------------
(* Properties *)

\* The states are well-typed; only tokens that were made are printed.
TypeOK ==
    /\ token \in [Token -> Row \cup {None}]
    /\ shown \subseteq {t \in Token : token[t] # None}
    /\ enabled \subseteq Policy /\ excused \in BOOLEAN
    /\ mapped \subseteq Domain /\ strayed \subseteq Domain
    /\ site \in [Domain -> {"none", "proxy", "other"}]
    /\ audit \in [Request -> {None, "ok", "error"}]
    /\ stage \in [Request -> {"new", "asked", "authorized", "waiting", "auditing",
                              "done", "cut"}]
    /\ ask \in [Request -> Asked \cup {None}] /\ gone \subseteq Request
    /\ call \in [Caller -> Call \cup {None}]
    /\ job \in [Caller -> {"none", "sent", "running", "ok", "failed", "lost"}]
    /\ effect \subseteq Caller
    /\ at \in [Command -> {"idle", "revoking", "showing", "calling", "storing", "done"}]
    /\ task \in [Command -> Task \cup {None}]
    /\ now \in 0..MaxTime /\ faults \in 0..MaxFaults
    /\ marks \in [Caller -> SUBSET Mark]

\* What is done for a request was asked for with a token that was active then
\* and has every scope of the endpoint; for it or for a command of root, the
\* policy that gates it was enabled at some moment after the helper had the job,
\* whatever root revokes or disables meanwhile (Authenticate, HasScope, Execute).
AuthorityHolds ==
    /\ \A q \in effect \cap Request :
          "valid" \in marks[q] /\ Opens(ask[q].with, ask[q].to)
    /\ \A x \in effect :
          call[x] # None /\ Gated(call[x].op) # {} => "permitted" \in marks[x]

\* What is audited as done was done, what is audited as an error was not unless
\* the job was cut off, and an answered request whose operation was done is
\* audited unless the database refused: also for a client that left and a helper
\* that died (executeAction, auditMCP).  It is about the handlers that audit; the
\* tools of clpctl's actions and the endpoints of artifacts write no row, see
\* EveryOperationAudited.
AuditTells ==
    \A q \in Request :
        /\ audit[q] = "ok" => q \in effect
        /\ audit[q] = "error" /\ q \in effect => "doubtful" \in marks[q]
        /\ stage[q] = "done" /\ q \in effect /\ ask[q].to.event # "none" =>
              audit[q] # None \/ "unrecorded" \in marks[q]

\* docs/api-mcp.md says that every operation of the API and of the tools has an
\* audit event: one that was done for an answered request left a row, unless the
\* database refused it.  The tools of clpctl's actions (newMCP) and the endpoints
\* of artifacts (artifacts, artifactUploads) write none.
EveryOperationAudited ==
    \A q \in Request : stage[q] = "done" /\ q \in effect =>
        audit[q] # None \/ "unrecorded" \in marks[q]

\* Rotating tokens never leaves root without one that was printed, is not
\* revoked and does not expire, or is about to be printed, unless a command is
\* killed between the two or a token is revoked for good (tokenCmd).
RotationLeavesOne ==
    \/ \E t \in shown : Lasting(t)
    \/ \E c \in Command : at[c] \in {"revoking", "showing"} /\ Lasting(task[c].made)
    \/ excused

\* A domain that is mapped has a site, and a proxy that a command made is
\* mapped, but for a command that is at it and after a failure of one, a request
\* that deleted the site, and an adoption of nothing (domainCmd).
DomainsAgree ==
    \A d \in Domain \ strayed :
        LET Held(kind) == \E c \in Command :
                /\ at[c] \in {"calling", "storing"}
                /\ call[c].domain = d /\ task[c].kind = kind
        IN  /\ d \in mapped => site[d] # "none" \/ Held("unmap")
            /\ site[d] = "proxy" => d \in mapped \/ Held("map")

\* Of two endpoints for one operation, in the API or the tools, a token opens
\* both or neither (the scopes of Handler, its handlers and newMCP).
Rules == {<<e.op, e.scopes>> : e \in Endpoint}
Unequal == {r[1] : r \in {s \in Rules : \E u \in Rules : s[1] = u[1] /\ s[2] # u[2]}}
OneRulePerOperation ==
    \A t \in Token : token[t] # None =>
        \A op \in Unequal : \A e, f \in {g \in Endpoint : g.op = op} :
            Opens(t, e) <=> Opens(t, f)

\* A request is answered, or cut off by the end of the server, though its
\* client left, its job has run into its deadline or the helper died under it.
RequestsAreAnswered ==
    \A q \in Request : stage[q] = "asked" ~> stage[q] \in {"done", "cut"}
=============================================================================
