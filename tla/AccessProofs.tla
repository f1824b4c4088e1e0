---------------------------- MODULE AccessProofs ----------------------------
(***************************************************************************)
(* Proofs about Access for any number of requests, commands, tokens and     *)
(* domains, any policies that are managed and any failures.                 *)
(***************************************************************************)
EXTENDS Access, FiniteSetTheorems, TLAPS

\* The token was accepted and opens the endpoint.
Cleared(q) == "valid" \in marks[q] /\ Opens(ask[q].with, ask[q].to)

\* A request has an endpoint and a token; one that is not valid when it is used
\* never is again; past authorization it is cleared.
RequestInv(q) ==
    /\ stage[q] # "new" => ask[q] \in Asked /\ ask[q].with \in shown
    /\ stage[q] = "asked" /\ "valid" \notin marks[q] => ~Valid(ask[q].with)
    /\ stage[q] \in {"authorized", "waiting", "auditing"} => Cleared(q)
    /\ job[q] # "none" \/ q \in effect => stage[q] # "new" /\ Cleared(q)
    /\ stage[q] \in {"new", "asked", "authorized"} =>
          job[q] = "none" /\ q \notin effect /\ call[q] = None
    /\ stage[q] \in {"auditing", "done"} => job[q] \notin {"sent", "running"}
    /\ stage[q] = "auditing" => job[q] # "none"
    /\ audit[q] # None => stage[q] = "done"

\* What the helper is asked for, and what was done of it.
JobInv(x) ==
    /\ job[x] \in {"sent", "running", "ok", "failed"} => call[x] \in Call
    /\ job[x] = "none" => call[x] = None
    /\ job[x] \in {"sent", "running"} => x \notin effect
    /\ job[x] = "ok" => x \in effect
    /\ job[x] \in {"failed", "lost"} /\ x \in effect => "doubtful" \in marks[x]
    /\ job[x] = "sent" /\ Gated(call[x].op) \subseteq enabled => "permitted" \in marks[x]
    /\ job[x] = "running" /\ Gated(call[x].op) # {} => "permitted" \in marks[x]

\* A command has a call or a token to show.
CommandInv(c) ==
    /\ at[c] = "idle" => job[c] = "none" /\ c \notin effect
    /\ at[c] \in {"revoking", "showing", "calling", "storing"} => task[c] \in Task
    /\ at[c] \in {"revoking", "showing"} =>
          task[c].made \in Token /\ token[task[c].made] # None
    /\ at[c] \in {"calling", "storing"} => call[c] \in Call

Inv == /\ TypeOK /\ AuthorityHolds /\ AuditTells
       /\ \A q \in Request : RequestInv(q)
       /\ \A x \in Caller : JobInv(x)
       /\ \A c \in Command : CommandInv(c)

USE AccessAssumption

-----------------------------------------------------------------------------
(* Endpoints *)

LEMMA CommandsAreOperations ==
    Commands \cup {"site.create_reverse_proxy", "site.delete", "certificate.lets_encrypt"}
        \subseteq Operation
<1>1. {"site.create_reverse_proxy", "site.delete", "certificate.lets_encrypt", "user.list"}
        \subseteq {e.op : e \in ActionEndpoints}
  <2>1. \A a \in Actions : Rest(a.name, a.scope, a.name) \in ActionEndpoints
    BY DEF ActionEndpoints
  <2>2. \A a \in Actions : Rest(a.name, a.scope, a.name).op = a.name
    BY DEF Rest, Via
  <2>3. /\ [name |-> "site.delete", scope |-> "sites:write"] \in Actions
        /\ [name |-> "site.create_reverse_proxy", scope |-> "sites:write"] \in Actions
        /\ [name |-> "certificate.lets_encrypt", scope |-> "certificates:write"] \in Actions
        /\ [name |-> "user.list", scope |-> "users:read"] \in Actions
    BY DEF Actions
  <2>4. \A a \in Actions : a.name \in {e.op : e \in ActionEndpoints}
    BY <2>1, <2>2
  <2>. QED BY <2>3, <2>4
<1>2. SettingsCommands \subseteq {e.op : e \in SettingsEndpoints}
  BY DEF SettingsCommands, SettingsEndpoints, Rest, Via
<1>3. FileCommands \cup BackupCommands \subseteq {e.op : e \in OperationEndpoints}
  BY DEF FileCommands, BackupCommands, OperationEndpoints, Rest, Via
<1>4. CronCommands \subseteq {e.op : e \in CronEndpoints}
  BY DEF CronCommands, CronEndpoints, Rest, Via
<1>5. NodeCommands \subseteq {e.op : e \in NodeEndpoints}
  <2>1. ASSUME NEW op \in NodeCommands
        PROVE  \/ Rest(op, "node:read", op) \in NodeEndpoints
               \/ Rest(op, "node:write", op) \in NodeEndpoints
               \/ Rest(op, "node:deploy", op) \in NodeEndpoints
    BY DEF NodeCommands, NodeEndpoints
  <2>2. \A op, scope : Rest(op, scope, op).op = op
    BY DEF Rest, Via
  <2>. QED BY <2>1, <2>2
<1>. QED BY <1>1, <1>2, <1>3, <1>4, <1>5 DEF Commands, Operation, Endpoint

LEMMA ServedAreSilent ==
    ASSUME NEW e \in Endpoint, e.op \in ServerOps
    PROVE  e.event = "none"
<1>1. ServerOps \subseteq {"artifact.upload", "artifact.begin", "artifact.chunk",
                          "artifact.complete", "openapi", "docs", "metrics"}
  BY DEF ServerOps, ArtifactEndpoints, ArtifactTools, DocEndpoints, Rest, Mcp, Via
<1>2. \A a \in Actions : a.name \notin ServerOps
  BY <1>1 DEF Actions
<1>3. e \notin ActionEndpoints \cup SiteEndpoints
  BY <1>2 DEF ActionEndpoints, SiteEndpoints, Rest, Via
<1>4. e \in ActionTools \cup ArtifactEndpoints \cup ArtifactTools \cup DocEndpoints => e.event = "none"
  BY DEF ActionTools, ArtifactEndpoints, ArtifactTools, DocEndpoints, Rest, Mcp, Via
<1>5. e \notin InspectEndpoint \cup NodeEndpoints \cup StaticEndpoints
  BY <1>1 DEF InspectEndpoint, NodeEndpoints, StaticEndpoints, Rest, Via
<1>6. e \notin LogEndpoints \cup OperationEndpoints \cup CronEndpoints \cup SettingsEndpoints
  BY <1>1 DEF LogEndpoints, OperationEndpoints, CronEndpoints, SettingsEndpoints, Rest, Via
<1>7. e \notin LogTools \cup SettingsTools \cup CronTools \cup DeployTools
  BY <1>1 DEF LogTools, SettingsTools, CronTools, DeployTools, Mcp, Via
<1>8. e \notin StaticTools \cup NodeTools \cup BackupTools
  BY <1>1 DEF StaticTools, NodeTools, BackupTools, Mcp, Via
<1>. QED BY <1>3, <1>4, <1>5, <1>6, <1>7, <1>8 DEF Endpoint

-----------------------------------------------------------------------------
(* What the parts of the actions do *)

LEMMA DoFacts ==
    ASSUME TypeOK, NEW x \in Caller, call[x] \in Call, Do(x)
    PROVE  effect' = effect \cup {x} /\ site' \in [Domain -> {"none", "proxy", "other"}]
<1>1. \A s \in {"none", "proxy", "other"} : Becomes(x, s) \in {"none", "proxy", "other"}
  BY DEF Becomes
<1>2. call[x].domain \in Domain /\ site \in [Domain -> {"none", "proxy", "other"}]
  BY DEF Call, TypeOK
<1>. QED BY <1>1, <1>2 DEF Do

LEMMA LoseFacts ==
    ASSUME TypeOK, NEW callers \in SUBSET Caller, \A x \in callers : call[x] \in Call,
           Lose(callers)
    PROVE  /\ strayed' \subseteq Domain
           /\ marks' \in [Caller -> SUBSET Mark]
           /\ \A x \in Caller : /\ marks[x] \subseteq marks'[x]
                                /\ marks'[x] \subseteq marks[x] \cup {"doubtful"}
                                /\ x \in callers => "doubtful" \in marks'[x]
<1>1. strayed' \subseteq Domain
  BY DEF Lose, TypeOK, Call
<1>2. marks' \in [Caller -> SUBSET Mark]
  BY DEF Lose, TypeOK, Mark
<1>. QED BY <1>1, <1>2 DEF Lose, TypeOK

LEMMA SendFacts ==
    ASSUME TypeOK, NEW x \in Caller, NEW op \in Operation, NEW d \in Domain, Send(x, op, d)
    PROVE  /\ call' = [call EXCEPT ![x] = [op |-> op, domain |-> d]]
           /\ [op |-> op, domain |-> d] \in Call
           /\ call' \in [Caller -> Call \cup {None}]
           /\ job' = [job EXCEPT ![x] = "sent"]
           /\ marks' \in [Caller -> SUBSET Mark]
           /\ \A y \in Caller : /\ marks[y] \subseteq marks'[y]
                                /\ marks'[y] \subseteq marks[y] \cup {"permitted"}
           /\ Gated(op) \subseteq enabled => "permitted" \in marks'[x]
           /\ UNCHANGED <<effect, site>>
<1>1. [op |-> op, domain |-> d] \in Call
  BY DEF Call
<1>2. call' \in [Caller -> Call \cup {None}]
  BY <1>1 DEF Send, TypeOK
<1>3. PICK more \in SUBSET {"permitted"} :
          /\ marks' = [marks EXCEPT ![x] = @ \cup more]
          /\ Gated(op) \subseteq enabled => more = {"permitted"}
  BY DEF Send
<1>4. marks' \in [Caller -> SUBSET Mark]
  BY <1>3 DEF TypeOK, Mark
<1>5. /\ \A y \in Caller : /\ marks[y] \subseteq marks'[y]
                           /\ marks'[y] \subseteq marks[y] \cup {"permitted"}
      /\ Gated(op) \subseteq enabled => "permitted" \in marks'[x]
  <2>1. marks \in [Caller -> SUBSET Mark]
    BY DEF TypeOK
  <2>2. marks'[x] = marks[x] \cup more
    BY <1>3, <2>1
  <2>3. \A y \in Caller \ {x} : marks'[y] = marks[y]
    BY <1>3, <2>1
  <2>. QED BY <1>3, <2>2, <2>3
<1>. QED BY <1>1, <1>2, <1>4, <1>5 DEF Send

\* Tokens that exist keep what they may do and stay invalid.
Kept == \A t \in Token : token[t] # None =>
            /\ token'[t] # None /\ token'[t].scopes = token[t].scopes
            /\ token'[t].expires = token[t].expires
            /\ token[t].revoked => token'[t].revoked

LEMMA InsertFacts ==
    ASSUME TypeOK, Unused # {}, NEW g \in Grant, token' = Insert(NewID, g)
    PROVE  /\ NewID \in Token /\ token'[NewID] # None
           /\ token' \in [Token -> Row \cup {None}] /\ Kept
<1>1. NewID \in Token /\ token[NewID] = None
  BY DEF NewID, Unused
<1>2. [scopes |-> g.scopes, expires |-> g.expires, revoked |-> FALSE] \in Row
  BY DEF Grant, Row
<1>3. token' \in [Token -> Row \cup {None}] /\ token'[NewID] # None
  BY <1>1, <1>2 DEF Insert, TypeOK
<1>4. Kept
  BY <1>1 DEF Kept, Insert, TypeOK
<1>. QED BY <1>1, <1>3, <1>4

LEMMA RevokedFacts ==
    ASSUME TypeOK, NEW t \in Token, Revocable(t), token' = Revoked(t)
    PROVE  token' \in [Token -> Row \cup {None}] /\ Kept
<1>1. token[t] \in Row
  BY DEF Revocable, TypeOK
<1>2. [token[t] EXCEPT !.revoked = TRUE] \in Row
  BY <1>1 DEF Row
<1>3. token' = [token EXCEPT ![t] = [token[t] EXCEPT !.revoked = TRUE]]
  BY DEF Revoked
<1>4. token' \in [Token -> Row \cup {None}]
  BY <1>2, <1>3 DEF TypeOK
<1>5. token'[t] = [token[t] EXCEPT !.revoked = TRUE] /\ token'[t] # None
  BY <1>2, <1>3 DEF TypeOK
<1>6. Kept
  <2>1. \A u \in Token \ {t} : token'[u] = token[u]
    BY <1>3 DEF TypeOK
  <2>. QED BY <1>1, <1>5, <2>1 DEF Kept, Row
<1>. QED BY <1>4, <1>6

-----------------------------------------------------------------------------
(* Steps that the requests do not notice *)

\* Tokens are made, revoked and printed, and time passes.
LEMMA TokensMove ==
    ASSUME Inv, Kept, shown \subseteq shown', now' \in Nat, now <= now',
           UNCHANGED <<server, call, job, effect, marks, enabled>>
    PROVE  /\ AuthorityHolds' /\ AuditTells'
           /\ \A q \in Request : RequestInv(q)'
           /\ \A x \in Caller : JobInv(x)'
<1>1. ASSUME NEW q \in Request, stage[q] # "new"
      PROVE  /\ ask[q].with \in Token /\ token[ask[q].with] \in Row
             /\ Opens(ask[q].with, ask[q].to)' <=> Opens(ask[q].with, ask[q].to)
             /\ ~Valid(ask[q].with) => ~Valid(ask[q].with)'
  <2>1. ask[q] \in Asked /\ ask[q].with \in shown
    BY <1>1 DEF Inv, RequestInv
  <2>2. ask[q].with \in Token /\ token[ask[q].with] # None
    BY <2>1 DEF Asked, Inv, TypeOK
  <2>3. token[ask[q].with] \in Row
    BY <2>2 DEF Inv, TypeOK
  <2>4. ask' = ask
    BY DEF server
  <2>5. /\ token'[ask[q].with].scopes = token[ask[q].with].scopes
        /\ token'[ask[q].with].expires = token[ask[q].with].expires
        /\ token[ask[q].with].revoked => token'[ask[q].with].revoked
    BY <2>2 DEF Kept
  <2>6. Opens(ask[q].with, ask[q].to)' <=> Opens(ask[q].with, ask[q].to)
    BY <2>4, <2>5 DEF Opens, HasScope
  <2>7. ~Valid(ask[q].with) => ~Valid(ask[q].with)'
    <3>1. now \in Nat /\ now' \in Nat /\ now <= now'
      BY DEF Inv, TypeOK
    <3>. QED BY <2>3, <2>4, <2>5, <3>1 DEF Valid, Row
  <2>. QED BY <2>2, <2>3, <2>6, <2>7
<1>2. ASSUME NEW q \in Request PROVE RequestInv(q)'
  <2>1. RequestInv(q) /\ UNCHANGED <<stage, ask, audit, job, effect, call, marks>>
    BY DEF Inv, server
  <2>. QED BY <1>1, <2>1 DEF RequestInv, Cleared
<1>3. ASSUME NEW x \in Caller PROVE JobInv(x)'
  BY DEF Inv, JobInv
<1>4. AuditTells'
  BY DEF Inv, AuditTells, server
<1>5. AuthorityHolds'
  <2>1. AuthorityHolds /\ UNCHANGED <<effect, marks, call, ask>>
    BY DEF Inv, server
  <2>2. \A q \in effect \cap Request : stage[q] # "new"
    BY DEF Inv, RequestInv
  <2>. QED BY <1>1, <2>1, <2>2 DEF AuthorityHolds
<1>. QED BY <1>2, <1>3, <1>4, <1>5

\* A command asks the helper.
LEMMA CommandAsks ==
    ASSUME Inv, NEW c \in Command, at[c] = "idle", NEW op \in Operation, NEW d \in Domain,
           Send(c, op, d), NEW k \in Task, task' = [task EXCEPT ![c] = k],
           at' = [at EXCEPT ![c] = "calling"], faults' \in 0..MaxFaults,
           UNCHANGED <<tokens, server, enabled, domains, now>>
    PROVE  Inv'
<1>1. TypeOK /\ c \in Caller /\ c \notin Request
  BY DEF Inv, Caller
<1>2. job[c] = "none" /\ c \notin effect /\ call[c] = None
  BY <1>1 DEF Inv, CommandInv, JobInv
<1>3. /\ call' = [call EXCEPT ![c] = [op |-> op, domain |-> d]]
      /\ [op |-> op, domain |-> d] \in Call
      /\ job' = [job EXCEPT ![c] = "sent"] /\ UNCHANGED <<effect, site>>
      /\ Gated(op) \subseteq enabled => "permitted" \in marks'[c]
  BY <1>1, SendFacts
<1>4. \A y \in Caller : marks[y] \subseteq marks'[y] /\ marks'[y] \subseteq marks[y] \cup {"permitted"}
  BY <1>1, SendFacts
<1>5. \A y \in Caller \ {c} : call'[y] = call[y] /\ job'[y] = job[y]
  BY <1>1, <1>3 DEF TypeOK
<1>6. \A q \in Request : /\ q \in Caller /\ job'[q] = job[q] /\ call'[q] = call[q]
                         /\ marks[q] \subseteq marks'[q]
                         /\ "valid" \in marks'[q] => "valid" \in marks[q]
  BY <1>1, <1>4, <1>5 DEF Caller
<1>7. ASSUME NEW q \in Request PROVE RequestInv(q)'
  <2>1. RequestInv(q) /\ UNCHANGED <<stage, ask, audit, effect, token, shown, now>>
    BY <1>3 DEF Inv, server, tokens
  <2>. QED BY <1>6, <2>1 DEF RequestInv, Cleared, Valid, Opens, HasScope
<1>8. ASSUME NEW x \in Caller PROVE JobInv(x)'
  <2>1. JobInv(x) /\ effect' = effect /\ enabled' = enabled
    BY <1>3 DEF Inv
  <2>2. CASE x = c
    <3>1. /\ job'[c] = "sent" /\ call'[c] = [op |-> op, domain |-> d] /\ call'[c] \in Call
          /\ Gated(op) \subseteq enabled => "permitted" \in marks'[c]
      BY <1>1, <1>3 DEF TypeOK
    <3>. QED BY <1>2, <2>1, <2>2, <3>1 DEF JobInv
  <2>3. CASE x # c
    <3>1. job'[x] = job[x] /\ call'[x] = call[x] /\ marks[x] \subseteq marks'[x]
      BY <2>3, <1>4, <1>5
    <3>. QED BY <2>1, <3>1 DEF JobInv
  <2>. QED BY <2>2, <2>3
<1>9. AuditTells'
  BY <1>6, <1>3 DEF Inv, AuditTells, server
<1>10. AuthorityHolds'
  <2>1. /\ \A x \in Caller \ {c} : call'[x] = call[x] /\ marks[x] \subseteq marks'[x]
        /\ effect' = effect /\ ask' = ask /\ token' = token
    BY <1>3, <1>4, <1>5 DEF server, tokens
  <2>2. effect \subseteq Caller \ {c} /\ AuthorityHolds
    BY <1>1, <1>2 DEF TypeOK, Inv
  <2>. QED BY <1>1, <2>1, <2>2 DEF AuthorityHolds, Opens, HasScope, Caller
<1>11. TypeOK'
  <2>1. call' \in [Caller -> Call \cup {None}] /\ marks' \in [Caller -> SUBSET Mark]
    BY <1>1, SendFacts
  <2>2. /\ at' \in [Command -> {"idle", "revoking", "showing", "calling", "storing", "done"}]
        /\ task' \in [Command -> Task \cup {None}]
    BY <1>1 DEF TypeOK
  <2>. QED BY <1>1, <1>3, <2>1, <2>2 DEF TypeOK, server, tokens, domains
<1>12. ASSUME NEW e \in Command PROVE CommandInv(e)'
  <2>1. CommandInv(e) /\ e \in Caller
    BY DEF Inv, Caller
  <2>2. CASE e = c
    BY <1>1, <1>3, <2>1, <2>2 DEF TypeOK, CommandInv
  <2>3. CASE e # c
    BY <1>1, <1>3, <1>5, <2>1, <2>3 DEF TypeOK, CommandInv, tokens
  <2>. QED BY <2>2, <2>3
<1>. QED BY <1>7, <1>8, <1>9, <1>10, <1>11, <1>12 DEF Inv

-----------------------------------------------------------------------------
(* Commands *)

LEMMA CreateTokenKeeps ==
    ASSUME Inv, NEW c \in Command, CreateToken(c)
    PROVE  Inv'
<1>1. TypeOK /\ now \in Nat
  BY DEF Inv, TypeOK
<1>2. Kept
  BY <1>1, InsertFacts DEF CreateToken, Grant, Step, Begin, domains, server, helper
<1>3. TypeOK'
  <2>1. PICK g \in Grants : token' = Insert(NewID, g) /\ Begin(c, "create", NewID, None)
    BY DEF CreateToken
  <2>2. /\ token' \in [Token -> Row \cup {None}] /\ NewID \in Token
        /\ \A t \in Token : token[t] # None => token'[t] # None
    BY <1>1, <1>2, <2>1, InsertFacts DEF CreateToken, Kept
  <2>3. /\ at' \in [Command -> {"idle", "revoking", "showing", "calling", "storing", "done"}]
        /\ task' \in [Command -> Task \cup {None}]
    <3>1. [kind |-> "create", made |-> NewID, old |-> None] \in Task
      BY <2>2 DEF Task, Kind
    <3>. QED BY <1>1, <2>1, <3>1 DEF CreateToken, Step, Begin, TypeOK
  <2>4. shown' \subseteq {t \in Token : token'[t] # None}
    BY <1>1, <2>2 DEF CreateToken, TypeOK
  <2>. QED BY <1>1, <2>2, <2>3, <2>4 DEF CreateToken, TypeOK, Step, domains, server, helper
<1>4. ASSUME NEW d \in Command PROVE CommandInv(d)'
  <2>1. CommandInv(d) /\ NewID \in Token /\ token'[NewID] # None
    BY <1>1, InsertFacts DEF CreateToken, Inv, Grant
  <2>2. CASE d = c
    BY <1>1, <2>1, <2>2 DEF CreateToken, TypeOK, CommandInv, Task, Kind, Step, Begin,
       domains, server, helper
  <2>3. CASE d # c
    BY <1>1, <1>2, <2>1, <2>3 DEF CreateToken, TypeOK, CommandInv, Kept, Task, Step, Begin,
       domains, server, helper
  <2>. QED BY <2>2, <2>3
<1>. QED BY <1>1, <1>2, <1>3, <1>4, TokensMove DEF Inv, CreateToken, Step, Begin, domains,
     server, helper

LEMMA RotateKeeps ==
    ASSUME Inv, NEW c \in Command, Rotate(c)
    PROVE  Inv'
<1>1. TypeOK /\ now \in Nat
  BY DEF Inv, TypeOK
<1>2. Kept
  BY <1>1, InsertFacts DEF Rotate, Grant, Step, Begin, domains, server, helper
<1>3. TypeOK'
  <2>1. PICK old \in (Token \ Unused) \cup {None}, g \in Grants :
            /\ Begin(c, "rotate", NewID, old)
            /\ token' = Insert(NewID, [g EXCEPT !.expires = None])
    BY DEF Rotate
  <2>2. [g EXCEPT !.expires = None] \in Grant
    BY DEF Grant
  <2>3. /\ token' \in [Token -> Row \cup {None}] /\ NewID \in Token
        /\ \A t \in Token : token[t] # None => token'[t] # None
    BY <1>1, <1>2, <2>1, <2>2, InsertFacts DEF Rotate, Kept
  <2>4. /\ at' \in [Command -> {"idle", "revoking", "showing", "calling", "storing", "done"}]
        /\ task' \in [Command -> Task \cup {None}]
    <3>1. [kind |-> "rotate", made |-> NewID, old |-> old] \in Task
      BY <2>3 DEF Task, Kind
    <3>. QED BY <1>1, <2>1, <3>1 DEF Rotate, Step, Begin, TypeOK
  <2>5. shown' \subseteq {t \in Token : token'[t] # None}
    BY <1>1, <2>3 DEF Rotate, TypeOK
  <2>. QED BY <1>1, <2>3, <2>4, <2>5 DEF Rotate, TypeOK, Step, domains, server, helper
<1>4. ASSUME NEW d \in Command PROVE CommandInv(d)'
  <2>1. CommandInv(d) /\ NewID \in Token /\ token'[NewID] # None
    BY <1>1, InsertFacts DEF Rotate, Inv, Grant
  <2>2. CASE d = c
    BY <1>1, <2>1, <2>2 DEF Rotate, TypeOK, CommandInv, Task, Kind, Step, Begin, domains,
       server, helper
  <2>3. CASE d # c
    BY <1>1, <1>2, <2>1, <2>3 DEF Rotate, TypeOK, CommandInv, Kept, Task, Step, Begin,
       domains, server, helper
  <2>. QED BY <2>2, <2>3
<1>. QED BY <1>1, <1>2, <1>3, <1>4, TokensMove DEF Inv, Rotate, Step, Begin, domains,
     server, helper

LEMMA RevokeOldKeeps ==
    ASSUME Inv, NEW c \in Command, RevokeOld(c)
    PROVE  Inv'
<1>1. TypeOK /\ now \in Nat
  BY DEF Inv, TypeOK
<1>2. Kept
  BY <1>1, RevokedFacts DEF RevokeOld, Inv, CommandInv, Task, Revocable, Step, domains,
     server, helper
<1>3. TypeOK'
  BY <1>1, <1>2, RevokedFacts DEF RevokeOld, TypeOK, Inv, CommandInv, Task, Kind, Kept,
     Revocable, Step, domains, server, helper
<1>4. ASSUME NEW d \in Command PROVE CommandInv(d)'
  BY <1>1, <1>2 DEF RevokeOld, Inv, TypeOK, CommandInv, Kept, Task, Step, domains, server,
     helper
<1>. QED BY <1>1, <1>2, <1>3, <1>4, TokensMove DEF Inv, RevokeOld, Step, domains, server,
     helper

LEMMA RevokeKeeps ==
    ASSUME Inv, NEW c \in Command, Revoke(c)
    PROVE  Inv'
<1>1. TypeOK /\ now \in Nat
  BY DEF Inv, TypeOK
<1>2. Kept
  BY <1>1, RevokedFacts DEF Revoke, Inv, CommandInv, Task, Revocable, Step, Begin, domains,
     server, helper
<1>3. TypeOK'
  BY <1>1, <1>2, RevokedFacts DEF Revoke, TypeOK, Inv, CommandInv, Task, Kind, Kept,
     Revocable, Step, Begin, domains, server, helper
<1>4. ASSUME NEW d \in Command PROVE CommandInv(d)'
  BY <1>1, <1>2 DEF Revoke, Inv, TypeOK, CommandInv, Kept, Task, Step, Begin, domains,
     server, helper
<1>. QED BY <1>1, <1>2, <1>3, <1>4, TokensMove DEF Inv, Revoke, Step, Begin, domains,
     server, helper

LEMMA RevokeOldFailsKeeps ==
    ASSUME Inv, NEW c \in Command, RevokeOldFails(c)
    PROVE  Inv'
<1>1. TypeOK /\ now \in Nat
  BY DEF Inv, TypeOK
<1>2. Kept
  BY DEF RevokeOldFails, Kept, Step, Fault, tokens, domains, server, helper
<1>3. TypeOK'
  BY <1>1 DEF RevokeOldFails, TypeOK, Inv, CommandInv, Task, Kind, Call, Step, Fault,
     tokens, domains, server, helper
<1>4. ASSUME NEW d \in Command PROVE CommandInv(d)'
  BY <1>1, <1>2 DEF RevokeOldFails, Inv, TypeOK, CommandInv, Kept, Task, Step, Fault,
     tokens, domains, server, helper
<1>. QED BY <1>1, <1>2, <1>3, <1>4, TokensMove DEF Inv, RevokeOldFails, Step, Fault, tokens,
     domains, server, helper

LEMMA ShowKeeps ==
    ASSUME Inv, NEW c \in Command, Show(c)
    PROVE  Inv'
<1>1. TypeOK /\ now \in Nat
  BY DEF Inv, TypeOK
<1>2. Kept
  BY DEF Show, Kept, Step, domains, server, helper
<1>3. TypeOK'
  BY <1>1 DEF Show, TypeOK, Inv, CommandInv, Task, Kind, Call, Step, domains, server, helper
<1>4. ASSUME NEW d \in Command PROVE CommandInv(d)'
  BY <1>1, <1>2 DEF Show, Inv, TypeOK, CommandInv, Kept, Task, Step, domains, server, helper
<1>. QED BY <1>1, <1>2, <1>3, <1>4, TokensMove DEF Inv, Show, Step, domains, server, helper

LEMMA AdoptKeeps ==
    ASSUME Inv, NEW c \in Command, Adopt(c)
    PROVE  Inv'
<1>1. TypeOK /\ now \in Nat
  BY DEF Inv, TypeOK
<1>2. Kept
  BY DEF Adopt, Kept, Step, Begin, tokens, server, helper
<1>3. TypeOK'
  BY <1>1 DEF Adopt, TypeOK, Inv, CommandInv, Task, Kind, Call, Step, Begin, tokens, server,
     helper
<1>4. ASSUME NEW d \in Command PROVE CommandInv(d)'
  BY <1>1, <1>2 DEF Adopt, Inv, TypeOK, CommandInv, Kept, Task, Step, Begin, tokens, server,
     helper
<1>. QED BY <1>1, <1>2, <1>3, <1>4, TokensMove DEF Inv, Adopt, Step, Begin, tokens, server,
     helper

LEMMA StoreDomainKeeps ==
    ASSUME Inv, NEW c \in Command, StoreDomain(c)
    PROVE  Inv'
<1>1. TypeOK /\ now \in Nat
  BY DEF Inv, TypeOK
<1>2. Kept
  BY DEF StoreDomain, Kept, Step, tokens, server, helper
<1>3. TypeOK'
  BY <1>1 DEF StoreDomain, TypeOK, Inv, CommandInv, Task, Kind, Call, Step, tokens, server,
     helper
<1>4. ASSUME NEW d \in Command PROVE CommandInv(d)'
  BY <1>1, <1>2 DEF StoreDomain, Inv, TypeOK, CommandInv, Kept, Task, Step, tokens, server,
     helper
<1>. QED BY <1>1, <1>2, <1>3, <1>4, TokensMove DEF Inv, StoreDomain, Step, tokens, server,
     helper

LEMMA DeleteDomainKeeps ==
    ASSUME Inv, NEW c \in Command, DeleteDomain(c)
    PROVE  Inv'
<1>1. TypeOK /\ now \in Nat
  BY DEF Inv, TypeOK
<1>2. Kept
  BY DEF DeleteDomain, Kept, Step, tokens, server, helper
<1>3. TypeOK'
  BY <1>1 DEF DeleteDomain, TypeOK, Inv, CommandInv, Task, Kind, Call, Step, tokens, server,
     helper
<1>4. ASSUME NEW d \in Command PROVE CommandInv(d)'
  BY <1>1, <1>2 DEF DeleteDomain, Inv, TypeOK, CommandInv, Kept, Task, Step, tokens, server,
     helper
<1>. QED BY <1>1, <1>2, <1>3, <1>4, TokensMove DEF Inv, DeleteDomain, Step, tokens, server,
     helper

LEMMA AnsweredKeeps ==
    ASSUME Inv, NEW c \in Command, Answered(c)
    PROVE  Inv'
<1>1. TypeOK /\ now \in Nat
  BY DEF Inv, TypeOK
<1>2. Kept
  BY DEF Answered, Kept, Step, tokens, domains, server, helper
<1>3. TypeOK'
  BY <1>1 DEF Answered, TypeOK, Step, tokens, domains, server, helper
<1>4. ASSUME NEW d \in Command PROVE CommandInv(d)'
  <2>1. CommandInv(d) /\ JobInv(c) /\ CommandInv(c) /\ call[c] \in Call \cup {None}
    BY <1>1 DEF Inv, Caller, TypeOK
  <2>2. CASE d = c
    BY <1>1, <2>1, <2>2 DEF Answered, TypeOK, CommandInv, JobInv, Step, tokens, domains,
       server, helper
  <2>3. CASE d # c
    BY <1>1, <2>1, <2>3 DEF Answered, TypeOK, CommandInv, Step, tokens, domains, server,
       helper
  <2>. QED BY <2>2, <2>3
<1>. QED BY <1>1, <1>2, <1>3, <1>4, TokensMove DEF Inv, Answered, Step, tokens, domains,
     server, helper

LEMMA StopShortKeeps ==
    ASSUME Inv, NEW c \in Command, StopShort(c)
    PROVE  Inv'
<1>1. TypeOK /\ now \in Nat
  BY DEF Inv, TypeOK
<1>2. Kept
  BY DEF StopShort, Kept, Step, Fault, server, helper
<1>3. TypeOK'
  <2>1. strayed' \subseteq Domain
    BY <1>1 DEF StopShort, TypeOK, Call, Caller
  <2>. QED BY <1>1, <2>1 DEF StopShort, TypeOK, Step, Fault, server, helper
<1>4. ASSUME NEW d \in Command PROVE CommandInv(d)'
  BY <1>1, <1>2 DEF StopShort, Inv, TypeOK, CommandInv, Kept, Task, Step, Fault, server,
     helper
<1>. QED BY <1>1, <1>2, <1>3, <1>4, TokensMove DEF Inv, StopShort, Step, Fault, server,
     helper

LEMMA TickKeeps ==
    ASSUME Inv, Tick
    PROVE  Inv'
<1>1. TypeOK /\ now \in Nat
  BY DEF Inv, TypeOK
<1>2. Kept
  BY DEF Tick, Kept, tokens, domains, server, helper, commands
<1>3. TypeOK'
  BY <1>1 DEF Tick, TypeOK, tokens, domains, server, helper, commands
<1>4. ASSUME NEW d \in Command PROVE CommandInv(d)'
  BY <1>1, <1>2 DEF Tick, Inv, TypeOK, CommandInv, Kept, Task, tokens, domains, server,
     helper, commands
<1>. QED BY <1>1, <1>2, <1>3, <1>4, TokensMove DEF Inv, Tick, tokens, domains, server,
     helper, commands

LEMMA MapKeeps ==
    ASSUME Inv, NEW c \in Command, Map(c)
    PROVE  Inv'
<1>1. /\ at[c] = "idle" /\ "site.create_reverse_proxy" \in Operation
      /\ at' = [at EXCEPT ![c] = "calling"] /\ UNCHANGED <<tokens, server, enabled, domains, now>>
  BY CommandsAreOperations DEF Begin, Step, Map
<1>2. PICK d \in Domain : Send(c, "site.create_reverse_proxy", d)
  BY DEF Map, TypeOK, Inv
<1>3. PICK k \in Task : task' = [task EXCEPT ![c] = k]
  BY DEF Map, Begin, Task, Kind
<1>4. faults' \in 0..MaxFaults
  BY DEF Map, Fault, Inv, TypeOK
<1>. QED BY <1>1, <1>2, <1>3, <1>4, CommandAsks

LEMMA UnmapKeeps ==
    ASSUME Inv, NEW c \in Command, Unmap(c)
    PROVE  Inv'
<1>1. /\ at[c] = "idle" /\ "site.delete" \in Operation
      /\ at' = [at EXCEPT ![c] = "calling"] /\ UNCHANGED <<tokens, server, enabled, domains, now>>
  BY CommandsAreOperations DEF Begin, Step, Unmap
<1>2. PICK d \in Domain : Send(c, "site.delete", d)
  BY DEF Unmap, TypeOK, Inv
<1>3. PICK k \in Task : task' = [task EXCEPT ![c] = k]
  BY DEF Unmap, Begin, Task, Kind
<1>4. faults' \in 0..MaxFaults
  BY DEF Unmap, Inv, TypeOK
<1>. QED BY <1>1, <1>2, <1>3, <1>4, CommandAsks

LEMMA IssueCertificateKeeps ==
    ASSUME Inv, NEW c \in Command, IssueCertificate(c)
    PROVE  Inv'
<1>1. /\ at[c] = "idle" /\ "certificate.lets_encrypt" \in Operation
      /\ at' = [at EXCEPT ![c] = "calling"] /\ UNCHANGED <<tokens, server, enabled, domains, now>>
  BY CommandsAreOperations DEF Begin, Step, IssueCertificate
<1>2. PICK d \in Domain : Send(c, "certificate.lets_encrypt", d)
  BY DEF IssueCertificate, TypeOK, Inv
<1>3. PICK k \in Task : task' = [task EXCEPT ![c] = k]
  BY DEF IssueCertificate, Begin, Task, Kind
<1>4. faults' \in 0..MaxFaults
  BY DEF IssueCertificate, Inv, TypeOK
<1>. QED BY <1>1, <1>2, <1>3, <1>4, CommandAsks

LEMMA OperateKeeps ==
    ASSUME Inv, NEW c \in Command, Operate(c)
    PROVE  Inv'
<1>1. /\ at[c] = "idle" /\ at' = [at EXCEPT ![c] = "calling"]
      /\ UNCHANGED <<tokens, server, enabled, domains, now>>
  BY DEF Begin, Step, Operate
<1>2. PICK op \in Operation, d \in Domain : Send(c, op, d)
  BY CommandsAreOperations DEF Operate
<1>3. PICK k \in Task : task' = [task EXCEPT ![c] = k]
  BY DEF Operate, Begin, Task, Kind
<1>4. faults' \in 0..MaxFaults
  BY DEF Operate, Inv, TypeOK
<1>. QED BY <1>1, <1>2, <1>3, <1>4, CommandAsks

LEMMA SetPolicyKeeps ==
    ASSUME Inv, NEW c \in Command, SetPolicy(c)
    PROVE  Inv'
<1>1. /\ TypeOK /\ UNCHANGED <<token, shown, excused, mapped, strayed, stage, ask, gone, audit>>
      /\ UNCHANGED <<call, job, effect, site, now, faults>>
      /\ at' = [at EXCEPT ![c] = "done"]
  BY DEF SetPolicy, Inv, Step, tokens, domains, server, helper
<1>2. \A x \in Caller : /\ marks[x] \subseteq marks'[x]
                        /\ marks'[x] \subseteq marks[x] \cup {"permitted"}
                        /\ job[x] = "sent" /\ Gated(call[x].op) \subseteq enabled' =>
                              "permitted" \in marks'[x]
  BY DEF SetPolicy, TypeOK
<1>3. TypeOK'
  <2>1. marks' \in [Caller -> SUBSET Mark]
    BY <1>1 DEF SetPolicy, TypeOK, Mark
  <2>2. /\ enabled' \subseteq Policy
        /\ at' \in [Command -> {"idle", "revoking", "showing", "calling", "storing", "done"}]
        /\ task' \in [Command -> Task \cup {None}]
    BY <1>1 DEF SetPolicy, Begin, TypeOK, Task, Kind
  <2>. QED BY <1>1, <2>1, <2>2 DEF TypeOK
<1>4. ASSUME NEW q \in Request PROVE RequestInv(q)'
  <2>1. q \in Caller /\ RequestInv(q)
    BY DEF Inv, Caller
  <2>. QED BY <1>1, <1>2, <2>1 DEF RequestInv, Cleared, Opens, HasScope, Valid
<1>5. ASSUME NEW x \in Caller PROVE JobInv(x)'
  BY <1>1, <1>2 DEF Inv, JobInv
<1>6. ASSUME NEW e \in Command PROVE CommandInv(e)'
  BY <1>1 DEF SetPolicy, Begin, Inv, CommandInv, TypeOK
<1>7. AuthorityHolds' /\ AuditTells'
  BY <1>1, <1>2 DEF Inv, AuthorityHolds, AuditTells, Opens, HasScope, TypeOK, Caller
<1>. QED BY <1>3, <1>4, <1>5, <1>6, <1>7 DEF Inv

-----------------------------------------------------------------------------
(* Requests *)

LEMMA AskKeeps ==
    ASSUME Inv, NEW q \in Request, Ask(q)
    PROVE  Inv'
<1>1. TypeOK'
  BY DEF Ask, Inv, TypeOK, RequestInv, Caller, Asked, Mark, tokens, domains, helper,
     commands
<1>2. AuthorityHolds'
  <2>1. /\ TypeOK /\ RequestInv(q) /\ JobInv(q) /\ q \notin effect /\ q \in Caller
        /\ effect' = effect /\ call' = call /\ token' = token
    BY DEF Ask, Inv, RequestInv, Caller, helper, tokens
  <2>2. \A x \in Caller \ {q} : marks'[x] = marks[x]
    BY <2>1 DEF Ask, TypeOK
  <2>3. \A p \in Request \ {q} : ask'[p] = ask[p]
    BY <2>1 DEF Ask, TypeOK
  <2>4. effect \subseteq Caller \ {q} /\ AuthorityHolds
    BY <2>1 DEF Inv, TypeOK
  <2>. QED BY <2>1, <2>2, <2>3, <2>4 DEF AuthorityHolds, Opens, HasScope
<1>3. AuditTells'
  BY DEF Ask, Inv, AuditTells, TypeOK, RequestInv, JobInv, Asked, Caller, tokens, domains,
     helper, commands
<1>4. ASSUME NEW p \in Request PROVE RequestInv(p)'
  BY DEF Ask, Inv, TypeOK, RequestInv, Cleared, Valid, Asked, Row, Caller, Opens, HasScope,
     tokens, domains, helper, commands
<1>5. ASSUME NEW x \in Caller PROVE JobInv(x)'
  <2>1. /\ RequestInv(q) /\ JobInv(x) /\ TypeOK /\ stage[q] = "new" /\ q \in Caller
        /\ UNCHANGED <<enabled, call, job, effect>> /\ job[q] = "none" /\ q \notin effect
    BY DEF Ask, Inv, RequestInv, Caller, helper
  <2>2. x # q => marks'[x] = marks[x]
    BY DEF Ask, Inv, TypeOK
  <2>. QED BY <2>1, <2>2 DEF JobInv
<1>6. ASSUME NEW c \in Command PROVE CommandInv(c)'
  BY DEF Ask, Inv, TypeOK, CommandInv, Caller, Task, tokens, domains, helper, commands
<1>. QED BY <1>1, <1>2, <1>3, <1>4, <1>5, <1>6 DEF Inv

LEMMA LeaveKeeps ==
    ASSUME Inv, NEW q \in Request, Leave(q)
    PROVE  Inv'
<1>1. TypeOK'
  BY DEF Leave, Inv, TypeOK, RequestInv, Caller, Asked, Mark, tokens, domains, helper,
     commands
<1>2. AuthorityHolds'
  BY DEF Leave, Inv, AuthorityHolds, TypeOK, RequestInv, Cleared, Caller, Opens, HasScope,
     tokens, domains, helper, commands
<1>3. AuditTells'
  BY DEF Leave, Inv, AuditTells, TypeOK, RequestInv, JobInv, Asked, Caller, tokens, domains,
     helper, commands
<1>4. ASSUME NEW p \in Request PROVE RequestInv(p)'
  BY DEF Leave, Inv, TypeOK, RequestInv, Cleared, Valid, Asked, Row, Caller, Opens,
     HasScope, tokens, domains, helper, commands
<1>5. ASSUME NEW x \in Caller PROVE JobInv(x)'
  BY DEF Leave, Inv, TypeOK, RequestInv, JobInv, Caller, tokens, domains, helper, commands
<1>6. ASSUME NEW c \in Command PROVE CommandInv(c)'
  BY DEF Leave, Inv, TypeOK, CommandInv, Caller, Task, tokens, domains, helper, commands
<1>. QED BY <1>1, <1>2, <1>3, <1>4, <1>5, <1>6 DEF Inv

LEMMA AuthorizeKeeps ==
    ASSUME Inv, NEW q \in Request, Authorize(q)
    PROVE  Inv'
<1>1. TypeOK'
  BY DEF Authorize, Inv, TypeOK, RequestInv, Caller, Asked, Mark, Move, tokens, domains,
     helper, commands
<1>2. AuthorityHolds'
  BY DEF Authorize, Inv, AuthorityHolds, TypeOK, RequestInv, Cleared, Caller, Opens,
     HasScope, Move, tokens, domains, helper, commands
<1>3. AuditTells'
  BY DEF Authorize, Inv, AuditTells, TypeOK, RequestInv, JobInv, Asked, Caller, Move,
     tokens, domains, helper, commands
<1>4. ASSUME NEW p \in Request PROVE RequestInv(p)'
  BY DEF Authorize, Inv, TypeOK, RequestInv, Cleared, Permitted, Active, Valid, Asked, Row,
     Caller, Opens, HasScope, Move, tokens, domains, helper, commands
<1>5. ASSUME NEW x \in Caller PROVE JobInv(x)'
  BY DEF Authorize, Inv, TypeOK, RequestInv, JobInv, Caller, Move, tokens, domains, helper,
     commands
<1>6. ASSUME NEW c \in Command PROVE CommandInv(c)'
  BY DEF Authorize, Inv, TypeOK, CommandInv, Caller, Task, Move, tokens, domains, helper,
     commands
<1>. QED BY <1>1, <1>2, <1>3, <1>4, <1>5, <1>6 DEF Inv

LEMMA DenyKeeps ==
    ASSUME Inv, NEW q \in Request, Deny(q)
    PROVE  Inv'
<1>1. TypeOK'
  BY DEF Deny, Inv, TypeOK, RequestInv, Caller, Asked, Mark, Move, Fault, tokens, domains,
     helper, commands
<1>2. AuthorityHolds'
  BY DEF Deny, Inv, AuthorityHolds, TypeOK, RequestInv, Cleared, Caller, Opens, HasScope,
     Move, Fault, tokens, domains, helper, commands
<1>3. AuditTells'
  BY DEF Deny, Inv, AuditTells, TypeOK, RequestInv, JobInv, Asked, Caller, Move, Fault,
     tokens, domains, helper, commands
<1>4. ASSUME NEW p \in Request PROVE RequestInv(p)'
  BY DEF Deny, Inv, TypeOK, RequestInv, Cleared, Permitted, Active, Valid, Asked, Row,
     Caller, Opens, HasScope, Move, Fault, tokens, domains, helper, commands
<1>5. ASSUME NEW x \in Caller PROVE JobInv(x)'
  BY DEF Deny, Inv, TypeOK, RequestInv, JobInv, Caller, Move, Fault, tokens, domains,
     helper, commands
<1>6. ASSUME NEW c \in Command PROVE CommandInv(c)'
  BY DEF Deny, Inv, TypeOK, CommandInv, Caller, Task, Move, Fault, tokens, domains, helper,
     commands
<1>. QED BY <1>1, <1>2, <1>3, <1>4, <1>5, <1>6 DEF Inv

LEMMA ServeKeeps ==
    ASSUME Inv, NEW q \in Request, Serve(q)
    PROVE  Inv'
<1>1. TypeOK'
  BY DEF Serve, Inv, TypeOK, RequestInv, Caller, Asked, Mark, Move, tokens, domains,
     commands
<1>2. AuthorityHolds'
  BY ZenonT(60) DEF Serve, Inv, AuthorityHolds, TypeOK, RequestInv, Cleared, Caller, Opens, HasScope,
     Move, tokens, domains, commands
<1>3. AuditTells'
  <2>1. ask[q] \in Asked /\ ask[q].to.op \in ServerOps
    BY DEF Serve, Inv, RequestInv
  <2>2. ask[q].to.event = "none"
    BY <2>1, ServedAreSilent DEF Asked
  <2>3. audit[q] = None
    BY DEF Serve, Inv, RequestInv
  <2>. QED BY <2>2, <2>3 DEF Serve, Inv, AuditTells, TypeOK, Move
<1>4. ASSUME NEW p \in Request PROVE RequestInv(p)'
  BY DEF Serve, Inv, TypeOK, RequestInv, Cleared, Valid, Asked, Row, Caller, Opens,
     HasScope, Move, tokens, domains, commands
<1>5. ASSUME NEW x \in Caller PROVE JobInv(x)'
  BY DEF Serve, Inv, TypeOK, RequestInv, JobInv, Caller, Move, tokens, domains, commands
<1>6. ASSUME NEW c \in Command PROVE CommandInv(c)'
  BY DEF Serve, Inv, TypeOK, CommandInv, Caller, Task, Move, tokens, domains, commands
<1>. QED BY <1>1, <1>2, <1>3, <1>4, <1>5, <1>6 DEF Inv

LEMMA HandFailsKeeps ==
    ASSUME Inv, NEW q \in Request, HandFails(q)
    PROVE  Inv'
<1>1. TypeOK'
  BY DEF HandFails, Inv, TypeOK, RequestInv, Caller, Asked, Mark, Move, Fault, tokens,
     domains, helper, commands
<1>2. AuthorityHolds'
  BY DEF HandFails, Inv, AuthorityHolds, TypeOK, RequestInv, Cleared, Caller, Opens,
     HasScope, Move, Fault, tokens, domains, helper, commands
<1>3. AuditTells'
  BY DEF HandFails, Inv, AuditTells, TypeOK, RequestInv, JobInv, Asked, Caller, Move, Fault,
     tokens, domains, helper, commands
<1>4. ASSUME NEW p \in Request PROVE RequestInv(p)'
  BY DEF HandFails, Inv, TypeOK, RequestInv, Cleared, Valid, Asked, Row, Caller, Opens,
     HasScope, Move, Fault, tokens, domains, helper, commands
<1>5. ASSUME NEW x \in Caller PROVE JobInv(x)'
  <2>1. /\ TypeOK /\ RequestInv(q) /\ JobInv(x) /\ stage[q] = "authorized" /\ q \in Caller
        /\ job' = [job EXCEPT ![q] = "lost"] /\ UNCHANGED <<effect, call, marks, enabled>>
    BY DEF HandFails, Inv, Caller, Move
  <2>2. CASE x = q
    BY <2>1, <2>2 DEF RequestInv, JobInv, TypeOK
  <2>3. CASE x # q
    BY <2>1, <2>3 DEF JobInv, TypeOK
  <2>. QED BY <2>2, <2>3
<1>6. ASSUME NEW c \in Command PROVE CommandInv(c)'
  BY DEF HandFails, Inv, TypeOK, CommandInv, Caller, Task, Move, Fault, tokens, domains,
     helper, commands
<1>. QED BY <1>1, <1>2, <1>3, <1>4, <1>5, <1>6 DEF Inv

LEMMA ReceiveKeeps ==
    ASSUME Inv, NEW q \in Request, Receive(q)
    PROVE  Inv'
<1>1. TypeOK'
  BY DEF Receive, Inv, TypeOK, RequestInv, Caller, Asked, Mark, Move, tokens, domains,
     helper, commands
<1>2. AuthorityHolds'
  BY DEF Receive, Inv, AuthorityHolds, TypeOK, RequestInv, Cleared, Caller, Opens, HasScope,
     Move, tokens, domains, helper, commands
<1>3. AuditTells'
  BY DEF Receive, Inv, AuditTells, TypeOK, RequestInv, JobInv, Asked, Caller, Move, tokens,
     domains, helper, commands
<1>4. ASSUME NEW p \in Request PROVE RequestInv(p)'
  BY DEF Receive, Inv, TypeOK, RequestInv, Cleared, Valid, Asked, Row, Caller, Opens,
     HasScope, Move, tokens, domains, helper, commands
<1>5. ASSUME NEW x \in Caller PROVE JobInv(x)'
  BY DEF Receive, Inv, TypeOK, RequestInv, JobInv, Caller, Move, tokens, domains, helper,
     commands
<1>6. ASSUME NEW c \in Command PROVE CommandInv(c)'
  BY DEF Receive, Inv, TypeOK, CommandInv, Caller, Task, Move, tokens, domains, helper,
     commands
<1>. QED BY <1>1, <1>2, <1>3, <1>4, <1>5, <1>6 DEF Inv

LEMMA HandKeeps ==
    ASSUME Inv, NEW q \in Request, Hand(q)
    PROVE  Inv'
<1>1. /\ TypeOK /\ q \in Caller /\ RequestInv(q) /\ JobInv(q) /\ stage[q] = "authorized"
      /\ stage' = [stage EXCEPT ![q] = "waiting"]
      /\ UNCHANGED <<tokens, enabled, domains, ask, gone, audit, commands, now, faults>>
  BY DEF Inv, Caller, Hand, Move
<1>2. PICK op \in Operation, d \in Domain : Send(q, op, d)
  BY <1>1 DEF Hand, RequestInv, Asked, Operation
<1>3. /\ call' = [call EXCEPT ![q] = [op |-> op, domain |-> d]]
      /\ [op |-> op, domain |-> d] \in Call /\ call' \in [Caller -> Call \cup {None}]
      /\ job' = [job EXCEPT ![q] = "sent"] /\ UNCHANGED <<effect, site>>
      /\ Gated(op) \subseteq enabled => "permitted" \in marks'[q]
      /\ marks' \in [Caller -> SUBSET Mark]
  BY <1>1, <1>2, SendFacts
<1>4. \A y \in Caller : marks[y] \subseteq marks'[y] /\ marks'[y] \subseteq marks[y] \cup {"permitted"}
  BY <1>1, <1>2, SendFacts
<1>5. \A y \in Caller \ {q} : call'[y] = call[y] /\ job'[y] = job[y]
  BY <1>1, <1>3 DEF TypeOK
<1>6. /\ UNCHANGED <<token, shown, enabled, ask, audit, now, effect, at, task>>
      /\ job[q] = "none" /\ q \notin effect /\ call[q] = None /\ Cleared(q)
      /\ job'[q] = "sent" /\ call'[q] = [op |-> op, domain |-> d] /\ stage'[q] = "waiting"
      /\ \A p \in Request \ {q} : stage'[p] = stage[p]
  BY <1>1, <1>3 DEF tokens, commands, RequestInv, TypeOK
<1>7. TypeOK'
  BY <1>1, <1>3 DEF TypeOK, tokens, domains, commands
<1>8. ASSUME NEW p \in Request PROVE RequestInv(p)'
  <2>1. p \in Caller /\ RequestInv(p)
    BY DEF Inv, Caller
  <2>2. (Cleared(p)' <=> Cleared(p)) /\ (Valid(ask[p].with)' <=> Valid(ask[p].with))
    BY <1>4, <1>6, <2>1 DEF Cleared, Opens, HasScope, Valid
  <2>3. CASE p = q
    BY <1>1, <1>6, <2>1, <2>2, <2>3 DEF RequestInv
  <2>4. CASE p # q
    BY <1>4, <1>5, <1>6, <2>1, <2>2, <2>4 DEF RequestInv
  <2>. QED BY <2>3, <2>4
<1>9. ASSUME NEW x \in Caller PROVE JobInv(x)'
  <2>1. JobInv(x) /\ marks[x] \subseteq marks'[x]
    BY <1>4 DEF Inv
  <2>2. CASE x = q
    BY <1>3, <1>6, <2>1, <2>2 DEF JobInv
  <2>3. CASE x # q
    BY <1>5, <1>6, <2>1, <2>3 DEF JobInv
  <2>. QED BY <2>2, <2>3
<1>10. ASSUME NEW c \in Command PROVE CommandInv(c)'
  <2>1. c \in Caller \ {q} /\ CommandInv(c)
    BY DEF Inv, Caller
  <2>. QED BY <1>5, <1>6, <2>1 DEF CommandInv
<1>11. AuditTells'
  <2>1. \A p \in Request : p \in Caller /\ marks[p] \subseteq marks'[p]
    BY <1>4 DEF Caller
  <2>. QED BY <1>6, <2>1 DEF Inv, AuditTells
<1>12. AuthorityHolds'
  <2>1. effect \subseteq Caller \ {q} /\ AuthorityHolds
    BY <1>1, <1>6 DEF TypeOK, Inv
  <2>. QED BY SMTT(30), <1>4, <1>5, <1>6, <2>1 DEF AuthorityHolds, Opens, HasScope
<1>. QED BY <1>7, <1>8, <1>9, <1>10, <1>11, <1>12 DEF Inv

LEMMA RecordKeeps ==
    ASSUME Inv, NEW q \in Request, Record(q)
    PROVE  Inv'
<1>1. /\ TypeOK /\ q \in Caller /\ RequestInv(q) /\ JobInv(q) /\ stage[q] = "auditing"
      /\ stage' = [stage EXCEPT ![q] = "done"]
      /\ UNCHANGED <<tokens, enabled, domains, ask, gone, helper, commands, now>>
  BY DEF Inv, Caller, Record, Move, helper
<1>2. \/ ask[q].to.event = "none" /\ UNCHANGED <<audit, faults, marks>>
      \/ audit' = [audit EXCEPT ![q] = Outcome(q)] /\ UNCHANGED <<faults, marks>>
      \/ /\ marks' = [marks EXCEPT ![q] = @ \cup {"unrecorded"}] /\ UNCHANGED audit
         /\ faults' \in 0..MaxFaults
  BY <1>1 DEF Record, Fault, TypeOK
<1>3. /\ marks' \in [Caller -> SUBSET Mark] /\ faults' \in 0..MaxFaults
      /\ audit' \in [Request -> {None, "ok", "error"}]
      /\ \A p \in Request \ {q} : audit'[p] = audit[p] /\ stage'[p] = stage[p]
  BY <1>1, <1>2 DEF TypeOK, Mark, Outcome
<1>4. \A x \in Caller : /\ marks[x] \subseteq marks'[x]
                        /\ marks'[x] \subseteq marks[x] \cup {"unrecorded"}
  BY <1>1, <1>2 DEF TypeOK
<1>5. /\ UNCHANGED <<token, shown, enabled, ask, call, job, effect, now, at, task>>
      /\ stage'[q] = "done"
      /\ \/ ask[q].to.event = "none" /\ audit'[q] = audit[q]
         \/ audit'[q] = Outcome(q)
         \/ audit'[q] = audit[q] /\ "unrecorded" \in marks'[q]
  BY <1>1, <1>2 DEF tokens, helper, commands, TypeOK
<1>6. TypeOK'
  BY <1>1, <1>3 DEF TypeOK, tokens, domains, helper, commands
<1>7. ASSUME NEW p \in Request PROVE RequestInv(p)'
  <2>1. p \in Caller /\ RequestInv(p)
    BY DEF Inv, Caller
  <2>2. (Cleared(p)' <=> Cleared(p)) /\ (Valid(ask[p].with)' <=> Valid(ask[p].with))
    BY <1>4, <1>5, <2>1 DEF Cleared, Opens, HasScope, Valid
  <2>3. CASE p = q
    BY <1>1, <1>5, <2>1, <2>2, <2>3 DEF RequestInv
  <2>4. CASE p # q
    BY <1>3, <1>4, <1>5, <2>1, <2>2, <2>4 DEF RequestInv
  <2>. QED BY <2>3, <2>4
<1>8. ASSUME NEW x \in Caller PROVE JobInv(x)'
  BY <1>4, <1>5 DEF Inv, JobInv
<1>9. ASSUME NEW c \in Command PROVE CommandInv(c)'
  BY <1>5 DEF Inv, CommandInv
<1>10. AuditTells'
  <2>1. SUFFICES ASSUME NEW p \in Request
                 PROVE  /\ audit'[p] = "ok" => p \in effect
                        /\ audit'[p] = "error" /\ p \in effect => "doubtful" \in marks'[p]
                        /\ stage'[p] = "done" /\ p \in effect /\ ask[p].to.event # "none" =>
                              audit'[p] # None \/ "unrecorded" \in marks'[p]
    BY <1>5 DEF AuditTells
  <2>2. /\ marks[p] \subseteq marks'[p]
        /\ audit[p] = "ok" => p \in effect
        /\ audit[p] = "error" /\ p \in effect => "doubtful" \in marks[p]
        /\ stage[p] = "done" /\ p \in effect /\ ask[p].to.event # "none" =>
              audit[p] # None \/ "unrecorded" \in marks[p]
    BY <1>4 DEF Inv, AuditTells, Caller
  <2>3. CASE p = q
    <3>1. job[q] \in {"ok", "failed", "lost"}
      BY <1>1 DEF RequestInv, TypeOK
    <3>2. /\ Outcome(q) = "ok" => q \in effect
          /\ Outcome(q) = "error" /\ q \in effect => "doubtful" \in marks[q]
          /\ Outcome(q) # None
      BY <1>1, <3>1 DEF Outcome, JobInv
    <3>. QED BY <1>5, <2>2, <2>3, <3>2
  <2>4. CASE p # q
    BY <1>3, <2>2, <2>4
  <2>. QED BY <2>3, <2>4
<1>11. AuthorityHolds'
  BY ZenonT(60), <1>1, <1>4, <1>5 DEF Inv, AuthorityHolds, TypeOK, Opens, HasScope
<1>. QED BY <1>6, <1>7, <1>8, <1>9, <1>10, <1>11 DEF Inv

-----------------------------------------------------------------------------
(* The helper *)

\* A job ends or is lost, and what is not known of it any more is marked.
Moved(x) ==
    \/ job'[x] = job[x] /\ (x \in effect' <=> x \in effect)
    \/ job[x] = "running" /\ job'[x] = "ok" /\ x \in effect'
    \/ job[x] = "running" /\ job'[x] = "failed" /\ "doubtful" \in marks'[x]
    \/ /\ job[x] \in {"sent", "running"} \/ (job[x] \in {"ok", "failed"} /\ Waiting(x))
       /\ job'[x] = "lost" /\ (x \in effect' <=> x \in effect) /\ "doubtful" \in marks'[x]

LEMMA JobsMove ==
    ASSUME Inv, TypeOK', \A x \in Caller : Moved(x),
           \A x \in Caller : /\ marks[x] \subseteq marks'[x]
                             /\ marks'[x] \subseteq marks[x] \cup {"doubtful"},
           UNCHANGED <<tokens, enabled, server, call, now, commands>>
    PROVE  Inv'
<1>1. UNCHANGED <<token, shown, enabled, stage, ask, audit, call, now, at, task>>
  BY DEF tokens, server, commands
<1>2. ASSUME NEW q \in Request PROVE RequestInv(q)'
  <2>1. q \in Caller /\ RequestInv(q)
    BY DEF Inv, Caller
  <2>2. /\ "valid" \in marks'[q] <=> "valid" \in marks[q]
        /\ Moved(q)
    BY <2>1
  <2>3. Cleared(q)' <=> Cleared(q)
    BY <1>1, <2>2 DEF Cleared, Opens, HasScope
  <2>4. Valid(ask[q].with)' <=> Valid(ask[q].with)
    BY <1>1 DEF Valid
  <2>. QED BY <1>1, <2>1, <2>2, <2>3, <2>4 DEF RequestInv, Moved, Waiting
<1>3. ASSUME NEW x \in Caller PROVE JobInv(x)'
  BY <1>1 DEF Inv, JobInv, Moved
<1>4. ASSUME NEW c \in Command PROVE CommandInv(c)'
  <2>1. c \in Caller /\ CommandInv(c) /\ Moved(c)
    BY DEF Inv, Caller
  <2>. QED BY <1>1, <2>1 DEF CommandInv, Moved
<1>5. AuditTells'
  <2>1. SUFFICES ASSUME NEW q \in Request
                 PROVE  /\ audit[q] = "ok" => q \in effect'
                        /\ audit[q] = "error" /\ q \in effect' => "doubtful" \in marks'[q]
                        /\ stage[q] = "done" /\ q \in effect' /\ ask[q].to.event # "none" =>
                              audit[q] # None \/ "unrecorded" \in marks'[q]
    BY <1>1 DEF AuditTells
  <2>2. q \in Caller /\ Moved(q) /\ RequestInv(q) /\ marks[q] \subseteq marks'[q]
    BY DEF Inv, Caller
  <2>3. /\ audit[q] = "ok" => q \in effect
        /\ audit[q] = "error" /\ q \in effect => "doubtful" \in marks[q]
        /\ stage[q] = "done" /\ q \in effect /\ ask[q].to.event # "none" =>
              audit[q] # None \/ "unrecorded" \in marks[q]
    BY DEF Inv, AuditTells
  <2>4. stage[q] = "done" => (q \in effect' <=> q \in effect)
    BY <2>2 DEF Moved, RequestInv, Waiting
  <2>5. audit[q] \in {"ok", "error"} => stage[q] = "done"
    BY <2>2 DEF RequestInv, Inv, TypeOK
  <2>. QED BY <2>2, <2>3, <2>4, <2>5
<1>6. AuthorityHolds'
  <2>1. ASSUME NEW x \in effect'
        PROVE  x \in Caller /\ (x \in effect \/ job[x] = "running")
    BY <2>1 DEF TypeOK, Moved
  <2>2. ASSUME NEW q \in effect', q \in Request
        PROVE  "valid" \in marks'[q] /\ Opens(ask[q].with, ask[q].to)
    <3>1. q \in Caller /\ RequestInv(q)
      BY <2>2 DEF Inv, Caller
    <3>2. Cleared(q)
      BY <2>1, <2>2, <3>1 DEF RequestInv
    <3>. QED BY <3>1, <3>2 DEF Cleared
  <2>3. ASSUME NEW x \in effect', call[x] # None, Gated(call[x].op) # {}
        PROVE  "permitted" \in marks'[x]
    <3>1. x \in Caller /\ JobInv(x)
      BY <2>1 DEF Inv
    <3>2. "permitted" \in marks[x]
      BY <2>1, <2>3, <3>1 DEF JobInv, Inv, AuthorityHolds
    <3>. QED BY <3>1, <3>2
  <2>. QED BY <1>1, <2>2, <2>3 DEF AuthorityHolds, Opens, HasScope
<1>. QED BY <1>2, <1>3, <1>4, <1>5, <1>6 DEF Inv

LEMMA PerformKeeps ==
    ASSUME Inv, NEW x \in Caller, Perform(x)
    PROVE  Inv'
<1>1. TypeOK /\ job[x] = "running" /\ call[x] \in Call
  BY DEF Inv, JobInv, Perform
<1>2. effect' = effect \cup {x} /\ site' \in [Domain -> {"none", "proxy", "other"}]
  BY <1>1, DoFacts DEF Perform
<1>3. job' = [job EXCEPT ![x] = "ok"] /\ strayed' \subseteq Domain
  BY <1>1 DEF Perform, TypeOK, Call
<1>4. UNCHANGED <<tokens, enabled, mapped, server, call, commands, now, faults, marks>>
  BY DEF Perform
<1>5. TypeOK'
  BY <1>1, <1>2, <1>3, <1>4 DEF TypeOK, tokens, server, commands
<1>6. \A y \in Caller : Moved(y)
  BY <1>1, <1>2, <1>3 DEF Moved, TypeOK
<1>. QED BY <1>4, <1>5, <1>6, JobsMove

LEMMA DeadlineKeeps ==
    ASSUME Inv, NEW x \in Caller, Deadline(x)
    PROVE  Inv'
<1>1. TypeOK /\ job[x] = "running" /\ call[x] \in Call
  BY DEF Inv, JobInv, Deadline
<1>2. /\ effect' \in {effect, effect \cup {x}}
      /\ site' \in [Domain -> {"none", "proxy", "other"}]
  <2>1. CASE Do(x)
    BY <1>1, <2>1, DoFacts
  <2>2. CASE UNCHANGED <<effect, site>>
    BY <1>1, <2>2 DEF TypeOK
  <2>. QED BY <2>1, <2>2 DEF Deadline
<1>3. /\ strayed' \subseteq Domain
      /\ marks' \in [Caller -> SUBSET Mark]
      /\ \A y \in Caller : /\ marks[y] \subseteq marks'[y]
                           /\ marks'[y] \subseteq marks[y] \cup {"doubtful"}
                           /\ y = x => "doubtful" \in marks'[y]
  <2>1. {x} \in SUBSET Caller /\ Lose({x}) /\ \A y \in {x} : call[y] \in Call
    BY <1>1 DEF Deadline
  <2>2. \A y \in Caller : y = x <=> y \in {x}
    OBVIOUS
  <2>. QED BY <1>1, <2>1, <2>2, LoseFacts
<1>4. /\ job' = [job EXCEPT ![x] = "failed"] /\ faults' \in 0..MaxFaults
      /\ UNCHANGED <<tokens, enabled, mapped, server, call, commands, now>>
  BY <1>1 DEF Deadline, Fault, TypeOK
<1>5. TypeOK'
  BY <1>1, <1>2, <1>3, <1>4 DEF TypeOK, tokens, server, commands
<1>6. \A y \in Caller : Moved(y)
  BY <1>1, <1>2, <1>3, <1>4 DEF Moved, TypeOK
<1>. QED BY <1>3, <1>4, <1>5, <1>6, JobsMove

LEMMA HelperDiesKeeps ==
    ASSUME Inv, HelperDies
    PROVE  Inv'
<1> DEFINE lost == {x \in Caller : \/ job[x] \in {"sent", "running"}
                                   \/ job[x] \in {"ok", "failed"} /\ Waiting(x)}
<1>1. /\ TypeOK /\ lost \in SUBSET Caller /\ Lose(lost)
      /\ \A x \in lost : call[x] \in Call
  BY DEF Inv, JobInv, HelperDies
<1>2. /\ job' = [x \in Caller |-> IF x \in lost THEN "lost" ELSE job[x]]
      /\ faults' \in 0..MaxFaults
      /\ UNCHANGED <<tokens, enabled, mapped, server, call, effect, site, commands, now>>
  BY <1>1 DEF HelperDies, Fault, TypeOK
<1>3. /\ strayed' \subseteq Domain /\ marks' \in [Caller -> SUBSET Mark]
      /\ \A x \in Caller : /\ marks[x] \subseteq marks'[x]
                           /\ marks'[x] \subseteq marks[x] \cup {"doubtful"}
                           /\ x \in lost => "doubtful" \in marks'[x]
  <2> HIDE DEF lost
  <2>. QED BY <1>1, LoseFacts
<1>4. TypeOK'
  <2>1. job' \in [Caller -> {"none", "sent", "running", "ok", "failed", "lost"}]
    BY <1>1, <1>2 DEF TypeOK
  <2> HIDE DEF lost
  <2>. QED BY <1>1, <1>2, <1>3, <2>1 DEF TypeOK, tokens, server, commands
<1>5. \A x \in Caller : Moved(x)
  BY <1>1, <1>2, <1>3 DEF Moved
<1> HIDE DEF lost
<1>. QED BY <1>2, <1>3, <1>4, <1>5, JobsMove

LEMMA CheckKeeps ==
    ASSUME Inv, NEW x \in Caller, Check(x)
    PROVE  Inv'
<1>1. TypeOK'
  BY DEF Check, Inv, TypeOK, JobInv, Caller, Call, tokens, domains, server, commands
<1>2. AuthorityHolds'
  BY DEF Check, Inv, AuthorityHolds, TypeOK, RequestInv, JobInv, Cleared, Caller, Opens,
     HasScope, Allowed, tokens, domains, server, commands
<1>3. AuditTells'
  BY DEF Check, Inv, AuditTells, TypeOK, RequestInv, JobInv, Asked, Caller, tokens, domains,
     server, commands
<1>4. ASSUME NEW p \in Request PROVE RequestInv(p)'
  BY DEF Check, Inv, TypeOK, RequestInv, Cleared, Valid, Caller, Opens, HasScope, tokens,
     domains, server, commands
<1>5. ASSUME NEW y \in Caller PROVE JobInv(y)'
  BY DEF Check, Inv, TypeOK, RequestInv, JobInv, Allowed, Caller, tokens, domains, server,
     commands
<1>6. ASSUME NEW c \in Command PROVE CommandInv(c)'
  BY DEF Check, Inv, TypeOK, CommandInv, Caller, Task, tokens, domains, server, commands
<1>. QED BY <1>1, <1>2, <1>3, <1>4, <1>5, <1>6 DEF Inv

LEMMA ForbidKeeps ==
    ASSUME Inv, NEW x \in Caller, Forbid(x)
    PROVE  Inv'
<1>1. TypeOK'
  BY DEF Forbid, Inv, TypeOK, JobInv, Caller, Call, Fault, tokens, domains, server, commands
<1>2. AuthorityHolds'
  BY DEF Forbid, Inv, AuthorityHolds, TypeOK, RequestInv, JobInv, Cleared, Caller, Opens,
     HasScope, Allowed, Fault, tokens, domains, server, commands
<1>3. AuditTells'
  BY DEF Forbid, Inv, AuditTells, TypeOK, RequestInv, JobInv, Asked, Caller, Fault, tokens,
     domains, server, commands
<1>4. ASSUME NEW p \in Request PROVE RequestInv(p)'
  BY DEF Forbid, Inv, TypeOK, RequestInv, Cleared, Valid, Caller, Opens, HasScope, Fault,
     tokens, domains, server, commands
<1>5. ASSUME NEW y \in Caller PROVE JobInv(y)'
  BY DEF Forbid, Inv, TypeOK, RequestInv, JobInv, Allowed, Caller, Fault, tokens, domains,
     server, commands
<1>6. ASSUME NEW c \in Command PROVE CommandInv(c)'
  BY DEF Forbid, Inv, TypeOK, CommandInv, Caller, Task, Fault, tokens, domains, server,
     commands
<1>. QED BY <1>1, <1>2, <1>3, <1>4, <1>5, <1>6 DEF Inv

LEMMA PerformFailsKeeps ==
    ASSUME Inv, NEW x \in Caller, PerformFails(x)
    PROVE  Inv'
<1>1. TypeOK'
  BY DEF PerformFails, Inv, TypeOK, JobInv, Caller, Call, Fault, tokens, domains, server,
     commands
<1>2. AuthorityHolds'
  BY DEF PerformFails, Inv, AuthorityHolds, TypeOK, RequestInv, JobInv, Cleared, Caller,
     Opens, HasScope, Fault, tokens, domains, server, commands
<1>3. AuditTells'
  BY DEF PerformFails, Inv, AuditTells, TypeOK, RequestInv, JobInv, Asked, Caller, Fault,
     tokens, domains, server, commands
<1>4. ASSUME NEW p \in Request PROVE RequestInv(p)'
  BY DEF PerformFails, Inv, TypeOK, RequestInv, Cleared, Valid, Caller, Opens, HasScope,
     Fault, tokens, domains, server, commands
<1>5. ASSUME NEW y \in Caller PROVE JobInv(y)'
  BY DEF PerformFails, Inv, TypeOK, RequestInv, JobInv, Caller, Fault, tokens, domains,
     server, commands
<1>6. ASSUME NEW c \in Command PROVE CommandInv(c)'
  BY DEF PerformFails, Inv, TypeOK, CommandInv, Caller, Task, Fault, tokens, domains,
     server, commands
<1>. QED BY <1>1, <1>2, <1>3, <1>4, <1>5, <1>6 DEF Inv

LEMMA ServerDiesKeeps ==
    ASSUME Inv, ServerDies
    PROVE  Inv'
<1>1. TypeOK'
  BY DEF ServerDies, Inv, TypeOK, JobInv, Caller, Call, Fault, tokens, domains, server,
     helper, commands
<1>2. AuthorityHolds'
  BY DEF ServerDies, Inv, AuthorityHolds, TypeOK, RequestInv, JobInv, Cleared, Caller,
     Opens, HasScope, Fault, tokens, domains, server, helper, commands
<1>3. AuditTells'
  BY DEF ServerDies, Inv, AuditTells, TypeOK, RequestInv, JobInv, Asked, Caller, Fault,
     tokens, domains, server, helper, commands
<1>4. ASSUME NEW p \in Request PROVE RequestInv(p)'
  BY DEF ServerDies, Inv, TypeOK, RequestInv, Cleared, Valid, Caller, Opens, HasScope,
     Fault, tokens, domains, server, helper, commands
<1>5. ASSUME NEW y \in Caller PROVE JobInv(y)'
  BY DEF ServerDies, Inv, TypeOK, RequestInv, JobInv, Caller, Fault, tokens, domains,
     server, helper, commands
<1>6. ASSUME NEW c \in Command PROVE CommandInv(c)'
  BY DEF ServerDies, Inv, TypeOK, CommandInv, Caller, Task, Fault, tokens, domains, server,
     helper, commands
<1>. QED BY <1>1, <1>2, <1>3, <1>4, <1>5, <1>6 DEF Inv

-----------------------------------------------------------------------------
(* Theorems *)

LEMMA InitHolds == Init => Inv
<1> SUFFICES ASSUME Init PROVE Inv
  OBVIOUS
<1> DEFINE row == [scopes |-> {"admin"}, expires |-> None, revoked |-> FALSE]
<1>1. row \in Row
  <2>1. "admin" \in Scope
    BY DEF Scope
  <2>. QED BY <2>1 DEF Row
<1>2. row # None
  BY <1>1
<1>3. token = [t \in Token |-> IF t = Initial THEN row ELSE None] /\ shown = {Initial}
  BY DEF Init
<1> HIDE DEF row
<1>4. token \in [Token -> Row \cup {None}] /\ shown \subseteq {t \in Token : token[t] # None}
  BY <1>1, <1>2, <1>3
<1>5. /\ site \in [Domain -> {"none", "proxy", "other"}]
      /\ now \in 0..MaxTime /\ faults \in 0..MaxFaults
  BY DEF Init
<1>6. /\ stage = [q \in Request |-> "new"] /\ job = [x \in Caller |-> "none"] /\ effect = {}
      /\ audit = [q \in Request |-> None] /\ call = [x \in Caller |-> None]
      /\ at = [c \in Command |-> "idle"]
  BY DEF Init
<1>7. TypeOK
  <2>1. /\ ask = [q \in Request |-> None] /\ task = [c \in Command |-> None]
        /\ marks = [x \in Caller |-> {}] /\ excused = FALSE /\ enabled = {}
        /\ mapped \subseteq Domain /\ strayed = {} /\ gone = {}
    BY DEF Init
  <2>. QED BY <1>4, <1>5, <1>6, <2>1 DEF TypeOK
<1>8. AuthorityHolds /\ AuditTells
  BY <1>6 DEF AuthorityHolds, AuditTells
<1>9. \A q \in Request : RequestInv(q)
  BY <1>6 DEF RequestInv, Caller
<1>10. \A x \in Caller : JobInv(x)
  BY <1>6 DEF JobInv
<1>11. \A c \in Command : CommandInv(c)
  BY <1>6 DEF CommandInv, Caller
<1>. QED BY <1>7, <1>8, <1>9, <1>10, <1>11 DEF Inv

LEMMA StutterKeeps ==
    ASSUME Inv, UNCHANGED vars
    PROVE  Inv'
<1>1. /\ UNCHANGED <<token, shown, excused, enabled, mapped, strayed, stage, ask, gone, audit>>
      /\ UNCHANGED <<call, job, effect, site, at, task, now, faults, marks>>
  BY DEF vars, tokens, domains, server, helper, commands
<1>2. TypeOK' /\ AuthorityHolds' /\ AuditTells'
  BY <1>1 DEF Inv, TypeOK, AuthorityHolds, AuditTells, Opens, HasScope
<1>3. \A q \in Request : RequestInv(q)'
  BY <1>1 DEF Inv, RequestInv, Cleared, Opens, HasScope, Valid
<1>4. \A x \in Caller : JobInv(x)'
  BY <1>1 DEF Inv, JobInv
<1>5. \A c \in Command : CommandInv(c)'
  BY <1>1 DEF Inv, CommandInv
<1>. QED BY <1>2, <1>3, <1>4, <1>5 DEF Inv

LEMMA NextKeeps == Inv /\ [Next]_vars => Inv'
<1> SUFFICES ASSUME Inv, [Next]_vars PROVE Inv'
  OBVIOUS
<1>1. ASSUME NEW q \in Request, Ask(q) \/ Leave(q) \/ Handle(q) PROVE Inv'
  BY <1>1, AskKeeps, LeaveKeeps, AuthorizeKeeps, DenyKeeps, ServeKeeps, HandKeeps,
     HandFailsKeeps, ReceiveKeeps, RecordKeeps DEF Handle
<1>2. ASSUME NEW x \in Caller, Work(x) PROVE Inv'
  BY <1>2, CheckKeeps, ForbidKeeps, PerformKeeps, PerformFailsKeeps, DeadlineKeeps DEF Work
<1>3. ASSUME NEW c \in Command, Execute(c) PROVE Inv'
  BY <1>3, CreateTokenKeeps, RotateKeeps, RevokeOldKeeps, RevokeOldFailsKeeps, ShowKeeps,
     RevokeKeeps, SetPolicyKeeps, MapKeeps, UnmapKeeps, IssueCertificateKeeps, AdoptKeeps,
     OperateKeeps, AnsweredKeeps, StoreDomainKeeps, DeleteDomainKeeps, StopShortKeeps DEF
     Execute
<1>. QED BY <1>1, <1>2, <1>3, HelperDiesKeeps, ServerDiesKeeps, TickKeeps, StutterKeeps DEF
     Next

LEMMA Invariance == Spec => []Inv
BY InitHolds, NextKeeps, PTL DEF Spec

\* The states of Access are well-typed (TypeOK).
THEOREM TypesOK == Spec => []TypeOK
<1>1. Inv => TypeOK
  BY DEF Inv
<1>. QED BY <1>1, Invariance, PTL

\* Nothing is done for a request without a token that was valid when it was used
\* and opens the endpoint, and nothing that is gated without its policy having
\* been enabled since it was asked of the helper, for any number of requests and
\* commands, any managed policies and any failures (Authenticate, Execute).
THEOREM AuthorityIsKept == Spec => []AuthorityHolds
<1>1. Inv => AuthorityHolds
  BY DEF Inv
<1>. QED BY <1>1, Invariance, PTL

\* The audit table has the outcome of what was done, unless the database refused
\* the row, nothing audits the endpoint, or the job was cut off (Audit).
THEOREM AuditIsTold == Spec => []AuditTells
<1>1. Inv => AuditTells
  BY DEF Inv
<1>. QED BY <1>1, Invariance, PTL

-----------------------------------------------------------------------------
(* Endpoints of one operation *)

\* The scopes an operation asks for, through the API and the tools.
Ruled(op, scopes) ==
    \/ \E a \in Actions : op = a.name /\ scopes = {a.scope}
    \/ scopes = {"artifacts:write"} /\ op \in {"artifact.upload", "artifact.begin",
          "artifact.chunk", "artifact.complete", "node.inspect_artifact"}
    \/ scopes = {"docs:read"} /\ op \in {"openapi", "docs"}
    \/ scopes = {"metrics:read"} /\ op = "metrics"
    \/ scopes = {"node:build"} /\ op = "build"
    \/ scopes = {"node:read"} /\ op \in {"node.get_settings", "node.status",
          "node.list_releases"}
    \/ scopes = {"node:write"} /\ op \in {"node.update_settings", "node.restart"}
    \/ scopes = {"node:deploy"} /\ op \in {"node.deploy_release", "node.rollback_release"}
    \/ scopes = {"files:write"} /\ op \in {"deploy.static", "deploy.artifact", "deploy.root"}
    \/ scopes = {"sites:read"} /\ op \in {"static.get_routing", "settings.get"}
    \/ scopes = {"sites:write"} /\ op \in {"static.update_routing", "settings.update_root"}
    \/ scopes = {"logs:read"} /\ op \in {"logs.sources", "logs.query", "logs.diagnose"}
    \/ scopes = {"logs:read", "admin"} /\ op \in {"logs.query_raw", "logs.diagnose_raw"}
    \/ scopes = {"tls:read"} /\ op = "tls.status"
    \/ scopes = {"backups:read"} /\ op = "backup.list"
    \/ scopes = {"backups:write"} /\ op \in {"backup.create", "backup.restore"}
    \/ scopes = {"cron:read"} /\ op = "cron.list"
    \/ scopes = {"cron:write"} /\ op \in {"cron.create", "cron.create_raw", "cron.update",
          "cron.update_raw", "cron.delete"}
    \/ scopes = {"site-users:write"} /\ op = "settings.rotate_password"
    \/ scopes = {"php:read"} /\ op = "settings.get_php"
    \/ scopes = {"php:write"} /\ op = "settings.update_php"
    \/ scopes = {"pagespeed:read"} /\ op = "settings.get_pagespeed"
    \/ scopes = {"pagespeed:write"} /\ op = "settings.update_pagespeed"
    \/ scopes = {"cache:purge"} /\ op = "settings.purge_pagespeed"

LEMMA ActionsHaveOneScope ==
    ASSUME NEW a \in Actions, NEW b \in Actions, a.name = b.name PROVE a.scope = b.scope
BY DEF Actions

LEMMA EndpointsAreRuled == ASSUME NEW e \in Endpoint PROVE Ruled(e.op, e.scopes)
<1>1. e \in ActionEndpoints \cup ActionTools => Ruled(e.op, e.scopes)
  BY DEF ActionEndpoints, ActionTools, Rest, Mcp, Via, Ruled
<1>2. e \in SiteEndpoints => Ruled(e.op, e.scopes)
  <2>1. ASSUME NEW a \in Actions,
               a.name \in {"site.create_static", "site.create_nodejs", "site.create_php",
                           "site.create_python", "site.create_reverse_proxy"}
        PROVE  a.scope = "sites:write"
    BY <2>1 DEF Actions
  <2>2. ASSUME e \in SiteEndpoints
        PROVE  \E a \in Actions : e.op = a.name /\ e.scopes = {a.scope}
    BY <2>1, <2>2 DEF SiteEndpoints, Via
  <2>. QED BY <2>2 DEF Ruled
<1>3. e \in ArtifactEndpoints \cup ArtifactTools \cup DocEndpoints \cup InspectEndpoint
        => Ruled(e.op, e.scopes)
  BY DEF ArtifactEndpoints, ArtifactTools, DocEndpoints, InspectEndpoint, Rest, Mcp, Via, Ruled
<1>4. e \in NodeEndpoints => Ruled(e.op, e.scopes)
  BY DEF NodeEndpoints, Rest, Via, Ruled
<1>5. e \in NodeTools => Ruled(e.op, e.scopes)
  BY DEF NodeTools, Mcp, Via, Ruled
<1>6. e \in StaticEndpoints \cup StaticTools => Ruled(e.op, e.scopes)
  BY DEF StaticEndpoints, StaticTools, Rest, Mcp, Via, Ruled
<1>7. e \in LogEndpoints \cup LogTools => Ruled(e.op, e.scopes)
  BY DEF LogEndpoints, LogTools, Rest, Mcp, Via, Ruled
<1>8. e \in OperationEndpoints \cup DeployTools \cup BackupTools => Ruled(e.op, e.scopes)
  BY DEF OperationEndpoints, DeployTools, BackupTools, Rest, Mcp, Via, Ruled
<1>9. e \in CronEndpoints \cup CronTools => Ruled(e.op, e.scopes)
  BY DEF CronEndpoints, CronTools, Rest, Mcp, Via, Ruled
<1>10. e \in SettingsEndpoints \cup SettingsTools => Ruled(e.op, e.scopes)
  BY DEF SettingsEndpoints, SettingsTools, Rest, Mcp, Via, Ruled
<1>. QED BY <1>1, <1>2, <1>3, <1>4, <1>5, <1>6, <1>7, <1>8, <1>9, <1>10 DEF Endpoint

LEMMA OneRule ==
    ASSUME NEW op, NEW s, NEW t, Ruled(op, s), Ruled(op, t) PROVE s = t
<1>1. CASE \E a \in Actions : op = a.name
  <2>1. PICK a \in Actions : op = a.name
    BY <1>1
  <2>2. op \notin {"artifact.upload", "artifact.begin", "artifact.chunk", "artifact.complete",
           "node.inspect_artifact", "openapi", "docs", "metrics", "build", "node.get_settings",
           "node.status", "node.list_releases", "node.update_settings", "node.restart",
           "node.deploy_release", "node.rollback_release"}
    BY <2>1 DEF Actions
  <2>3. op \notin {"deploy.static", "deploy.artifact", "deploy.root", "static.get_routing",
           "settings.get", "static.update_routing", "settings.update_root", "logs.sources",
           "logs.query", "logs.diagnose", "logs.query_raw", "logs.diagnose_raw", "tls.status",
           "backup.list", "backup.create", "backup.restore"}
    BY <2>1 DEF Actions
  <2>4. op \notin {"cron.list", "cron.create", "cron.create_raw", "cron.update",
           "cron.update_raw", "cron.delete", "settings.rotate_password", "settings.get_php",
           "settings.update_php", "settings.get_pagespeed", "settings.update_pagespeed",
           "settings.purge_pagespeed"}
    BY <2>1 DEF Actions
  <2>5. ASSUME NEW r, Ruled(op, r) PROVE \E b \in Actions : op = b.name /\ r = {b.scope}
    BY <2>2, <2>3, <2>4, <2>5 DEF Ruled
  <2>. QED BY <2>5, ActionsHaveOneScope
<1>2. ASSUME ~\E a \in Actions : op = a.name PROVE s = t
  <2>1. op \in {"artifact.upload", "artifact.begin", "artifact.chunk",
          "artifact.complete", "node.inspect_artifact"} => s = t
    BY <1>2 DEF Ruled
  <2>2. op \in {"openapi", "docs"} => s = t
    BY <1>2 DEF Ruled
  <2>3. op \in {"metrics"} => s = t
    BY <1>2 DEF Ruled
  <2>4. op \in {"build"} => s = t
    BY <1>2 DEF Ruled
  <2>5. op \in {"node.get_settings", "node.status", "node.list_releases"} => s = t
    BY <1>2 DEF Ruled
  <2>6. op \in {"node.update_settings", "node.restart"} => s = t
    BY <1>2 DEF Ruled
  <2>7. op \in {"node.deploy_release", "node.rollback_release"} => s = t
    BY <1>2 DEF Ruled
  <2>8. op \in {"deploy.static", "deploy.artifact", "deploy.root"} => s = t
    BY <1>2 DEF Ruled
  <2>9. op \in {"static.get_routing", "settings.get"} => s = t
    BY <1>2 DEF Ruled
  <2>10. op \in {"static.update_routing", "settings.update_root"} => s = t
    BY <1>2 DEF Ruled
  <2>11. op \in {"logs.sources", "logs.query", "logs.diagnose"} => s = t
    BY <1>2 DEF Ruled
  <2>12. op \in {"logs.query_raw", "logs.diagnose_raw"} => s = t
    BY <1>2 DEF Ruled
  <2>13. op \in {"tls.status"} => s = t
    BY <1>2 DEF Ruled
  <2>14. op \in {"backup.list"} => s = t
    BY <1>2 DEF Ruled
  <2>15. op \in {"backup.create", "backup.restore"} => s = t
    BY <1>2 DEF Ruled
  <2>16. op \in {"cron.list"} => s = t
    BY <1>2 DEF Ruled
  <2>17. op \in {"cron.create", "cron.create_raw", "cron.update", "cron.update_raw",
          "cron.delete"} => s = t
    BY <1>2 DEF Ruled
  <2>18. op \in {"settings.rotate_password"} => s = t
    BY <1>2 DEF Ruled
  <2>19. op \in {"settings.get_php"} => s = t
    BY <1>2 DEF Ruled
  <2>20. op \in {"settings.update_php"} => s = t
    BY <1>2 DEF Ruled
  <2>21. op \in {"settings.get_pagespeed"} => s = t
    BY <1>2 DEF Ruled
  <2>22. op \in {"settings.update_pagespeed"} => s = t
    BY <1>2 DEF Ruled
  <2>23. op \in {"settings.purge_pagespeed"} => s = t
    BY <1>2 DEF Ruled
  <2>24. op \in {"artifact.upload", "artifact.begin", "artifact.chunk",
          "artifact.complete", "node.inspect_artifact", "openapi", "docs", "metrics",
          "build", "node.get_settings", "node.status", "node.list_releases",
          "node.update_settings", "node.restart", "node.deploy_release",
          "node.rollback_release", "deploy.static", "deploy.artifact", "deploy.root",
          "static.get_routing", "settings.get", "static.update_routing",
          "settings.update_root", "logs.sources", "logs.query", "logs.diagnose",
          "logs.query_raw", "logs.diagnose_raw", "tls.status", "backup.list",
          "backup.create", "backup.restore", "cron.list", "cron.create",
          "cron.create_raw", "cron.update", "cron.update_raw", "cron.delete",
          "settings.rotate_password", "settings.get_php", "settings.update_php",
          "settings.get_pagespeed", "settings.update_pagespeed",
          "settings.purge_pagespeed"}
    BY <1>2 DEF Ruled
  <2>. QED
    BY <2>1, <2>2, <2>3, <2>4, <2>5, <2>6, <2>7, <2>8, <2>9, <2>10, <2>11, <2>12,
       <2>13, <2>14, <2>15, <2>16, <2>17, <2>18, <2>19, <2>20, <2>21, <2>22, <2>23,
       <2>24
<1>. QED BY <1>1, <1>2

\* A token opens all the endpoints of an operation or none: the API and the tools ask
\* for the same scopes, whatever scopes tokens are given.
THEOREM OneRuleHolds == Spec => []OneRulePerOperation
<1>1. \A r, u \in Rules : r[1] = u[1] => r[2] = u[2]
  BY EndpointsAreRuled, OneRule DEF Rules
<1>2. Unequal = {}
  BY <1>1 DEF Unequal
<1>3. OneRulePerOperation
  BY <1>2 DEF OneRulePerOperation
<1>4. OneRulePerOperation'
  BY <1>2 DEF OneRulePerOperation
<1>. QED BY <1>3, PTL

-----------------------------------------------------------------------------
(* Rotation *)

Making(c) == at[c] \in {"revoking", "showing"}

\* The token replaced another, which is revoked; it is not printed yet.
Replacing(t) ==
    \E c \in Command : at[c] = "showing" /\ task[c].kind = "rotate" /\ task[c].made = t

\* Tokens that last and that root has, or is about to have.
Standing == {t \in Token : Lasting(t) /\ (t \in shown \/ Replacing(t))}

\* Rotations that will revoke a token, though their own was revoked already.
Waning == {c \in Command : at[c] = "revoking" /\ token[task[c].made].revoked}

\* What a command makes is its own until it is printed; a replacement lasts.
Private(c) ==
    /\ Making(c) =>
          /\ task[c].made \notin shown
          /\ \A b \in Command \ {c} : Making(b) => task[b].made # task[c].made
          /\ task[c].kind = "rotate" =>
                token[task[c].made].expires = None /\ task[c].old # task[c].made
    /\ at[c] = "revoking" => task[c].kind = "rotate"

\* More tokens stand than rotations will take away without giving another.
MoreStand ==
    /\ IsFiniteSet(Standing) /\ IsFiniteSet(Waning)
    /\ Cardinality(Waning) < Cardinality(Standing)

RotationInv == (\A c \in Command : Private(c)) /\ (excused \/ MoreStand)

LEMMA RotationInit == Init => RotationInv
<1> SUFFICES ASSUME Init PROVE RotationInv
  OBVIOUS
<1>1. at = [c \in Command |-> "idle"]
  BY DEF Init
<1>2. \A c \in Command : Private(c)
  BY <1>1 DEF Private, Making
<1>3. Waning = {}
  BY <1>1 DEF Waning
<1>4. \A t \in shown : t = Initial
  BY DEF Init
<1>5. Lasting(Initial) /\ Initial \in shown
  <2>1. token[Initial] = [scopes |-> {"admin"}, expires |-> None, revoked |-> FALSE]
    BY DEF Init
  <2>2. token[Initial] \in Row
    BY <2>1, InitHolds DEF Inv, TypeOK, Init
  <2>. QED BY <2>1, <2>2 DEF Lasting, Init
<1>6. Standing = {Initial}
  BY <1>1, <1>4, <1>5 DEF Standing, Replacing
<1>7. MoreStand
  <2>1. IsFiniteSet(Standing) /\ Cardinality(Standing) = 1
    BY <1>6, FS_Singleton
  <2>. QED BY <1>3, <2>1, FS_EmptySet DEF MoreStand
<1>. QED BY <1>2, <1>7 DEF RotationInv

\* No token is made, revoked or printed, and no command begins to; one that is
\* at it goes on or gives up.
LEMMA QuietRotation ==
    ASSUME RotationInv, UNCHANGED <<token, shown>>, excused => excused',
           \A c \in Command : at'[c] \in {"revoking", "showing"} =>
               at'[c] = at[c] /\ task'[c] = task[c],
           \/ excused'
           \/ \A c \in Command : at[c] = "showing" /\ task[c].kind = "rotate" =>
                  at'[c] = at[c] /\ task'[c] = task[c]
    PROVE  RotationInv'
<1>1. ASSUME NEW c \in Command PROVE Private(c)'
  BY DEF RotationInv, Private, Making
<1>2. ASSUME ~excused' PROVE MoreStand'
  <2>1. Standing' = Standing
    <3>1. \A t : Replacing(t)' <=> Replacing(t)
      BY <1>2 DEF Replacing
    <3>. QED BY <3>1 DEF Standing, Lasting
  <2>2. Waning' \subseteq Waning
    BY DEF Waning
  <2>3. MoreStand
    BY <1>2 DEF RotationInv
  <2>4. /\ IsFiniteSet(Waning') /\ Cardinality(Waning') \in Nat
        /\ Cardinality(Waning') <= Cardinality(Waning)
    BY <2>2, <2>3, FS_Subset, FS_CardinalityType DEF MoreStand
  <2>5. Cardinality(Waning) \in Nat /\ Cardinality(Standing) \in Nat
    BY <2>3, FS_CardinalityType DEF MoreStand
  <2>. QED BY <2>1, <2>3, <2>4, <2>5 DEF MoreStand
<1>. QED BY <1>1, <1>2 DEF RotationInv

LEMMA CreateTokenRotation ==
    ASSUME Inv, RotationInv, NEW c \in Command, CreateToken(c)
    PROVE  RotationInv'
<1>1. PICK g \in Grants : token' = Insert(NewID, g)
  BY DEF CreateToken
<1>2. /\ NewID \in Token /\ token[NewID] = None /\ token'[NewID] \in Row /\ g \in Grant
      /\ \A t \in Token \ {NewID} : token'[t] = token[t]
  <2>1. NewID \in Token /\ token[NewID] = None
    BY DEF CreateToken, Unused, NewID
  <2>. QED BY <1>1, <2>1 DEF Insert, Inv, TypeOK, Grant, Row
<1>3. /\ at[c] = "idle" /\ at' = [at EXCEPT ![c] = "showing"]
      /\ task' = [task EXCEPT ![c] = [kind |-> "create", made |-> NewID, old |-> None]]
      /\ UNCHANGED <<shown, excused>>
  BY DEF CreateToken, Begin, Step
<1>4. /\ at'[c] = "showing" /\ task'[c].kind = "create" /\ task'[c].made = NewID
      /\ \A b \in Command \ {c} : at'[b] = at[b] /\ task'[b] = task[b]
  BY <1>3 DEF Inv, TypeOK
<1>5. NewID \notin shown
  BY <1>2 DEF Inv, TypeOK
<1>6. ASSUME NEW b \in Command \ {c}, Making(b)
      PROVE  task[b].made # NewID /\ task[b].made \in Token
  BY <1>2, <1>6 DEF Inv, CommandInv, Making
<1>7. ASSUME NEW b \in Command PROVE Private(b)'
  <2>1. Private(b)
    BY DEF RotationInv
  <2>2. CASE b = c
    BY <1>3, <1>4, <1>5, <1>6, <2>2 DEF Private, Making
  <2>3. CASE b # c
    BY <1>2, <1>3, <1>4, <1>6, <2>1, <2>3 DEF Private, Making
  <2>. QED BY <2>2, <2>3
<1>8. Standing' = Standing /\ Waning' = Waning
  <2>1. \A t : Replacing(t)' <=> Replacing(t)
    BY <1>3, <1>4 DEF Replacing
  <2>2. ~Replacing(NewID)
    BY <1>3, <1>6 DEF Replacing, Making
  <2>3. \A t \in Token \ {NewID} : Lasting(t)' <=> Lasting(t)
    BY <1>2 DEF Lasting
  <2>4. Standing' = Standing
    BY <1>2, <1>3, <1>5, <2>1, <2>2, <2>3 DEF Standing
  <2>5. Waning' = Waning
    BY <1>2, <1>3, <1>4, <1>6 DEF Waning, Making
  <2>. QED BY <2>4, <2>5
<1>. QED BY <1>3, <1>7, <1>8 DEF RotationInv, MoreStand

LEMMA RotateRotation ==
    ASSUME Inv, RotationInv, NEW c \in Command, Rotate(c)
    PROVE  RotationInv'
<1>1. PICK old \in (Token \ Unused) \cup {None}, g \in Grants :
          Begin(c, "rotate", NewID, old) /\ token' = Insert(NewID, [g EXCEPT !.expires = None])
  BY DEF Rotate
<1>2. /\ NewID \in Token /\ token[NewID] = None /\ g \in Grant /\ old # NewID
      /\ token'[NewID] \in Row /\ token'[NewID].expires = None /\ ~token'[NewID].revoked
      /\ \A t \in Token \ {NewID} : token'[t] = token[t]
  <2>1. NewID \in Token /\ NewID \in Unused /\ token[NewID] = None
    BY DEF Rotate, Unused, NewID
  <2>2. token' = [token EXCEPT ![NewID] =
                     [scopes |-> g.scopes, expires |-> None, revoked |-> FALSE]]
    BY <1>1 DEF Insert, Grant
  <2>. QED BY <2>1, <2>2 DEF Inv, TypeOK, Grant, Row
<1>3. /\ at[c] = "idle" /\ at' = [at EXCEPT ![c] = "revoking"]
      /\ task' = [task EXCEPT ![c] = [kind |-> "rotate", made |-> NewID, old |-> old]]
      /\ UNCHANGED <<shown, excused>>
  BY <1>1 DEF Rotate, Begin, Step
<1>4. /\ at'[c] = "revoking" /\ task'[c].kind = "rotate" /\ task'[c].made = NewID
      /\ task'[c].old = old
      /\ \A b \in Command \ {c} : at'[b] = at[b] /\ task'[b] = task[b]
  BY <1>3 DEF Inv, TypeOK
<1>5. NewID \notin shown
  BY <1>2 DEF Inv, TypeOK
<1>6. ASSUME NEW b \in Command \ {c}, Making(b)
      PROVE  task[b].made # NewID /\ task[b].made \in Token
  BY <1>2, <1>6 DEF Inv, CommandInv, Making
<1>7. ASSUME NEW b \in Command PROVE Private(b)'
  <2>1. Private(b)
    BY DEF RotationInv
  <2>2. CASE b = c
    BY <1>2, <1>3, <1>4, <1>5, <1>6, <2>2 DEF Private, Making
  <2>3. CASE b # c
    BY <1>2, <1>3, <1>4, <1>6, <2>1, <2>3 DEF Private, Making
  <2>. QED BY <2>2, <2>3
<1>8. Standing' = Standing /\ Waning' = Waning
  <2>1. \A t : Replacing(t)' <=> Replacing(t)
    BY <1>3, <1>4 DEF Replacing
  <2>2. ~Replacing(NewID)
    BY <1>3, <1>6 DEF Replacing, Making
  <2>3. \A t \in Token \ {NewID} : Lasting(t)' <=> Lasting(t)
    BY <1>2 DEF Lasting
  <2>4. Standing' = Standing
    BY <1>2, <1>3, <1>5, <2>1, <2>2, <2>3 DEF Standing
  <2>5. Waning' = Waning
    BY <1>2, <1>3, <1>4, <1>6 DEF Waning, Making
  <2>. QED BY <2>4, <2>5
<1>. QED BY <1>3, <1>7, <1>8 DEF RotationInv, MoreStand

LEMMA ShowRotation ==
    ASSUME Inv, RotationInv, NEW c \in Command, Show(c)
    PROVE  RotationInv'
<1> DEFINE m == task[c].made
<1>1. /\ at[c] = "showing" /\ at'[c] = "done" /\ shown' = shown \cup {m}
      /\ \A b \in Command \ {c} : at'[b] = at[b]
      /\ UNCHANGED <<token, task, excused>>
  BY DEF Show, Step, Inv, TypeOK
<1>2. ASSUME NEW b \in Command PROVE Private(b)'
  BY <1>1 DEF RotationInv, Private, Making
<1>3. ASSUME ~excused' PROVE MoreStand'
  <2>1. MoreStand
    BY <1>1, <1>3 DEF RotationInv
  <2>2. Waning' = Waning
    BY <1>1 DEF Waning
  <2>3. \A t : Replacing(t)' \/ t = m <=> Replacing(t) \/ t = m
    BY <1>1 DEF Replacing
  <2>4. Standing \subseteq Standing' /\ Standing' \subseteq Standing \cup {m}
    BY <1>1, <2>3 DEF Standing, Lasting
  <2>5. Standing' = Standing \/ Standing' = Standing \cup {m}
    BY <2>4
  <2>6. /\ IsFiniteSet(Standing') /\ Cardinality(Standing') \in Nat
        /\ Cardinality(Standing) <= Cardinality(Standing')
    <3>1. IsFiniteSet(Standing) /\ Cardinality(Standing) \in Nat
      BY <2>1, FS_CardinalityType DEF MoreStand
    <3>2. /\ IsFiniteSet(Standing \cup {m})
          /\ \/ Cardinality(Standing \cup {m}) = Cardinality(Standing)
             \/ Cardinality(Standing \cup {m}) = Cardinality(Standing) + 1
      BY <3>1, FS_AddElement
    <3>3. CASE Standing' = Standing
      BY <3>1, <3>3
    <3>4. CASE Standing' = Standing \cup {m}
      BY <3>1, <3>2, <3>4
    <3>. QED BY <2>5, <3>3, <3>4
  <2>7. Cardinality(Waning) \in Nat /\ Cardinality(Standing) \in Nat
    BY <2>1, FS_CardinalityType DEF MoreStand
  <2>. QED BY <2>1, <2>2, <2>6, <2>7 DEF MoreStand
<1>. QED BY <1>2, <1>3 DEF RotationInv

\* A rotation revokes the token it replaces: its own comes to stand for it, unless
\* that was revoked already.
LEMMA RevokeOldRotation ==
    ASSUME Inv, RotationInv, NEW c \in Command, RevokeOld(c)
    PROVE  RotationInv'
<1> DEFINE m == task[c].made
           o == task[c].old
<1>1. /\ at[c] = "revoking" /\ at'[c] = "showing" /\ Revocable(o) /\ token' = Revoked(o)
      /\ \A b \in Command \ {c} : at'[b] = at[b]
      /\ UNCHANGED <<task, shown, excused>>
  BY DEF RevokeOld, Step, Inv, TypeOK
<1>2. /\ task[c] \in Task /\ m \in Token /\ token[m] # None /\ task[c].kind = "rotate"
      /\ token[m].expires = None /\ o # m /\ m \notin shown
      /\ \A b \in Command \ {c} : Making(b) => task[b].made # m
  BY <1>1 DEF Inv, CommandInv, RotationInv, Private, Making
<1>3. o \in Token /\ token[o] # None /\ ~token[o].revoked /\ token[o] \in Row /\ token[m] \in Row
  BY <1>1, <1>2 DEF Revocable, Task, Inv, TypeOK
<1>4. /\ token'[o].revoked /\ token'[o].expires = token[o].expires
      /\ \A t \in Token \ {o} : token'[t] = token[t]
  BY <1>1, <1>3 DEF Revoked, Inv, TypeOK, Row
<1>5. ASSUME NEW b \in Command, Making(b)
      PROVE  /\ task[b].made \in Token
             /\ token'[task[b].made].expires = token[task[b].made].expires
  BY <1>4, <1>5 DEF Inv, CommandInv, Making
<1>6. \A b \in Command : Making(b)' <=> Making(b)
  BY <1>1 DEF Making
<1>7. ASSUME NEW b \in Command PROVE Private(b)'
  <2>1. Private(b) /\ UNCHANGED task[b]
    BY <1>1 DEF RotationInv
  <2>2. Making(b)' =>
          /\ task'[b].made \notin shown'
          /\ \A a \in Command \ {b} : Making(a)' => task'[a].made # task'[b].made
          /\ task'[b].kind = "rotate" =>
                token'[task'[b].made].expires = None /\ task'[b].old # task'[b].made
    BY <1>1, <1>5, <1>6, <2>1 DEF Private
  <2>3. at'[b] = "revoking" => task'[b].kind = "rotate"
    BY <1>1, <2>1 DEF Private
  <2>. QED BY <2>2, <2>3 DEF Private
<1>8. ASSUME ~excused' PROVE MoreStand'
  <2>1. /\ IsFiniteSet(Standing) /\ IsFiniteSet(Waning)
        /\ Cardinality(Waning) \in Nat /\ Cardinality(Standing) \in Nat
        /\ Cardinality(Waning) < Cardinality(Standing)
    BY <1>1, <1>8, FS_CardinalityType DEF RotationInv, MoreStand
  <2>2. \A t : Replacing(t)' <=> Replacing(t) \/ t = m
    BY <1>1, <1>2 DEF Replacing
  <2>3. ~Replacing(m)
    BY <1>1, <1>2 DEF Replacing, Making
  <2>4. m \notin Standing
    BY <1>2, <2>3 DEF Standing
  <2>5. Lasting(m)' <=> ~token[m].revoked
    BY <1>1, <1>2, <1>4 DEF Lasting
  <2>6. Standing' = (Standing \ {o}) \cup (IF token[m].revoked THEN {} ELSE {m})
    <3>1. ~Lasting(o)'
      BY <1>1, <1>4 DEF Lasting
    <3>2. \A t \in Token \ {o, m} : t \in Standing' <=> t \in Standing
      BY <1>1, <1>4, <2>2 DEF Standing, Lasting
    <3>3. o \notin Standing'
      BY <1>1, <3>1 DEF Standing
    <3>4. m \in Standing' <=> ~token[m].revoked
      BY <1>1, <1>2, <2>2, <2>5 DEF Standing
    <3>5. Standing \subseteq Token /\ Standing' \subseteq Token
      BY DEF Standing
    <3>. QED BY <1>2, <2>4, <3>2, <3>3, <3>4, <3>5
  <2>7. c \in Waning <=> token[m].revoked
    BY <1>1 DEF Waning
  <2>8. c \notin Waning'
    BY <1>1 DEF Waning
  <2>9. \A b \in Command \ {c} : task[b].made # o => (b \in Waning' <=> b \in Waning)
    BY <1>1, <1>4, <1>5 DEF Waning, Making
  <2>10. Waning \subseteq Command /\ Waning' \subseteq Command
    BY DEF Waning
  <2>11. IsFiniteSet(Standing \ {o}) /\ Cardinality(Standing \ {o}) \in Nat
    BY <2>1, FS_RemoveElement, FS_CardinalityType
  <2>12. m \notin Standing \ {o}
    BY <2>4
  <2>13. /\ IsFiniteSet(Standing') /\ Cardinality(Standing') \in Nat
         /\ token[m].revoked => Cardinality(Standing') = Cardinality(Standing \ {o})
         /\ ~token[m].revoked => Cardinality(Standing') = Cardinality(Standing \ {o}) + 1
    <3>1. CASE token[m].revoked
      BY <2>6, <2>11, <3>1
    <3>2. CASE ~token[m].revoked
      <4>1. Standing' = (Standing \ {o}) \cup {m}
        BY <2>6, <3>2
      <4>2. /\ IsFiniteSet((Standing \ {o}) \cup {m})
            /\ Cardinality((Standing \ {o}) \cup {m}) = Cardinality(Standing \ {o}) + 1
        BY <2>11, <2>12, FS_AddElement
      <4>. QED BY <2>11, <3>2, <4>1, <4>2
    <3>. QED BY <3>1, <3>2
  <2>14. /\ IsFiniteSet(Waning \ {c}) /\ Cardinality(Waning \ {c}) \in Nat
         /\ token[m].revoked => Cardinality(Waning \ {c}) = Cardinality(Waning) - 1
         /\ ~token[m].revoked => Cardinality(Waning \ {c}) = Cardinality(Waning)
    BY <2>1, <2>7, FS_RemoveElement, FS_CardinalityType
  <2>15. CASE \E e \in Command \ {c} : at[e] = "revoking" /\ task[e].made = o
    <3>1. PICK e \in Command \ {c} : at[e] = "revoking" /\ task[e].made = o
      BY <2>15
    <3>2. o \notin shown /\ \A b \in Command \ {e} : Making(b) => task[b].made # o
      BY <3>1 DEF RotationInv, Private, Making
    <3>3. o \notin Standing
      BY <3>1, <3>2 DEF Standing, Replacing, Making
    <3>4. Standing \ {o} = Standing
      BY <3>3
    <3>5. e \notin Waning
      BY <1>3, <3>1 DEF Waning
    <3>6. Waning' \subseteq (Waning \ {c}) \cup {e}
      <4>1. ASSUME NEW b \in Waning' PROVE b \in (Waning \ {c}) \cup {e}
        <5>1. b \in Command \ {c} /\ at[b] = "revoking"
          BY <1>1, <2>8, <2>10, <4>1 DEF Waning
        <5>. QED BY <2>9, <3>2, <4>1, <5>1 DEF Making
      <4>. QED BY <4>1
    <3>7. /\ IsFiniteSet((Waning \ {c}) \cup {e})
          /\ Cardinality((Waning \ {c}) \cup {e}) = Cardinality(Waning \ {c}) + 1
      BY <2>14, <3>5, FS_AddElement
    <3>8. /\ IsFiniteSet(Waning') /\ Cardinality(Waning') \in Nat
          /\ Cardinality(Waning') <= Cardinality(Waning \ {c}) + 1
      BY <3>6, <3>7, FS_Subset, FS_CardinalityType
    <3>9. Cardinality(Standing \ {o}) = Cardinality(Standing)
      BY <3>4
    <3>10. Cardinality(Waning') < Cardinality(Standing')
      BY <2>1, <2>13, <2>14, <3>8, <3>9
    <3>. QED BY <2>13, <3>8, <3>10 DEF MoreStand
  <2>16. CASE ~\E e \in Command \ {c} : at[e] = "revoking" /\ task[e].made = o
    <3>1. Waning' \subseteq Waning \ {c}
      <4>1. ASSUME NEW b \in Waning' PROVE b \in Waning \ {c}
        <5>1. b \in Command \ {c} /\ at[b] = "revoking"
          BY <1>1, <2>8, <2>10, <4>1 DEF Waning
        <5>. QED BY <2>9, <2>16, <4>1, <5>1
      <4>. QED BY <4>1
    <3>2. /\ IsFiniteSet(Waning') /\ Cardinality(Waning') \in Nat
          /\ Cardinality(Waning') <= Cardinality(Waning \ {c})
      BY <2>14, <3>1, FS_Subset, FS_CardinalityType
    <3>3. Cardinality(Standing) <= Cardinality(Standing \ {o}) + 1
      <4>1. \/ Cardinality(Standing \ {o}) = Cardinality(Standing)
            \/ Cardinality(Standing \ {o}) = Cardinality(Standing) - 1
        BY <2>1, FS_RemoveElement
      <4>. QED BY <2>1, <2>11, <4>1
    <3>4. Cardinality(Waning') < Cardinality(Standing')
      BY <2>1, <2>11, <2>13, <2>14, <3>2, <3>3
    <3>. QED BY <2>13, <3>2, <3>4 DEF MoreStand
  <2>. QED BY <2>15, <2>16
<1>. QED BY <1>7, <1>8 DEF RotationInv

LEMMA RevokeRotation ==
    ASSUME Inv, RotationInv, NEW c \in Command, Revoke(c)
    PROVE  RotationInv'
<1>1. PICK t \in Token : Revocable(t) /\ token' = Revoked(t)
  BY DEF Revoke
<1>2. \A u \in Token : token[u] # None => token'[u].expires = token[u].expires
  BY <1>1 DEF Revoked, Revocable, Inv, TypeOK, Row
<1>3. /\ at[c] = "idle" /\ at'[c] = "done" /\ UNCHANGED shown /\ excused'
      /\ \A b \in Command \ {c} : at'[b] = at[b] /\ task'[b] = task[b]
  BY DEF Revoke, Begin, Step, Inv, TypeOK
<1>4. ASSUME NEW b \in Command PROVE Private(b)'
  <2>1. Private(b) /\ (Making(b) => task[b].made \in Token /\ token[task[b].made] # None)
    BY DEF RotationInv, Inv, CommandInv, Making
  <2>2. CASE b = c
    BY <1>3, <2>2 DEF Private, Making
  <2>3. CASE b # c
    BY <1>2, <1>3, <2>1, <2>3 DEF Private, Making
  <2>. QED BY <2>2, <2>3
<1>. QED BY <1>3, <1>4 DEF RotationInv

\* The other steps of commands.
LEMMA OtherCommandRotation ==
    ASSUME Inv, RotationInv, NEW c \in Command,
           \/ RevokeOldFails(c) \/ SetPolicy(c) \/ Map(c) \/ Unmap(c) \/ IssueCertificate(c)
           \/ Operate(c) \/ Adopt(c) \/ Answered(c) \/ StoreDomain(c) \/ DeleteDomain(c)
           \/ StopShort(c)
    PROVE  RotationInv'
<1>1. CASE StopShort(c)
  <2>1. /\ UNCHANGED <<token, shown, task>> /\ at'[c] = "done"
        /\ \A b \in Command \ {c} : at'[b] = at[b]
        /\ excused' = (excused \/ (at[c] = "showing" /\ task[c].kind = "rotate"))
    BY <1>1 DEF StopShort, Step, Inv, TypeOK
  <2>. QED BY <2>1, QuietRotation
<1>2. CASE RevokeOldFails(c) \/ Answered(c) \/ StoreDomain(c) \/ DeleteDomain(c)
  <2>1. /\ UNCHANGED <<token, shown, excused, task>> /\ at[c] # "showing"
        /\ at'[c] \notin {"revoking", "showing"}
        /\ \A b \in Command \ {c} : at'[b] = at[b]
    BY <1>2 DEF RevokeOldFails, Answered, StoreDomain, DeleteDomain, Step, Inv, TypeOK, tokens
  <2>. QED BY <2>1, QuietRotation
<1>3. CASE SetPolicy(c) \/ Map(c) \/ Unmap(c) \/ IssueCertificate(c) \/ Operate(c) \/ Adopt(c)
  <2>1. /\ UNCHANGED <<token, shown, excused>> /\ at[c] = "idle"
        /\ at'[c] \notin {"revoking", "showing"}
        /\ \A b \in Command \ {c} : at'[b] = at[b] /\ task'[b] = task[b]
    BY <1>3 DEF SetPolicy, Map, Unmap, IssueCertificate, Operate, Adopt, Begin, Step, Inv,
       TypeOK, tokens
  <2>. QED BY <2>1, QuietRotation
<1>. QED BY <1>1, <1>2, <1>3

LEMMA RotationKeeps == Inv /\ RotationInv /\ [Next]_vars => RotationInv'
<1> SUFFICES ASSUME Inv, RotationInv, [Next]_vars PROVE RotationInv'
  OBVIOUS
<1>1. UNCHANGED <<token, shown, excused, at, task>> => RotationInv'
  BY QuietRotation
<1>2. ASSUME NEW q \in Request, Ask(q) \/ Leave(q) \/ Handle(q) PROVE RotationInv'
  BY <1>1, <1>2 DEF Ask, Leave, Handle, Authorize, Deny, Serve, Hand, HandFails, Receive,
     Record, Move, tokens, commands
<1>3. ASSUME NEW x \in Caller, Work(x) PROVE RotationInv'
  BY <1>1, <1>3 DEF Work, Check, Forbid, Perform, PerformFails, Deadline, tokens, commands
<1>4. ASSUME NEW c \in Command, Execute(c) PROVE RotationInv'
  BY <1>4, CreateTokenRotation, RotateRotation, RevokeOldRotation, ShowRotation,
     RevokeRotation, OtherCommandRotation DEF Execute
<1>5. HelperDies \/ ServerDies \/ Tick \/ UNCHANGED vars => RotationInv'
  BY <1>1 DEF HelperDies, ServerDies, Tick, tokens, commands, vars
<1>. QED BY <1>2, <1>3, <1>4, <1>5 DEF Next

\* However many commands rotate tokens at once, root keeps one that was printed, or
\* is about to be, and lasts, unless a token was revoked for good or a rotation was
\* killed before it printed (tokenCmd).
THEOREM RotationIsSafe == Spec => []RotationLeavesOne
<1>1. Inv /\ RotationInv => RotationLeavesOne
  <2> SUFFICES ASSUME Inv, RotationInv, ~excused PROVE RotationLeavesOne
    BY DEF RotationLeavesOne
  <2>1. Standing # {}
    <3>1. Cardinality(Waning) \in Nat /\ Cardinality(Waning) < Cardinality(Standing)
      BY FS_CardinalityType DEF RotationInv, MoreStand
    <3>. QED BY <3>1, FS_EmptySet
  <2>2. PICK t \in Standing : TRUE
    BY <2>1
  <2>3. Lasting(t) /\ (t \in shown \/ Replacing(t))
    BY <2>2 DEF Standing
  <2>. QED BY <2>3 DEF Replacing, RotationLeavesOne
<1>2. RotationInv /\ Inv /\ [Next]_vars => RotationInv'
  BY RotationKeeps
<1>. QED BY <1>1, <1>2, RotationInit, Invariance, PTL DEF Spec

-----------------------------------------------------------------------------
(* Domains *)

\* A command that maps a domain or unmaps one is at it; no two are at once.
Deals(c) == at[c] \in {"calling", "storing"} /\ task[c].kind \in {"map", "unmap"}
Apart == \A b, c \in Command : Deals(b) /\ Deals(c) => b = c

\* The helper has done what the command asked, the table does not tell yet.
Ended(c) == at[c] = "storing" \/ (at[c] = "calling" /\ job[c] = "ok")

\* A command asks for what its kind does; one that has ended leaves no job that may
\* still be done, but for a domain that is given up.
Fitting(c) ==
    /\ call[c] # None =>
          /\ at[c] # "idle"
          /\ (call[c].op \in Creating) <=> (task[c].kind = "map")
          /\ (call[c].op = "site.delete") <=> (task[c].kind = "unmap")
    /\ at[c] = "storing" => job[c] = "ok" /\ task[c].kind \in {"map", "unmap"}
    /\ job[c] \in {"sent", "running"} => at[c] = "calling" \/ call[c].domain \in strayed

\* Only a command that has ended keeps the table from what CloudPanel has.
MappedHasSite(d) ==
    d \in mapped /\ site[d] = "none" =>
        \E c \in Command : Ended(c) /\ call[c].domain = d /\ task[c].kind = "unmap"
ProxyIsMapped(d) ==
    site[d] = "proxy" /\ d \notin mapped =>
        \E c \in Command : Ended(c) /\ call[c].domain = d /\ task[c].kind = "map"
EffectLasts(d) ==
    \A c \in Command : Ended(c) /\ call[c].domain = d =>
        /\ task[c].kind = "map" => site[d] # "none"
        /\ task[c].kind = "unmap" => site[d] # "proxy"
Agreed(d) == MappedHasSite(d) /\ ProxyIsMapped(d) /\ EffectLasts(d)

DomainInv == /\ \A c \in Command : Fitting(c)
             /\ \A d \in Domain \ strayed : Agreed(d)

LEMMA DomainInit == Init => DomainInv
<1> SUFFICES ASSUME Init PROVE DomainInv
  OBVIOUS
<1>1. /\ at = [c \in Command |-> "idle"] /\ call = [x \in Caller |-> None]
      /\ job = [x \in Caller |-> "none"]
      /\ mapped = {d \in Domain : site[d] = "proxy"}
  BY DEF Init
<1>2. \A c \in Command : Fitting(c)
  BY <1>1 DEF Fitting, Caller
<1>3. \A d \in Domain : Agreed(d)
  BY <1>1 DEF Agreed, MappedHasSite, ProxyIsMapped, EffectLasts, Ended
<1>. QED BY <1>2, <1>3 DEF DomainInv

\* Nothing of the domains, the sites and the commands moves.
LEMMA QuietDomains ==
    ASSUME DomainInv, UNCHANGED <<mapped, site, at, task>>, strayed \subseteq strayed',
           \A c \in Command : call'[c] = call[c] /\ job'[c] = job[c]
    PROVE  DomainInv'
<1>1. ASSUME NEW c \in Command PROVE Fitting(c)'
  BY DEF DomainInv, Fitting
<1>2. ASSUME NEW d \in Domain \ strayed' PROVE Agreed(d)'
  <2>1. Agreed(d)
    BY <1>2 DEF DomainInv
  <2>2. \A c \in Command : Ended(c)' <=> Ended(c)
    BY DEF Ended
  <2>. QED BY <2>1, <2>2 DEF Agreed, MappedHasSite, ProxyIsMapped, EffectLasts
<1>. QED BY <1>1, <1>2 DEF DomainInv

\* The helper moves with a job that was not done yet, and does not do it.
LEMMA JobDomains ==
    ASSUME Inv, DomainInv, NEW x \in Caller, job[x] \in {"sent", "running"},
           NEW s \in {"running", "failed"}, job' = [job EXCEPT ![x] = s],
           UNCHANGED <<mapped, strayed, site, at, task, call>>
    PROVE  DomainInv'
<1>1. job'[x] = s /\ \A y \in Caller \ {x} : job'[y] = job[y]
  BY DEF Inv, TypeOK
<1>2. ASSUME NEW c \in Command PROVE Fitting(c)' /\ (Ended(c)' <=> Ended(c))
  <2>1. Fitting(c) /\ c \in Caller
    BY DEF DomainInv, Caller
  <2>2. CASE c = x
    BY <1>1, <2>1, <2>2 DEF Fitting, Ended
  <2>3. CASE c # x
    BY <1>1, <2>1, <2>3 DEF Fitting, Ended
  <2>. QED BY <2>2, <2>3
<1>3. ASSUME NEW d \in Domain \ strayed' PROVE Agreed(d)'
  <2>1. Agreed(d)
    BY <1>3 DEF DomainInv
  <2>. QED BY <1>2, <2>1 DEF Agreed, MappedHasSite, ProxyIsMapped, EffectLasts
<1>. QED BY <1>2, <1>3 DEF DomainInv

\* A command asks the helper for what is of its kind.
LEMMA AskingDomains ==
    ASSUME Inv, DomainInv, NEW c \in Command, at[c] = "idle",
           NEW op \in Operation, NEW d \in Domain, Send(c, op, d),
           at' = [at EXCEPT ![c] = "calling"],
           NEW k \in Task, task' = [task EXCEPT ![c] = k],
           (op \in Creating) <=> (k.kind = "map"), (op = "site.delete") <=> (k.kind = "unmap"),
           UNCHANGED <<mapped, strayed>>
    PROVE  DomainInv'
<1>1. /\ UNCHANGED site /\ c \in Caller
      /\ call'[c] = [op |-> op, domain |-> d] /\ job'[c] = "sent" /\ at'[c] = "calling"
      /\ task'[c] = k
      /\ \A y \in Caller \ {c} : call'[y] = call[y] /\ job'[y] = job[y]
      /\ \A b \in Command \ {c} : at'[b] = at[b] /\ task'[b] = task[b]
  BY DEF Send, Inv, TypeOK, Caller
<1>2. ASSUME NEW b \in Command PROVE Fitting(b)' /\ (Ended(b)' <=> Ended(b))
  <2>1. Fitting(b) /\ b \in Caller
    BY DEF DomainInv, Caller
  <2>2. CASE b = c
    BY <1>1, <2>2 DEF Fitting, Ended
  <2>3. CASE b # c
    BY <1>1, <2>1, <2>3 DEF Fitting, Ended
  <2>. QED BY <2>2, <2>3
<1>3. \A b \in Command : Ended(b) => call'[b] = call[b] /\ task'[b] = task[b]
  BY <1>1 DEF Ended, Caller
<1>4. ASSUME NEW e \in Domain \ strayed' PROVE Agreed(e)'
  <2>1. Agreed(e)
    BY <1>4 DEF DomainInv
  <2>. QED BY <1>1, <1>2, <1>3, <2>1 DEF Agreed, MappedHasSite, ProxyIsMapped, EffectLasts
<1>. QED BY <1>2, <1>4 DEF DomainInv

\* A command makes, replaces or revokes a token, or sets a policy.
LEMMA TokenDomains ==
    ASSUME Inv, DomainInv, NEW c \in Command,
           at[c] \in {"idle", "revoking", "showing"},
           NEW s \in {"revoking", "showing", "done"}, at' = [at EXCEPT ![c] = s],
           \A b \in Command : task'[b] = task[b] \/ (b = c /\ at[c] = "idle"),
           UNCHANGED <<mapped, strayed, site, call, job>>
    PROVE  DomainInv'
<1>1. at'[c] = s /\ \A b \in Command \ {c} : at'[b] = at[b]
  BY DEF Inv, TypeOK
<1>2. at[c] = "idle" => call[c] = None
  BY DEF Inv, CommandInv, JobInv, Caller
<1>3. ASSUME NEW b \in Command PROVE Fitting(b)' /\ (Ended(b)' <=> Ended(b))
  <2>1. Fitting(b)
    BY DEF DomainInv
  <2>2. CASE b = c
    <3>1. at[c] = "idle" => job[c] = "none"
      BY DEF Inv, CommandInv
    <3>. QED BY <1>1, <1>2, <2>1, <2>2, <3>1 DEF Fitting, Ended
  <2>3. CASE b # c
    BY <1>1, <2>1, <2>3 DEF Fitting, Ended
  <2>. QED BY <2>2, <2>3
<1>4. \A b \in Command : Ended(b) => task'[b] = task[b]
  BY <1>1 DEF Ended
<1>5. ASSUME NEW d \in Domain \ strayed' PROVE Agreed(d)'
  <2>1. Agreed(d)
    BY <1>5 DEF DomainInv
  <2>. QED BY <1>3, <1>4, <2>1 DEF Agreed, MappedHasSite, ProxyIsMapped, EffectLasts
<1>. QED BY <1>3, <1>5 DEF DomainInv

LEMMA AdoptDomains ==
    ASSUME Inv, DomainInv, NEW c \in Command, Adopt(c)
    PROVE  DomainInv'
<1>1. PICK d \in Domain :
          /\ mapped' = mapped \cup {d}
          /\ strayed' = IF site[d] = "none" THEN strayed \cup {d} ELSE strayed
  BY DEF Adopt
<1>2. /\ at[c] = "idle" /\ at'[c] = "done" /\ UNCHANGED <<call, job, site>>
      /\ \A b \in Command \ {c} : at'[b] = at[b] /\ task'[b] = task[b]
      /\ call[c] = None /\ job[c] = "none"
  BY DEF Adopt, Begin, Step, Inv, TypeOK, CommandInv, JobInv, Caller, helper
<1>3. ASSUME NEW b \in Command PROVE Fitting(b)' /\ (Ended(b)' <=> Ended(b))
  <2>1. Fitting(b)
    BY DEF DomainInv
  <2>2. CASE b = c
    BY <1>2, <2>2 DEF Fitting, Ended
  <2>3. CASE b # c
    BY <1>1, <1>2, <2>1, <2>3 DEF Fitting, Ended
  <2>. QED BY <2>2, <2>3
<1>4. \A b \in Command : Ended(b) => task'[b] = task[b]
  BY <1>2 DEF Ended
<1>5. ASSUME NEW e \in Domain \ strayed' PROVE Agreed(e)'
  <2>1. Agreed(e)
    BY <1>1, <1>5 DEF DomainInv
  <2>2. e \in mapped' /\ site'[e] = "none" => e \in mapped
    BY <1>1, <1>2, <1>5
  <2>3. e \notin mapped' => e \notin mapped
    BY <1>1
  <2>. QED BY <1>2, <1>3, <1>4, <2>1, <2>2, <2>3 DEF Agreed, MappedHasSite, ProxyIsMapped,
       EffectLasts
<1>. QED BY <1>3, <1>5 DEF DomainInv

LEMMA AnsweredDomains ==
    ASSUME Inv, DomainInv, NEW c \in Command, Answered(c)
    PROVE  DomainInv'
<1>1. /\ at[c] = "calling" /\ job[c] \in {"ok", "failed", "lost"}
      /\ at'[c] = IF job[c] = "ok" /\ task[c].kind \in {"map", "unmap"} THEN "storing" ELSE "done"
      /\ \A b \in Command \ {c} : at'[b] = at[b]
      /\ UNCHANGED <<call, job, site, task, mapped, strayed>>
  BY DEF Answered, Step, Inv, TypeOK, helper, domains
<1>2. ASSUME NEW b \in Command
      PROVE  Fitting(b)' /\ (task[b].kind \in {"map", "unmap"} => (Ended(b)' <=> Ended(b)))
  <2>1. Fitting(b)
    BY DEF DomainInv
  <2>2. CASE b = c
    BY <1>1, <2>1, <2>2 DEF Fitting, Ended
  <2>3. CASE b # c
    BY <1>1, <2>1, <2>3 DEF Fitting, Ended
  <2>. QED BY <2>2, <2>3
<1>3. ASSUME NEW d \in Domain \ strayed' PROVE Agreed(d)'
  <2>1. Agreed(d)
    BY <1>1, <1>3 DEF DomainInv
  <2>2. MappedHasSite(d)'
    BY <1>1, <1>2, <2>1 DEF Agreed, MappedHasSite
  <2>3. ProxyIsMapped(d)'
    BY <1>1, <1>2, <2>1 DEF Agreed, ProxyIsMapped
  <2>4. EffectLasts(d)'
    BY <1>1, <1>2, <2>1 DEF Agreed, EffectLasts
  <2>. QED BY <2>2, <2>3, <2>4 DEF Agreed
<1>. QED BY <1>2, <1>3 DEF DomainInv

\* What the helper did becomes what the table says.
LEMMA TableDomains ==
    ASSUME Inv, DomainInv, NEW c \in Command, StoreDomain(c) \/ DeleteDomain(c)
    PROVE  DomainInv'
<1>1. /\ at[c] = "storing" /\ at'[c] = "done"
      /\ \A b \in Command \ {c} : at'[b] = at[b]
      /\ UNCHANGED <<call, job, site, task, strayed>>
      /\ \/ task[c].kind = "map" /\ mapped' = mapped \cup {call[c].domain}
         \/ task[c].kind = "unmap" /\ mapped' = mapped \ {call[c].domain}
  BY DEF StoreDomain, DeleteDomain, Step, Inv, TypeOK, helper
<1>2. ASSUME NEW b \in Command PROVE Fitting(b)' /\ (Ended(b)' <=> b # c /\ Ended(b))
  <2>1. Fitting(b)
    BY DEF DomainInv
  <2>2. CASE b = c
    BY <1>1, <2>1, <2>2 DEF Fitting, Ended
  <2>3. CASE b # c
    BY <1>1, <2>1, <2>3 DEF Fitting, Ended
  <2>. QED BY <2>2, <2>3
<1>3. ASSUME NEW d \in Domain \ strayed' PROVE Agreed(d)'
  <2>1. Agreed(d)
    BY <1>1, <1>3 DEF DomainInv
  <2>2. Ended(c)
    BY <1>1 DEF Ended
  <2>3. d = call[c].domain => /\ task[c].kind = "map" => site[d] # "none"
                              /\ task[c].kind = "unmap" => site[d] # "proxy"
    BY <2>1, <2>2 DEF Agreed, EffectLasts
  <2>4. d # call[c].domain => (d \in mapped' <=> d \in mapped)
    BY <1>1
  <2>5. d = call[c].domain => (d \in mapped' <=> task[c].kind = "map")
    BY <1>1
  <2>6. MappedHasSite(d)'
    BY <1>1, <1>2, <2>1, <2>3, <2>4, <2>5 DEF Agreed, MappedHasSite
  <2>7. ProxyIsMapped(d)'
    BY <1>1, <1>2, <2>1, <2>3, <2>4, <2>5 DEF Agreed, ProxyIsMapped
  <2>8. EffectLasts(d)'
    BY <1>1, <1>2, <2>1 DEF Agreed, EffectLasts
  <2>. QED BY <2>6, <2>7, <2>8 DEF Agreed
<1>. QED BY <1>2, <1>3 DEF DomainInv

LEMMA StopShortDomains ==
    ASSUME Inv, DomainInv, NEW c \in Command, StopShort(c)
    PROVE  DomainInv'
<1>1. /\ at[c] # "idle" /\ at'[c] = "done"
      /\ \A b \in Command \ {c} : at'[b] = at[b]
      /\ UNCHANGED <<call, job, site, task, mapped>>
      /\ strayed' = IF call[c] = None THEN strayed ELSE strayed \cup {call[c].domain}
  BY DEF StopShort, Step, Inv, TypeOK, helper
<1>2. Ended(c) => call[c] # None
  BY DEF Ended, Inv, CommandInv
<1>3. job[c] \in {"sent", "running"} => call[c] # None
  <2>1. call[c] \in Call => call[c] # None
    BY DEF Call
  <2>. QED BY <2>1 DEF Inv, JobInv, Caller
<1>4. ASSUME NEW b \in Command PROVE Fitting(b)' /\ (Ended(b)' <=> b # c /\ Ended(b))
  <2>1. Fitting(b) /\ strayed \subseteq strayed'
    BY <1>1 DEF DomainInv
  <2>2. CASE b = c
    BY <1>1, <1>3, <2>1, <2>2 DEF Fitting, Ended
  <2>3. CASE b # c
    BY <1>1, <2>1, <2>3 DEF Fitting, Ended
  <2>. QED BY <2>2, <2>3
<1>5. ASSUME NEW d \in Domain \ strayed' PROVE Agreed(d)'
  <2>1. Agreed(d)
    BY <1>1, <1>5 DEF DomainInv
  <2>2. ~(Ended(c) /\ call[c].domain = d)
    BY <1>1, <1>2, <1>5
  <2>. QED BY <1>1, <1>4, <2>1, <2>2 DEF Agreed, MappedHasSite, ProxyIsMapped, EffectLasts
<1>. QED BY <1>4, <1>5 DEF DomainInv

LEMMA HelperDiesDomains ==
    ASSUME Inv, DomainInv, HelperDies
    PROVE  DomainInv'
<1> DEFINE Lost(x) == \/ job[x] \in {"sent", "running"}
                      \/ job[x] \in {"ok", "failed"} /\ Waiting(x)
<1>1. /\ UNCHANGED <<call, site, at, task, mapped>> /\ strayed \subseteq strayed'
      /\ \A x \in Caller : job'[x] = IF Lost(x) THEN "lost" ELSE job[x]
      /\ \A x \in Caller : Lost(x) => call[x].domain \in strayed'
  BY DEF HelperDies, Lose, commands
<1>2. ASSUME NEW c \in Command
      PROVE  /\ Fitting(c)' /\ (Ended(c)' => Ended(c))
             /\ Ended(c) => Ended(c)' \/ call[c].domain \in strayed'
  <2>1. Fitting(c) /\ c \in Caller /\ c \notin Request
    BY DEF DomainInv, Caller
  <2>2. Waiting(c) <=> at[c] = "calling"
    BY <2>1 DEF Waiting
  <2>. QED BY <1>1, <2>1, <2>2 DEF Fitting, Ended
<1>3. ASSUME NEW d \in Domain \ strayed' PROVE Agreed(d)'
  <2>1. Agreed(d)
    BY <1>1, <1>3 DEF DomainInv
  <2>2. MappedHasSite(d)'
    BY <1>1, <1>2, <1>3, <2>1 DEF Agreed, MappedHasSite
  <2>3. ProxyIsMapped(d)'
    BY <1>1, <1>2, <1>3, <2>1 DEF Agreed, ProxyIsMapped
  <2>4. EffectLasts(d)'
    BY <1>1, <1>2, <1>3, <2>1 DEF Agreed, EffectLasts
  <2>. QED BY <2>2, <2>3, <2>4 DEF Agreed
<1>. QED BY <1>2, <1>3 DEF DomainInv

\* A job is cut off: its domain is given up.
LEMMA DeadlineDomains ==
    ASSUME Inv, DomainInv, NEW x \in Caller, Deadline(x)
    PROVE  DomainInv'
<1>1. /\ job[x] = "running" /\ job'[x] = "failed" /\ call[x].domain \in strayed'
      /\ \A y \in Caller \ {x} : job'[y] = job[y]
      /\ strayed \subseteq strayed' /\ UNCHANGED <<call, at, task, mapped>>
      /\ \A d \in Domain \ {call[x].domain} : site'[d] = site[d]
  BY DEF Deadline, Lose, Do, Inv, TypeOK, commands
<1>2. ASSUME NEW c \in Command PROVE Fitting(c)' /\ (Ended(c)' <=> Ended(c))
  <2>1. Fitting(c) /\ c \in Caller
    BY DEF DomainInv, Caller
  <2>2. CASE c = x
    BY <1>1, <2>1, <2>2 DEF Fitting, Ended
  <2>3. CASE c # x
    BY <1>1, <2>1, <2>3 DEF Fitting, Ended
  <2>. QED BY <2>2, <2>3
<1>3. ASSUME NEW d \in Domain \ strayed' PROVE Agreed(d)'
  <2>1. Agreed(d) /\ site'[d] = site[d]
    BY <1>1, <1>3 DEF DomainInv
  <2>. QED BY <1>1, <1>2, <2>1 DEF Agreed, MappedHasSite, ProxyIsMapped, EffectLasts
<1>. QED BY <1>2, <1>3 DEF DomainInv

\* The operation of a request: a site it makes is no proxy of a command's, and the
\* domain of one it deletes is given up.
LEMMA RequestPerformDomains ==
    ASSUME Inv, DomainInv, NEW q \in Request, Perform(q)
    PROVE  DomainInv'
<1>1. /\ UNCHANGED <<call, at, task, mapped>> /\ strayed \subseteq strayed'
      /\ \A c \in Command : job'[c] = job[c]
  BY DEF Perform, Caller, Inv, TypeOK, commands
<1>2. ASSUME NEW c \in Command PROVE Fitting(c)' /\ (Ended(c)' <=> Ended(c))
  BY <1>1 DEF DomainInv, Fitting, Ended
<1>3. ASSUME NEW d \in Domain \ strayed'
      PROVE  site'[d] = site[d] \/ (site[d] = "none" /\ site'[d] = "other")
  <2>1. q \notin Command
    OBVIOUS
  <2>2. CASE call[q].domain = d
    <3>1. call[q].op # "site.delete"
      BY <1>3, <2>2 DEF Perform
    <3>. QED BY <2>1, <2>2, <3>1 DEF Perform, Do, Feasible, Becomes, Inv, TypeOK
  <2>3. CASE call[q].domain # d
    BY <2>3 DEF Perform, Do, Inv, TypeOK
  <2>. QED BY <2>2, <2>3
<1>4. ASSUME NEW d \in Domain \ strayed' PROVE Agreed(d)'
  <2>1. Agreed(d)
    BY <1>1, <1>4 DEF DomainInv
  <2>. QED BY <1>1, <1>2, <1>3, <2>1 DEF Agreed, MappedHasSite, ProxyIsMapped, EffectLasts
<1>. QED BY <1>2, <1>4 DEF DomainInv

\* The operation of a command; of those that map and unmap it is the only one at it.
LEMMA CommandPerformDomains ==
    ASSUME Inv, DomainInv, Apart, NEW c \in Command, Perform(c)
    PROVE  DomainInv'
<1> DEFINE e == call[c].domain
<1>1. /\ job[c] = "running" /\ job'[c] = "ok" /\ c \in Caller
      /\ \A y \in Caller \ {c} : job'[y] = job[y]
      /\ strayed' = strayed /\ UNCHANGED <<call, at, task, mapped>>
      /\ \A d \in Domain \ {e} : site'[d] = site[d]
      /\ call[c] \in Call /\ call[c] # None
  <2>1. c \notin Request /\ c \in Caller
    BY DEF Caller
  <2>2. call[c] \in Call
    BY <2>1 DEF Perform, Inv, JobInv
  <2>3. call[c] # None
    BY <2>2
  <2>. QED BY <2>1, <2>2, <2>3 DEF Perform, Do, Inv, TypeOK, commands
<1>2. \/ site[e] = "none" /\ site'[e] = "proxy" /\ task[c].kind = "map"
      \/ site'[e] = "none" /\ site[e] # "none" /\ task[c].kind = "unmap"
      \/ site'[e] = site[e] /\ task[c].kind \notin {"map", "unmap"}
  <2>1. Fitting(c)
    BY DEF DomainInv
  <2>2. /\ (call[c].op \in Creating) <=> (task[c].kind = "map")
        /\ (call[c].op = "site.delete") <=> (task[c].kind = "unmap")
    BY <1>1, <2>1 DEF Fitting
  <2>3. e \in Domain /\ site \in [Domain -> {"none", "proxy", "other"}]
    BY <1>1 DEF Call, Inv, TypeOK
  <2>4. site'[e] = Becomes(c, site[e]) /\ Feasible(c)
    BY <2>3 DEF Perform, Do
  <2>5. CASE task[c].kind = "map"
    <3>1. call[c].op \in Creating
      BY <2>2, <2>5
    <3>2. site[e] = "none"
      BY <2>4, <3>1 DEF Feasible
    <3>3. Becomes(c, site[e]) = "proxy"
      BY <3>1 DEF Becomes
    <3>. QED BY <2>4, <2>5, <3>2, <3>3
  <2>6. CASE task[c].kind = "unmap"
    <3>1. call[c].op \notin Creating /\ call[c].op = "site.delete"
      BY <2>2, <2>6
    <3>2. site[e] # "none"
      BY <2>4, <3>1 DEF Feasible
    <3>3. Becomes(c, site[e]) = "none"
      BY <3>1 DEF Becomes
    <3>. QED BY <2>4, <2>6, <3>2, <3>3
  <2>7. CASE task[c].kind \notin {"map", "unmap"}
    BY <2>2, <2>4, <2>7 DEF Becomes
  <2>. QED BY <2>5, <2>6, <2>7
<1>3. ASSUME NEW b \in Command
      PROVE  /\ Fitting(b)' /\ (b # c => (Ended(b)' <=> Ended(b)))
             /\ Ended(c)' <=> at[c] = "calling"
             /\ at[c] = "calling" \/ e \in strayed
             /\ at[c] # "storing"
  <2>1. Fitting(b) /\ Fitting(c) /\ b \in Caller
    BY DEF DomainInv, Caller
  <2>2. at[c] # "storing" /\ (at[c] = "calling" \/ e \in strayed)
    BY <1>1, <2>1 DEF Fitting
  <2>3. CASE b = c
    BY <1>1, <2>1, <2>2, <2>3 DEF Fitting, Ended
  <2>4. CASE b # c
    BY <1>1, <2>1, <2>2, <2>4 DEF Fitting, Ended
  <2>. QED BY <2>3, <2>4
<1>4. ~Ended(c)
  BY <1>1, <1>3 DEF Ended
<1>5. ASSUME NEW d \in Domain \ strayed' PROVE Agreed(d)'
  <2>1. Agreed(d)
    BY <1>1, <1>5 DEF DomainInv
  <2>2. CASE d # e
    <3>1. site'[d] = site[d]
      BY <1>1, <2>2
    <3>2. \A b \in Command : call[b].domain = d => (Ended(b)' <=> Ended(b))
      BY <1>3, <2>2
    <3>. QED BY <1>1, <2>1, <3>1, <3>2 DEF Agreed, MappedHasSite, ProxyIsMapped, EffectLasts
  <2>3. CASE d = e
    <3>1. at[c] = "calling" /\ Ended(c)'
      BY <1>1, <1>3, <1>5, <2>3
    <3>2. task[c].kind \in {"map", "unmap"} =>
            \A b \in Command \ {c} : Ended(b) => task[b].kind \notin {"map", "unmap"}
      BY <3>1 DEF Apart, Deals, Ended
    <3>3. CASE task[c].kind \in {"map", "unmap"}
      <4>1. MappedHasSite(d)'
        BY <1>1, <1>2, <2>3, <3>1, <3>3 DEF MappedHasSite
      <4>2. ProxyIsMapped(d)'
        BY <1>1, <1>2, <2>3, <3>1, <3>3 DEF ProxyIsMapped
      <4>3. EffectLasts(d)'
        BY <1>1, <1>2, <1>3, <2>3, <3>2, <3>3 DEF EffectLasts
      <4>. QED BY <4>1, <4>2, <4>3 DEF Agreed
    <3>4. CASE task[c].kind \notin {"map", "unmap"}
      <4>1. site'[d] = site[d]
        BY <1>2, <2>3, <3>4
      <4>2. \A b \in Command : task[b].kind \in {"map", "unmap"} => (Ended(b)' <=> Ended(b))
        BY <1>3, <3>4
      <4>3. MappedHasSite(d)'
        BY <1>1, <2>1, <4>1, <4>2 DEF Agreed, MappedHasSite
      <4>4. ProxyIsMapped(d)'
        BY <1>1, <2>1, <4>1, <4>2 DEF Agreed, ProxyIsMapped
      <4>5. EffectLasts(d)'
        BY <1>1, <2>1, <4>1, <4>2 DEF Agreed, EffectLasts
      <4>. QED BY <4>3, <4>4, <4>5 DEF Agreed
    <3>. QED BY <3>3, <3>4
  <2>. QED BY <2>2, <2>3
<1>. QED BY <1>3, <1>5 DEF DomainInv

\* What the commands that ask the helper ask for.
LEMMA AskedOperations ==
    /\ Commands \cap (Creating \cup {"site.delete"}) = {}
    /\ "site.create_reverse_proxy" \in Creating
    /\ {"site.delete", "certificate.lets_encrypt"} \cap Creating = {}
BY DEF Commands, Creating, SettingsCommands, FileCommands, BackupCommands, CronCommands,
   NodeCommands

LEMMA CommandDomains ==
    ASSUME Inv, DomainInv, NEW c \in Command, Execute(c)
    PROVE  DomainInv'
<1> DEFINE Asks(op, d, k) == /\ Send(c, op, d) /\ task' = [task EXCEPT ![c] = k]
                             /\ (op \in Creating) <=> (k.kind = "map")
                             /\ (op = "site.delete") <=> (k.kind = "unmap")
<1> HIDE DEF Asks
<1>1. CASE CreateToken(c) \/ Rotate(c) \/ Revoke(c) \/ SetPolicy(c)
  <2>1. PICK s \in {"revoking", "showing", "done"} : at' = [at EXCEPT ![c] = s]
    BY <1>1 DEF CreateToken, Rotate, Revoke, SetPolicy, Step
  <2>2. at[c] = "idle" /\ \E k : task' = [task EXCEPT ![c] = k]
    BY <1>1 DEF CreateToken, Rotate, Revoke, SetPolicy, Begin
  <2>3. UNCHANGED <<mapped, strayed, site, call, job>>
    BY <1>1 DEF CreateToken, Rotate, Revoke, SetPolicy, domains, helper
  <2>4. \A b \in Command \ {c} : task'[b] = task[b]
    BY <2>2 DEF Inv, TypeOK
  <2>. QED BY <2>1, <2>2, <2>3, <2>4, TokenDomains
<1>2. CASE RevokeOld(c) \/ RevokeOldFails(c) \/ Show(c)
  <2>1. PICK s \in {"revoking", "showing", "done"} : at' = [at EXCEPT ![c] = s]
    BY <1>2 DEF RevokeOld, RevokeOldFails, Show, Step
  <2>2. /\ at[c] \in {"revoking", "showing"}
        /\ UNCHANGED <<mapped, strayed, site, call, job, task>>
    BY <1>2 DEF RevokeOld, RevokeOldFails, Show, domains, helper
  <2>. QED BY <2>1, <2>2, TokenDomains
<1>3. CASE Map(c) \/ Unmap(c) \/ IssueCertificate(c) \/ Operate(c)
  <2>1. /\ at[c] = "idle" /\ at' = [at EXCEPT ![c] = "calling"]
        /\ UNCHANGED <<mapped, strayed>>
    BY <1>3 DEF Map, Unmap, IssueCertificate, Operate, Begin, Step, domains
  <2>2. \E op \in Operation, d \in Domain, k \in Task : Asks(op, d, k)
    <3>1. CASE Map(c)
      <4>1. PICK d \in Domain : Send(c, "site.create_reverse_proxy", d)
        BY <3>1 DEF Map
      <4>2. task' = [task EXCEPT ![c] = [kind |-> "map", made |-> None, old |-> None]]
        BY <3>1 DEF Map, Begin
      <4>3. [kind |-> "map", made |-> None, old |-> None] \in Task /\ d \in Domain
        BY DEF Task, Kind, Inv, TypeOK
      <4>4. Asks("site.create_reverse_proxy", d, [kind |-> "map", made |-> None, old |-> None])
        BY <4>1, <4>2, AskedOperations DEF Asks
      <4>. QED BY <4>3, <4>4, CommandsAreOperations
    <3>2. CASE Unmap(c)
      <4>1. PICK d \in mapped : Send(c, "site.delete", d)
        BY <3>2 DEF Unmap
      <4>2. task' = [task EXCEPT ![c] = [kind |-> "unmap", made |-> None, old |-> None]]
        BY <3>2 DEF Unmap, Begin
      <4>3. [kind |-> "unmap", made |-> None, old |-> None] \in Task /\ d \in Domain
        BY DEF Task, Kind, Inv, TypeOK
      <4>4. Asks("site.delete", d, [kind |-> "unmap", made |-> None, old |-> None])
        BY <4>1, <4>2, AskedOperations DEF Asks
      <4>. QED BY <4>3, <4>4, CommandsAreOperations
    <3>3. CASE IssueCertificate(c)
      <4>1. PICK d \in mapped : Send(c, "certificate.lets_encrypt", d)
        BY <3>3 DEF IssueCertificate
      <4>2. task' = [task EXCEPT ![c] = [kind |-> "issue", made |-> None, old |-> None]]
        BY <3>3 DEF IssueCertificate, Begin
      <4>3. [kind |-> "issue", made |-> None, old |-> None] \in Task /\ d \in Domain
        BY DEF Task, Kind, Inv, TypeOK
      <4>4. Asks("certificate.lets_encrypt", d, [kind |-> "issue", made |-> None, old |-> None])
        BY <4>1, <4>2, AskedOperations DEF Asks
      <4>. QED BY <4>3, <4>4, CommandsAreOperations
    <3>4. CASE Operate(c)
      <4>1. PICK op \in Operated, d \in Domain : Send(c, op, d)
        BY <3>4 DEF Operate
      <4>2. task' = [task EXCEPT ![c] = [kind |-> "operate", made |-> None, old |-> None]]
        BY <3>4 DEF Operate, Begin
      <4>3. op \in Commands /\ op \in Operation
        BY CommandsAreOperations
      <4>4. op \notin Creating /\ op # "site.delete"
        BY <4>3, AskedOperations
      <4>5. Asks(op, d, [kind |-> "operate", made |-> None, old |-> None])
        BY <4>1, <4>2, <4>4 DEF Asks
      <4>6. [kind |-> "operate", made |-> None, old |-> None] \in Task
        BY DEF Task, Kind
      <4>. QED BY <4>3, <4>5, <4>6
    <3>. QED BY <1>3, <3>1, <3>2, <3>3, <3>4
  <2>3. PICK op \in Operation, d \in Domain, k \in Task : Asks(op, d, k)
    BY <2>2
  <2>. QED BY <2>1, <2>3, AskingDomains DEF Asks
<1>. QED BY <1>1, <1>2, <1>3, AdoptDomains, AnsweredDomains, TableDomains, StopShortDomains DEF
     Execute

LEMMA DomainKeeps == Inv /\ DomainInv /\ Apart /\ [Next]_vars => DomainInv'
<1> SUFFICES ASSUME Inv, DomainInv, Apart, [Next]_vars PROVE DomainInv'
  OBVIOUS
<1>1. ASSUME NEW q \in Request, Ask(q) \/ Leave(q) \/ Handle(q) PROVE DomainInv'
  <2>1. UNCHANGED <<mapped, strayed, site, at, task>>
    BY <1>1 DEF Ask, Leave, Handle, Authorize, Deny, Serve, Hand, HandFails, Receive, Record,
       Move, Send, domains, helper, commands
  <2>2. \A c \in Command : c \in Caller /\ c # q
    BY DEF Caller
  <2>3. UNCHANGED <<call, job>> \/ (HandFails(q) \/ Hand(q) \/ Serve(q))
    BY <1>1 DEF Ask, Leave, Handle, Authorize, Deny, Receive, Record, Move, helper
  <2>4. \A c \in Command : call'[c] = call[c] /\ job'[c] = job[c]
    BY <2>2, <2>3 DEF HandFails, Hand, Serve, Send, Inv, TypeOK
  <2>. QED BY <2>1, <2>4, QuietDomains
<1>2. ASSUME NEW x \in Caller, Work(x) PROVE DomainInv'
  <2>1. CASE Check(x) \/ Forbid(x) \/ PerformFails(x)
    <3>1. /\ job[x] \in {"sent", "running"}
          /\ UNCHANGED <<mapped, strayed, site, at, task, call>>
          /\ job' = [job EXCEPT ![x] = "running"] \/ job' = [job EXCEPT ![x] = "failed"]
      BY <2>1 DEF Check, Forbid, PerformFails, domains, commands
    <3>. QED BY <3>1, JobDomains
  <2>2. CASE Perform(x)
    BY <2>2, RequestPerformDomains, CommandPerformDomains DEF Caller
  <2>. QED BY <1>2, <2>1, <2>2, DeadlineDomains DEF Work
<1>3. ASSUME NEW c \in Command, Execute(c) PROVE DomainInv'
  BY <1>3, CommandDomains
<1>4. CASE ServerDies \/ Tick \/ UNCHANGED vars
  <2>1. UNCHANGED <<mapped, strayed, site, at, task, call, job>>
    BY <1>4 DEF ServerDies, Tick, vars, domains, helper, commands
  <2>. QED BY <2>1, QuietDomains
<1>. QED BY <1>1, <1>2, <1>3, <1>4, HelperDiesDomains DEF Next

\* While root's commands map and unmap one after the other, a mapped domain has a
\* site and a proxy that a command made is mapped, whatever requests do meanwhile, but
\* for the failures that DomainsAgree names (domainCmd).
THEOREM DomainsAgreeApart == Spec /\ []Apart => []DomainsAgree
<1>1. DomainInv => DomainsAgree
  <2> SUFFICES ASSUME DomainInv, NEW d \in Domain \ strayed
               PROVE  /\ d \in mapped => site[d] # "none" \/ \E c \in Command :
                            /\ at[c] \in {"calling", "storing"}
                            /\ call[c].domain = d /\ task[c].kind = "unmap"
                      /\ site[d] = "proxy" => d \in mapped \/ \E c \in Command :
                            /\ at[c] \in {"calling", "storing"}
                            /\ call[c].domain = d /\ task[c].kind = "map"
    BY DEF DomainsAgree
  <2>. QED BY DEF DomainInv, Agreed, MappedHasSite, ProxyIsMapped, Ended
<1>2. DomainInv /\ Inv /\ Apart /\ [Next]_vars => DomainInv'
  BY DomainKeeps
<1>. QED BY <1>1, <1>2, DomainInit, Invariance, PTL DEF Spec

Ordered == \A c \in Command : task[c] = None \/ task[c].kind \in Orders[c]

LEMMA OrderedKeeps == Inv /\ Ordered /\ [Next]_vars => Ordered'
<1> SUFFICES ASSUME Inv, Ordered, [Next]_vars PROVE Ordered'
  OBVIOUS
<1>1. UNCHANGED task => Ordered'
  BY DEF Ordered
<1>2. ASSUME NEW c \in Command, NEW kind, NEW made, NEW old, Begin(c, kind, made, old)
      PROVE  Ordered'
  BY <1>2 DEF Begin, Ordered, Inv, TypeOK
<1>3. ASSUME NEW q \in Request, Ask(q) \/ Leave(q) \/ Handle(q) PROVE Ordered'
  BY <1>1, <1>3 DEF Ask, Leave, Handle, Authorize, Deny, Serve, Hand, HandFails, Receive,
     Record, Move, commands
<1>4. ASSUME NEW x \in Caller, Work(x) PROVE Ordered'
  BY <1>1, <1>4 DEF Work, Check, Forbid, Perform, PerformFails, Deadline, commands
<1>5. ASSUME NEW c \in Command, Execute(c) PROVE Ordered'
  <2>1. UNCHANGED task \/ \E kind, made, old : Begin(c, kind, made, old)
    BY <1>5 DEF Execute, CreateToken, Rotate, Revoke, SetPolicy, Map, Unmap, IssueCertificate,
       Operate, Adopt, RevokeOld, RevokeOldFails, Show, Answered, StoreDomain, DeleteDomain,
       StopShort
  <2>. QED BY <1>1, <1>2, <2>1
<1>6. HelperDies \/ ServerDies \/ Tick \/ UNCHANGED vars => Ordered'
  BY <1>1 DEF HelperDies, ServerDies, Tick, commands, vars
<1>. QED BY <1>3, <1>4, <1>5, <1>6 DEF Next

\* In particular when only one command may map or unmap at all.
THEOREM DomainsAgreeAlone ==
    (\A b, c \in Command : Orders[b] \cap {"map", "unmap"} # {}
                           /\ Orders[c] \cap {"map", "unmap"} # {} => b = c)
        => (Spec => []DomainsAgree)
<1>1. ASSUME \A b, c \in Command : Orders[b] \cap {"map", "unmap"} # {}
                                   /\ Orders[c] \cap {"map", "unmap"} # {} => b = c
      PROVE  Spec => []DomainsAgree
  <2>1. Inv /\ Ordered => Apart
    <3> SUFFICES ASSUME Inv, Ordered, NEW b \in Command, NEW c \in Command, Deals(b), Deals(c)
                 PROVE  b = c
      BY DEF Apart
    <3>1. task[b] \in Task /\ task[c] \in Task
      BY DEF Deals, Inv, CommandInv
    <3>2. task[b] # None /\ task[c] # None
      BY <3>1
    <3>3. task[b].kind \in Orders[b] /\ task[c].kind \in Orders[c]
      BY <3>2 DEF Ordered
    <3>. QED BY <1>1, <3>3 DEF Deals
  <2>2. Init => Ordered
    BY DEF Init, Ordered
  <2>. QED BY <2>1, <2>2, OrderedKeeps, Invariance, DomainsAgreeApart, PTL DEF Spec
<1>. QED BY <1>1
=============================================================================
