------------------------------ MODULE Endpoints ------------------------------
(***************************************************************************)
(* What the REST API and the MCP tools of internal/gateway/http.go offer:   *)
(* for each the operation it asks of the helper (or does in the server),    *)
(* the scopes it asks of the token, and the event it audits.  Actions and   *)
(* policies are those of internal/gateway/core.go and of the operations.    *)
(* The arguments, and how they are decoded, are left out.                   *)
(***************************************************************************)

\* An operation that works on something more dangerous with other arguments,
\* raw logs or a raw cron command, is an operation of its own.
Via(via, op, scopes, event) ==
    [via |-> via, op |-> op, scopes |-> scopes, event |-> event]
Rest(op, scope, event) == Via("rest", op, {scope}, event)
Mcp(op, scope, event) == Via("mcp", op, {scope}, event)

-----------------------------------------------------------------------------
(* clpctl actions *)

Actions ==
    [name : {"cloudflare.update_ips"}, scope : {"cloudflare:write"}] \cup
    [name : {"cloudpanel.enable_basic_auth", "cloudpanel.disable_basic_auth",
             "cloudpanel.set_release_channel"}, scope : {"cloudpanel:admin"}] \cup
    [name : {"database.master_credentials"}, scope : {"db:credentials:read"}] \cup
    [name : {"database.create", "database.delete"}, scope : {"databases:write"}] \cup
    [name : {"database.export", "database.import"}, scope : {"db:transfer"}] \cup
    [name : {"certificate.lets_encrypt", "site.install_certificate"},
     scope : {"certificates:write"}] \cup
    [name : {"site.create_static", "site.create_nodejs", "site.create_php",
             "site.create_python", "site.create_reverse_proxy", "site.delete"},
     scope : {"sites:write"}] \cup
    [name : {"system.reset_permissions"}, scope : {"system:permissions"}] \cup
    [name : {"user.create", "user.delete", "user.reset_password", "user.disable_mfa"},
     scope : {"users:write"}] \cup
    [name : {"user.list"}, scope : {"users:read"}] \cup
    [name : {"vhost_template.add", "vhost_template.delete", "vhost_templates.import"},
     scope : {"vhosts:write"}] \cup
    [name : {"vhost_template.view", "vhost_templates.list"}, scope : {"vhosts:read"}] \cup
    [name : {"cache.varnish_purge"}, scope : {"cache:purge"}]

\* Policies that gate an operation: pairs of operation and policy.
Dangerous == {"database.master_credentials", "database.export", "database.import",
              "site.install_certificate", "system.reset_permissions",
              "vhost_template.add", "vhost_template.delete", "vhost_templates.import"}
Gates == {<<name, name>> : name \in Dangerous} \cup
         ({"deploy.artifact"} \X {"file.deploy_artifact"}) \cup
         ({"deploy.root", "deploy.static"} \X {"file.deploy_root"}) \cup
         ({"backup.restore"} \X {"backup.restore"}) \cup
         ({"node.update_settings", "node.restart"} \X {"node.runtime_manage"}) \cup
         ({"node.deploy_release", "node.rollback_release"} \X {"node.deploy_release"}) \cup
         ({"build"} \X {"node.server_build"}) \cup
         ({"cron.create_raw", "cron.update_raw"} \X {"cron.raw_command"})
Policy == {g[2] : g \in Gates}

-----------------------------------------------------------------------------
(* REST *)

ActionEndpoints == {Rest(a.name, a.scope, a.name) : a \in Actions}

\* /v1/sites asks for its own scope before that of the action.
SiteEndpoints ==
    {Via("rest", a.name, {"sites:write", a.scope}, a.name) :
        a \in {x \in Actions : x.name \in {"site.create_static", "site.create_nodejs",
                   "site.create_php", "site.create_python", "site.create_reverse_proxy"}}}

ArtifactEndpoints ==
    {Rest(op, "artifacts:write", "none") : op \in {"artifact.upload", "artifact.begin",
        "artifact.chunk", "artifact.complete"}}

DocEndpoints ==
    {Rest("openapi", "docs:read", "none"), Rest("docs", "docs:read", "none"),
     Rest("metrics", "metrics:read", "none")}

InspectEndpoint ==
    {Rest("node.inspect_artifact", "artifacts:write", "project.inspect_artifact")}

NodeEndpoints ==
    {Rest("build", "node:build", "node.build")} \cup
    {Rest(op, "node:read", op) : op \in {"node.get_settings", "node.status",
                                         "node.list_releases"}} \cup
    {Rest(op, "node:write", op) : op \in {"node.update_settings", "node.restart"}} \cup
    {Rest(op, "node:deploy", op) : op \in {"node.deploy_release", "node.rollback_release"}}

StaticEndpoints ==
    {Rest("deploy.static", "files:write", "static.deploy_release"),
     Rest("static.get_routing", "sites:read", "static.get_routing"),
     Rest("static.update_routing", "sites:write", "static.update_routing")}

LogEndpoints ==
    {Rest("logs.sources", "logs:read", "logs.list_sources"),
     Rest("logs.query", "logs:read", "logs.query"),
     Rest("logs.diagnose", "logs:read", "logs.diagnose"),
     Via("rest", "logs.query_raw", {"logs:read", "admin"}, "logs.query"),
     Via("rest", "logs.diagnose_raw", {"logs:read", "admin"}, "logs.diagnose")}

OperationEndpoints ==
    {Rest("tls.status", "tls:read", "tls.get_status"),
     Rest("deploy.artifact", "files:write", "file.deploy_artifact"),
     Rest("deploy.root", "files:write", "file.deploy_root"),
     Rest("backup.list", "backups:read", "backup.list"),
     Rest("backup.create", "backups:write", "backup.create"),
     Rest("backup.restore", "backups:write", "backup.restore")}

CronEndpoints ==
    {Rest("cron.list", "cron:read", "cron.list"),
     Rest("cron.create", "cron:write", "cron.create"),
     Rest("cron.create_raw", "cron:write", "cron.create"),
     Rest("cron.update", "cron:write", "cron.update"),
     Rest("cron.update_raw", "cron:write", "cron.update"),
     Rest("cron.delete", "cron:write", "cron.delete")}

SettingsEndpoints ==
    {Rest("settings.get", "sites:read", "get"),
     Rest("settings.update_root", "sites:write", "update_root"),
     Rest("settings.rotate_password", "site-users:write", "rotate_password"),
     Rest("settings.get_php", "php:read", "get_php"),
     Rest("settings.update_php", "php:write", "update_php"),
     Rest("settings.get_pagespeed", "pagespeed:read", "get_pagespeed"),
     Rest("settings.update_pagespeed", "pagespeed:write", "update_pagespeed"),
     Rest("settings.purge_pagespeed", "cache:purge", "purge_pagespeed")}

-----------------------------------------------------------------------------
(* MCP *)

\* cloudpanel_*: these tools do not audit.
ActionTools == {Mcp(a.name, a.scope, "none") : a \in Actions}

LogTools ==
    {Mcp("logs.sources", "logs:read", "logs.list_sources"),
     Mcp("logs.query", "logs:read", "logs.query"),
     Mcp("logs.diagnose", "logs:read", "logs.diagnose"),
     Via("mcp", "logs.query_raw", {"logs:read", "admin"}, "logs.query"),
     Via("mcp", "logs.diagnose_raw", {"logs:read", "admin"}, "logs.diagnose")}

SettingsTools ==
    {Mcp("settings.get", "sites:read", "get"),
     Mcp("settings.update_root", "sites:write", "update_root"),
     Mcp("settings.rotate_password", "site-users:write", "rotate_password"),
     Mcp("settings.get_php", "php:read", "get_php"),
     Mcp("settings.update_php", "php:write", "update_php"),
     Mcp("settings.get_pagespeed", "pagespeed:read", "get_pagespeed"),
     Mcp("settings.update_pagespeed", "pagespeed:write", "update_pagespeed"),
     Mcp("settings.purge_pagespeed", "cache:purge", "purge_pagespeed")}

CronTools ==
    {Mcp("cron.list", "cron:read", "cron.list"),
     Mcp("cron.create", "cron:write", "cron.create"),
     Mcp("cron.create_raw", "cron:write", "cron.create"),
     Mcp("cron.update", "cron:write", "cron.update"),
     Mcp("cron.update_raw", "cron:write", "cron.update"),
     Mcp("cron.delete", "cron:write", "cron.delete")}

DeployTools ==
    {Mcp("tls.status", "tls:read", "tls.get_status"),
     Mcp("deploy.artifact", "files:write", "file.deploy_artifact"),
     Mcp("deploy.root", "files:write", "file.deploy_root")}

StaticTools ==
    {Mcp("static.get_routing", "sites:read", "static.get_routing"),
     Mcp("static.update_routing", "sites:write", "static.update_routing"),
     Mcp("deploy.static", "files:write", "static.deploy_release")}

ArtifactTools ==
    {Mcp(op, "artifacts:write", "none") : op \in {"artifact.begin", "artifact.chunk",
                                                  "artifact.complete"}}

\* Mutant: the tool to roll back asks for the scope to restart.
NodeToolsLax ==
    {Mcp("node.inspect_artifact", "artifacts:write", "project.inspect_artifact"),
     Mcp("build", "node:build", "node.server_build")} \cup
    {Mcp(op, "node:read", op) : op \in {"node.get_settings", "node.status",
                                        "node.list_releases"}} \cup
    {Mcp(op, "node:write", op) : op \in {"node.update_settings", "node.restart",
                                         "node.rollback_release"}} \cup
    {Mcp("node.deploy_release", "node:deploy", "node.deploy_release")}

NodeTools ==
    {Mcp("node.inspect_artifact", "artifacts:write", "project.inspect_artifact"),
     Mcp("build", "node:build", "node.server_build")} \cup
    {Mcp(op, "node:read", op) : op \in {"node.get_settings", "node.status",
                                        "node.list_releases"}} \cup
    {Mcp(op, "node:write", op) : op \in {"node.update_settings", "node.restart"}} \cup
    {Mcp(op, "node:deploy", op) : op \in {"node.deploy_release", "node.rollback_release"}}

BackupTools ==
    {Mcp("backup.create", "backups:write", "backup.create"),
     Mcp("backup.list", "backups:read", "backup.list"),
     Mcp("backup.restore", "backups:write", "backup.restore")}

-----------------------------------------------------------------------------
(* Commands of root that ask the helper; none of them audits *)

SettingsCommands == {"settings.get", "settings.update_root", "settings.rotate_password",
                     "settings.get_php", "settings.update_php", "settings.get_pagespeed",
                     "settings.update_pagespeed", "settings.purge_pagespeed"}
FileCommands == {"tls.status", "deploy.artifact", "deploy.root"}
BackupCommands == {"backup.create", "backup.list", "backup.restore"}
\* A raw update needs a confirmation that the command has no flag for.
CronCommands == {"cron.list", "cron.create", "cron.create_raw", "cron.update", "cron.delete"}
NodeCommands == {"node.get_settings", "node.status", "node.update_settings", "node.restart",
                 "node.deploy_release", "node.list_releases", "node.rollback_release"}

-----------------------------------------------------------------------------
Endpoint == ActionEndpoints \cup SiteEndpoints \cup ArtifactEndpoints \cup DocEndpoints
            \cup InspectEndpoint \cup NodeEndpoints \cup StaticEndpoints \cup LogEndpoints
            \cup OperationEndpoints \cup CronEndpoints \cup SettingsEndpoints
            \cup ActionTools \cup LogTools \cup SettingsTools \cup CronTools
            \cup DeployTools \cup StaticTools \cup ArtifactTools \cup NodeTools
            \cup BackupTools
Commands == SettingsCommands \cup FileCommands \cup BackupCommands \cup CronCommands
            \cup NodeCommands \cup {"user.list"}
Scope == (UNION {e.scopes : e \in Endpoint}) \cup {"admin"}

\* The server keeps artifacts and its documents; everything else is the helper's.
ServerOps == {e.op : e \in ArtifactEndpoints \cup ArtifactTools \cup DocEndpoints}
=============================================================================
