------------------------------- MODULE HostProfile ------------------------------
(***************************************************************************)
(* host_runtime/host_profile.cpp: what gpi_host reads at its start, and    *)
(* the paths it makes of the templates in it.                              *)
(***************************************************************************)
EXTENDS JsonValue

CONSTANTS
    RepoRoot    \* the --repo argument

\* Entries that are not strings, or empty, are passed over.
AllowedApps(root) ==
    {Contents(entry) : entry \in {entry \in ToSet(Contents(At(root, <<"allowedApps">>))) :
                                      Is("string", entry) /\ Contents(entry) # <<>>}}

RequireString(root, key) == HasA("string", root, key) /\ Contents(At(root, key)) # <<>>

\* The placeholders each template must have.
RequiredTokens ==
    [statusSpec     |-> {"repoRoot", "appId"},
     statusSnapshot |-> {"repoRoot", "appId"},
     actionCatalog  |-> {"repoRoot", "appId"},
     actionJob      |-> {"repoRoot", "appId", "jobId"}]

\* The job template is held to the rules of the others.
BugJobTokenNotRequired(paths, key) ==
    /\ RequireString(paths, <<key>>)
    /\ \A name \in RequiredTokens[key] \ {"jobId"} : HasToken(Contents(At(paths, <<key>>)), name)

TemplateIsValid(paths, key) ==
    /\ RequireString(paths, <<key>>)
    /\ \A name \in RequiredTokens[key] : HasToken(Contents(At(paths, <<key>>)), name)

ProfileIsValid(file) ==
    /\ IsObjectFile(file)
    /\ HasA("array", file, <<"allowedApps">>)
    /\ AllowedApps(file) # {}
    /\ HasA("object", file, <<"paths">>)
    /\ \A key \in DOMAIN RequiredTokens : TemplateIsValid(At(file, <<"paths">>), key)
    /\ HasA("object", file, <<"ipc">>)
    /\ LET ipc == At(file, <<"ipc">>)
       IN  /\ RequireString(ipc, <<"backend">>)
           /\ RequireString(ipc, <<"endpoint">>)
           /\ Contents(At(ipc, <<"backend">>)) = <<"zmq">>

LoadHostProfile(file) ==
    [allowedApps   |-> AllowedApps(file),
     pathTemplates |-> [key \in DOMAIN RequiredTokens |->
                            Contents(At(At(file, <<"paths">>), <<key>>))]]

\* ResolveSpecPath and its like: no job id except for a record.
Resolve(profile, key, app, job) ==
    RenderTemplate(profile.pathTemplates[key],
                   [repoRoot |-> RepoRoot, appId |-> app, jobId |-> job])

SpecPath(profile, app)     == Resolve(profile, "statusSpec", app, <<>>)
SnapshotPath(profile, app) == Resolve(profile, "statusSnapshot", app, <<>>)
CatalogPath(profile, app)  == Resolve(profile, "actionCatalog", app, <<>>)
RecordPath(profile, app, job) == Resolve(profile, "actionJob", app, job)

\* A path of a spec or a catalog, relative to the repository unless absolute.
InRepo(text) == IF text # <<>> /\ text[1] = "/" THEN text ELSE RepoRoot \o <<"/">> \o text
================================================================================
