-------------------------------- MODULE Requests --------------------------------
(***************************************************************************)
(* One gpi_host from the reading of its profile on, seen from the data:    *)
(* the documents clients send, the files it reads, the expressions it      *)
(* evaluates, the command line it hands to the shell, the output it reads  *)
(* back, the reply it makes of all that.  Its one thread carries out one   *)
(* request after the other.  Module Host has what this one leaves out:     *)
(* clients, replies on their way, crashes, the files of job records.       *)
(*                                                                         *)
(* While a status spec is evaluated the world goes on: processes start and *)
(* end, and each time an operation looks, a port may have opened or closed *)
(* and a file may have been rewritten.                                     *)
(***************************************************************************)
EXTENDS Wire, StatusSpec, CatalogAction

CONSTANTS
    Profiles,       \* files a host may be started with
    Disk,           \* the files of the repository, by path
    Rewritten,      \* the path of one more, which others rewrite
    Versions,       \* what they write there
    Pids,           \* process ids of the program that specs ask for
    Documents,      \* what clients send: JSON values, or no JSON at all
    Outputs,        \* what a command prints: the lexemes of an object or none, and the texts around it
    Endings,        \* how a command ends
    Unencodable,    \* the symbols a command may print that are not UTF-8
    Meaning,        \* per token of a command in a catalog: the pieces it stands for
    Jobs            \* job ids

\* What a variable holds that holds nothing yet.
None == <<>>

\* The names a client's document gives, which a reply may have to repeat.
NamesIn(doc) ==
    {Contents(At(doc, key)) : key \in {k \in {<<"method">>} : HasA("string", doc, k)}}
    \cup {StringOf(ParamsOf(doc), <<"appId">>)}

ASSUME RequestsAssumption ==
    /\ \A path \in DOMAIN Disk : Disk[path] \in JsonValues \cup {Missing, NotJson}
    /\ Versions \subseteq JsonValues \cup {Missing, NotJson}
    /\ Pids \subseteq 1..MaxInt
    /\ \A name \in UNION {NamesIn(doc) : doc \in Documents \ {NotJson}} :
          \E text \in DOMAIN Literals : IsTextOf(text, Str(name))
    /\ None \notin Documents \cup Endings \cup Outputs

\* What a command prints.  What is written as an object is parsed to one, if it
\* is parsed at all.
ASSUME OutputsAssumption ==
    \A out \in Outputs :
        /\ OfSymbols(out.before) /\ OfSymbols(out.after)
        /\ OfSymbols(out.object) /\ \A i \in DOMAIN out.object : OfSymbols(out.object[i])
        /\ out.object # <<>> =>
              /\ IsObjectText(out.object)
              /\ LET text == FlattenSeq(out.object)
                 IN  text \in DOMAIN Literals => Is("object", Literals[text])

\* The catalogs: what a command is made of is text, and each token means something.
ASSUME CatalogAssumption ==
    /\ OfSymbols(RepoRoot)
    /\ \A token \in DOMAIN Meaning : IsMeaning(token, Meaning[token])
    /\ \A path \in DOMAIN Disk : \A i \in DOMAIN LoadActionCatalog(Disk[path]) :
          LET entry == LoadActionCatalog(Disk[path])[i]
          IN  entry.command \in Seq(DOMAIN Meaning) /\ OfSymbols(entry.cwd)

\* What a client gives as an argument is a text, or is dumped as one.
ASSUME ArgumentsAssumption ==
    \A doc \in Documents : RequestIsValid(doc) =>
        LET r == ParseRequestLine(doc)
        IN  /\ OfSymbols(r.key) /\ OfSymbols(r.value)
            /\ \A name \in DOMAIN ParseArgsObject(r.args) : OfSymbols(ParseArgsObject(r.args)[name])

\* What paths are made of is text.
ASSUME PathsAssumption ==
    /\ \A job \in Jobs : OfSymbols(job)
    /\ \A file \in Profiles : ProfileIsValid(file) =>
          LET loaded == LoadHostProfile(file)
          IN  /\ \A app \in loaded.allowedApps : OfSymbols(app)
              /\ \A key \in DOMAIN RequiredTokens : OfSymbols(loaded.pathTemplates[key])

\* How a command ends: with an exit code, by a signal, or nobody knows how.
ASSUME EndingsAssumption ==
    Endings \subseteq {<<"exited", n>> : n \in 0..255} \cup {<<"signaled", s>> : s \in 1..126} \cup {<<"lost">>}

VARIABLES
    pc,         \* where the host's thread is
    profile,    \* the host's profile
    document,   \* what a client has sent
    request,    \* the request that was read from it
    reply,      \* the reply to it
    pids,       \* the program's processes
    ran,        \* the processes that ran at some time of the request
    spec,       \* the status spec
    step,       \* the number of its next operation
    values,     \* the fields evaluated so far
    fields,     \* those of them that are shown
    snapshot,   \* the snapshot published for the request; the host reads none
    action,     \* the catalog entry that is run
    line,       \* the command line made of it
    given,      \* the arguments the program received, its name first
    ending,     \* how it ended
    output      \* what it printed

status  == <<spec, step, values, fields, snapshot>>
command == <<action, line, given, ending, output>>
message == <<document, request>>
vars    == <<pc, profile, message, reply, pids, ran, status, command>>

NoStatus  == spec = None /\ step = 0 /\ values = <<>> /\ fields = <<>> /\ snapshot = None
NoCommand == action = None /\ line = <<>> /\ given = <<>> /\ ending = None /\ output = None
NoTrace   ==
    /\ document = None /\ request = None /\ reply = None /\ ran = {}
    /\ NoStatus /\ NoCommand

Init ==
    /\ pc = "start"
    /\ profile = None
    /\ NoTrace
    /\ pids = {}

\* A profile that is not valid ends the host.
Start(file) ==
    /\ pc = "start"
    /\ IF ProfileIsValid(file)
       THEN pc' = "idle" /\ profile' = LoadHostProfile(file)
       ELSE pc' = "exited" /\ UNCHANGED profile
    /\ UNCHANGED <<message, reply, pids, ran, status, command>>

Answer(body) ==
    /\ pc' = "answered"
    /\ reply' = BuildOkResponse(request.id, body)

AnswerError(id, code, details) ==
    /\ pc' = "answered"
    /\ reply' = BuildErrorResponse(id, code, details)

\* Nobody catches what a handler throws.
Throw ==
    /\ pc' = "terminated"
    /\ UNCHANGED reply

\* All that a handler knows of a request are its local variables.
SendReply ==
    /\ pc = "answered"
    /\ pc' = "idle"
    /\ document' = None /\ request' = None /\ reply' = None /\ ran' = {}
    /\ spec' = None /\ step' = 0 /\ values' = <<>> /\ fields' = <<>> /\ snapshot' = None
    /\ action' = None /\ line' = <<>> /\ given' = <<>> /\ ending' = None
    /\ output' = None
    /\ UNCHANGED <<profile, pids>>

-------------------------------------------------------------------------------
(* A document arrives: it is refused, or the handler of its method runs.   *)

Receive(doc) ==
    /\ pc = "idle"
    /\ document' = doc
    /\ \/ /\ ~RequestIsValid(doc)
          /\ AnswerError(RequestId(doc), "E_BAD_ARG", NoDetails)
          /\ UNCHANGED request
       \/ /\ RequestIsValid(doc)
          /\ request' = ParseRequestLine(doc)
          /\ LET refused == Validation(request', profile.allowedApps)
             IN  IF refused = NotRefused
                 THEN pc' = "handle" /\ UNCHANGED reply
                 ELSE AnswerError(request'.id, refused.code, refused.details)
    /\ UNCHANGED <<profile, pids, ran, status, command>>

Handles(method) == pc = "handle" /\ request.method = <<method>>

PingBody ==
    Obj(   <<"pong">> :> Bool(TRUE)
        @@ <<"interfaceName">> :> Str(<<"generic-process-interface">>)
        @@ <<"interfaceVersion">> :> Number(1))

Ping ==
    /\ Handles("ping")
    /\ Answer(PingBody)
    /\ UNCHANGED <<profile, message, pids, ran, status, command>>

-------------------------------------------------------------------------------
(* status.get.                                                             *)

StatusGet ==
    LET app  == request.appId
        file == ReadTextFile(Disk, SpecPath(profile, app))
        code == LoadStatusSpec(file, app)
    IN  /\ Handles("status.get")
        /\ ran' = pids
        /\ CASE code = "kNone"  -> /\ pc' = "evaluate"
                                   /\ spec' = SpecOf(file, app)
                                   /\ step' = 1
                                   /\ UNCHANGED reply
             [] code = "throws" -> Throw /\ UNCHANGED <<spec, step>>
             [] OTHER           -> /\ AnswerError(request.id, ToIpcErrorCode(code), NoDetails)
                                   /\ UNCHANGED <<spec, step>>
        /\ UNCHANGED <<profile, message, pids, values, fields, snapshot, command>>

\* The process probe lists the processes of one instant in some order, or
\* fails and lists none (ProcessProbe).  The port may accept or not.
Seen == [files   : {Put(Disk, Rewritten, version) : version \in Versions},
         pids    : SetToSeqs(pids) \cup {<<>>},
         accepts : BOOLEAN]

Keep(op, value) ==
    /\ values' = Put(values, op.fieldName, value)
    /\ fields' = IF IsHidden(op.fieldName) THEN fields ELSE Put(fields, op.fieldName, value)
    /\ step' = step + 1

\* An operation fails and those after it are evaluated all the same.
BugFailureGoesOn ==
    /\ pc = "evaluate"
    /\ step \in DOMAIN spec.operations
    /\ \E seen \in Seen :
         LET result == EvaluateOperation(spec.operations[step], values, seen)
         IN  /\ IF result.code = "kNone" THEN UNCHANGED reply
                ELSE reply' = BuildErrorResponse(request.id, ToIpcErrorCode(result.code), NoDetails)
             /\ Keep(spec.operations[step], result.value)
    /\ UNCHANGED <<pc, profile, message, pids, ran, spec, snapshot, command>>

\* One turn of the loop of ExecuteStatusSpec.
Evaluate ==
    /\ pc = "evaluate"
    /\ step \in DOMAIN spec.operations
    /\ \E seen \in Seen :
         LET result == EvaluateOperation(spec.operations[step], values, seen)
         IN  \/ /\ result.code = "kNone"
                /\ Keep(spec.operations[step], result.value)
                /\ UNCHANGED <<pc, reply>>
             \/ /\ result.code # "kNone"
                /\ AnswerError(request.id, ToIpcErrorCode(result.code), NoDetails)
                /\ UNCHANGED <<values, fields, step>>
    /\ UNCHANGED <<profile, message, pids, ran, spec, snapshot, command>>

\* WriteSnapshotEnvelope; AtomicReplaceFile succeeds or leaves the old file
\* or, when only the sync of the directory fails, the new one.
Publish ==
    /\ pc = "evaluate"
    /\ step \notin DOMAIN spec.operations
    /\ LET payload  == PayloadOf(spec, values, fields)
           replaced == [path    |-> SnapshotPath(profile, request.appId),
                        appId   |-> request.appId,
                        payload |-> payload]
       IN  \/ snapshot' = replaced /\ Answer(payload)
           \/ /\ snapshot' \in {snapshot, replaced}
              /\ AnswerError(request.id, ToIpcErrorCode("kSnapshotWriteFailed"), NoDetails)
    /\ UNCHANGED <<profile, message, pids, ran, spec, step, values, fields, command>>

-------------------------------------------------------------------------------
(* action.list, config.get, config.set and action.invoke.                  *)

Catalog == LoadActionCatalog(ReadTextFile(Disk, CatalogPath(profile, request.appId)))

IsPublicActionName(name) == name \notin {<<"config_show">>, <<"config_set_key">>}

PublicActions(catalog) ==
    LET public == SelectSeq(catalog, LAMBDA entry : IsPublicActionName(entry.name))
        Item(entry) == Obj(   <<"name">> :> Str(entry.name)
                           @@ <<"label">> :> Str(entry.label)
                           @@ <<"args">> :> entry.args)
    IN  Obj(<<"actions">> :> Arr([i \in DOMAIN public |-> Item(public[i])]))

ActionList ==
    /\ Handles("action.list")
    /\ \/ /\ Catalog = <<>>
          /\ AnswerError(request.id, "E_INTERNAL", NoDetails)
       \/ /\ Catalog # <<>>
          /\ Answer(PublicActions(Catalog))
    /\ UNCHANGED <<profile, message, pids, ran, status, command>>

ActionName(r) ==
    CASE r.method = <<"config.get">>    -> <<"config_show">>
      [] r.method = <<"config.set">>    -> <<"config_set_key">>
      [] r.method = <<"action.invoke">> -> r.actionName

\* The arguments of the command, by name.
ArgsOf(r) ==
    CASE r.method = <<"config.get">>    -> <<>>
      [] r.method = <<"config.set">>    -> [name \in {<<"key">>, <<"value">>} |-> IF name = <<"key">> THEN r.key ELSE r.value]
      [] r.method = <<"action.invoke">> -> ParseArgsObject(r.args)

\* ActionRunResult; error is empty when ok, text is the standard output.
Failed(rc, error, payload, text) ==
    [ok |-> FALSE, rc |-> rc, error |-> error, payload |-> payload, text |-> text]
Succeeded(payload, text) ==
    [ok |-> TRUE, rc |-> 0, error |-> <<>>, payload |-> payload, text |-> text]

BuildConfigSetFallbackPayload(r, result) ==
    LET lines == SplitNonEmptyLines(result.text)
    IN  Obj([field \in {<<"ok">>, <<"key">>, <<"value">>, <<"output">>} |->
                CASE field = <<"ok">>    -> Bool(result.rc = 0)
                  [] field = <<"key">>   -> Str(r.key)
                  [] field = <<"value">> -> Str(r.value)
                  [] OTHER               -> Arr([i \in DOMAIN lines |-> Str(lines[i])])])

ConfigGetFallback(result) ==
    Obj([field \in {<<"repoRoot">>, <<"valid">>, <<"errors">>, <<"entries">>, <<"paths">>, <<"configTree">>} |->
            CASE field = <<"repoRoot">> -> Str(RepoRoot)
              [] field = <<"valid">>    -> Bool(FALSE)
              [] field = <<"errors">>   -> Arr(<<Str(result.error)>>)
              [] OTHER                  -> EmptyObject])

\* The record that action.invoke stores, which action.job.get answers.
JobRecord(result) ==
    Obj([field \in {<<"state">>, <<"result">>, <<"stdout">>, <<"error">>} |->
            CASE field = <<"state">>  -> Str(IF result.ok THEN <<"succeeded">> ELSE <<"failed">>)
              [] field = <<"result">> -> result.payload
              [] field = <<"stdout">> -> Str(result.text)
              [] OTHER                -> IF result.ok THEN Null ELSE Str(result.error)])

\* The payload is always an object here, so config.get falls back on failure
\* only, and config.set when there is nothing in it as well.
BodyOf(r, result) ==
    CASE r.method = <<"config.get">> ->
            IF result.ok THEN result.payload ELSE ConfigGetFallback(result)
      [] r.method = <<"config.set">> ->
            IF result.ok /\ result.payload # EmptyObject THEN result.payload
            ELSE BuildConfigSetFallbackPayload(r, result)
      [] r.method = <<"action.invoke">> -> JobRecord(result)

\* dump() throws on a text that is not UTF-8; a payload has been parsed and is.
CannotBeDumped(r, result) ==
    /\ ToSet(result.text) \cap Unencodable # {}
    /\ \/ r.method = <<"action.invoke">>
       \/ r.method = <<"config.set">> /\ ~(result.ok /\ result.payload # EmptyObject)

Conclude(r, result) ==
    IF CannotBeDumped(r, result) THEN Throw ELSE Answer(BodyOf(r, result))

NotLaunched(error) == Answer(BodyOf(request, Failed(2, error, EmptyObject, <<>>)))

\* A detached command that is launched has succeeded, whatever becomes of it.
DetachedPayload ==
    Obj(   <<"detached">> :> Bool(TRUE)
        @@ <<"pid">> :> Null
        @@ <<"action">> :> Str(action.name))

Run(entry, args) ==
    /\ ~LacksArgs(entry.command, args)
    /\ pc' = "shell"
    /\ action' = entry
    /\ line' = BuildShellCommand(ApplyPythonScriptFallback(
                   RenderCommand(entry.command, args), ResolveActionCwd(entry.cwd), Disk))
    /\ UNCHANGED reply

\* Up to the launch: the catalog, the entry, its command with the arguments
\* put in.  The working directory only matters for the script that is found.
Invoke ==
    LET args     == ArgsOf(request)
        catalog  == Catalog
        IsFor(i) == catalog[i].name = ActionName(request)
        First    == {i \in DOMAIN catalog : IsFor(i) /\ \A j \in 1..(i - 1) : ~IsFor(j)}
    IN  /\ \E method \in {"config.get", "config.set", "action.invoke"} : Handles(method)
        /\ \/ /\ catalog = <<>>
              /\ AnswerError(request.id, "E_INTERNAL", NoDetails)
              /\ UNCHANGED <<action, line>>
           \/ /\ catalog # <<>> /\ First = {}
              /\ NotLaunched(<<"unknown_action">>)
              /\ UNCHANGED <<action, line>>
           \/ /\ \E i \in First : LacksArgs(catalog[i].command, args)
              /\ NotLaunched(<<"missing_action_arg">>)
              /\ UNCHANGED <<action, line>>
           \/ \E i \in First : Run(catalog[i], args)
        /\ UNCHANGED <<profile, message, pids, ran, status, given, ending, output>>

LaunchFails ==
    /\ pc = "shell"
    /\ NotLaunched(<<"action_launch_failed">>)
    /\ UNCHANGED <<profile, message, pids, ran, status, command>>

\* What the program of a detached command prints goes where the host prints.
LaunchDetached ==
    /\ pc = "shell" /\ action.detached
    /\ given' = ShellReads(line)
    /\ ending' = <<"detached">>
    /\ Answer(BodyOf(request, Succeeded(DetachedPayload, <<>>)))
    /\ UNCHANGED <<profile, message, pids, ran, status, action, line, output>>

\* The status pclose returns: -1 when it cannot tell.
RawStatus(end) ==
    CASE end[1] = "exited"   -> 256 * end[2]
      [] end[1] = "signaled" -> end[2]
      [] end[1] = "lost"     -> -1

Printed(out) == out.before \o FlattenSeq(out.object) \o out.after

CommandEnds(end, out) ==
    /\ pc = "shell" /\ ~action.detached
    /\ given' = ShellReads(line)
    /\ ending' = end
    /\ output' = out
    /\ LET rc      == DecodeExitCode(RawStatus(end))
           text    == Printed(out)
           payload == CompactObjectJson(TryExtractFirstJsonObject(text))
       IN  Conclude(request, IF rc = 0 THEN Succeeded(payload, text)
                             ELSE Failed(rc, <<"action_failed">>, payload, text))
    /\ UNCHANGED <<profile, message, pids, ran, status, action, line>>

-------------------------------------------------------------------------------
(* The program's processes.  Nothing looks at them but a status.get.       *)

Observed == pc \in {"idle", "evaluate"}

ProcessStarts(pid) ==
    /\ Observed
    /\ pid \notin pids
    /\ pids' = pids \cup {pid}
    /\ ran' = IF pc = "evaluate" THEN ran \cup {pid} ELSE ran
    /\ UNCHANGED <<pc, profile, message, reply, status, command>>

ProcessEnds(pid) ==
    /\ Observed
    /\ pid \in pids
    /\ pids' = pids \ {pid}
    /\ UNCHANGED <<pc, profile, message, reply, ran, status, command>>

Next ==
    \/ \E file \in Profiles : Start(file)
    \/ \E doc \in Documents : Receive(doc)
    \/ Ping
    \/ StatusGet
    \/ Evaluate
    \/ Publish
    \/ ActionList
    \/ Invoke
    \/ LaunchFails
    \/ LaunchDetached
    \/ \E end \in Endings, out \in Outputs : CommandEnds(end, out)
    \/ SendReply
    \/ \E pid \in Pids : ProcessStarts(pid) \/ ProcessEnds(pid)

Spec == Init /\ [][Next]_vars

-------------------------------------------------------------------------------
(* Properties.                                                             *)

\* Types, and what belongs together: only a request under way or answered
\* leaves a trace, a spec is evaluated only while there is no reply, what is
\* shown is part of what was evaluated, only a command that was made is run.
TypeOK ==
    /\ pc \in {"start", "exited", "idle", "handle", "evaluate", "shell", "answered", "terminated"}
    /\ (profile = None) <=> pc \in {"start", "exited"}
    /\ pc \in {"start", "exited", "idle"} => NoTrace
    /\ pc \in {"handle", "evaluate", "shell"} => request # None
    /\ pc = "handle" => NoStatus /\ NoCommand
    /\ (reply # None) <=> pc = "answered"
    /\ pc = "evaluate" => spec # None
    /\ (document = None) <=> pc \in {"start", "exited", "idle"}
    /\ request = None => NoStatus /\ NoCommand
    /\ spec # None => request.method = <<"status.get">> /\ NoCommand
    /\ spec # None => step \in 1..(Len(spec.operations) + 1)
    /\ \A field \in DOMAIN fields :
          ~IsHidden(field) /\ field \in DOMAIN values /\ values[field] = fields[field]
    /\ pc = "shell" => action # None
    /\ action # None => request.method # <<"status.get">> /\ NoStatus
    /\ (action = None) => line = <<>> /\ given = <<>> /\ ending = None
    /\ output # None => ending # None
    /\ pids \subseteq Pids /\ ran \subseteq Pids

\* Of a reply: that it is an answer to a request of one of these methods.
Ok == At(reply, <<"ok">>) = Bool(TRUE)
Body == At(reply, <<"response">>)
Answered(methods) == pc = "answered" /\ Ok /\ request.method \in {<<name>> : name \in methods}

AnInt(value) == Is("integer", value) /\ Contents(value) \in (-MaxInt - 1)..MaxInt

\* What contract-v0.md:121-131 asks of a status of app, whose spec is s.
IsComplete(payload, s) ==
    LET Field(name) == At(payload, <<name>>)
        running     == Contents(Field("running"))
        hasPid      == AnInt(Field("pid"))
    IN  /\ \A name \in {"interfaceName", "interfaceVersion", "appId", "appTitle", "running",
                        "pid", "hostRunning", "hostPid", "bootId", "error"} :
              Has(payload, <<name>>)
        /\ Field("interfaceName") = Str(<<"generic-process-interface">>)
        /\ Field("interfaceVersion") = Number(1)
        /\ Field("appId") = Str(request.appId)
        /\ Field("appTitle") = Str(s.appTitle)
        /\ Is("bool", Field("running")) /\ Is("bool", Field("hostRunning"))
        /\ \A name \in {"pid", "hostPid"} : Field(name) = Null \/ AnInt(Field(name))
        /\ Field("bootId") = Str(IF running /\ hasPid
                                 THEN request.appId \o <<":", ToString(Contents(Field("pid")))>>
                                 ELSE <<>>)
        /\ Field("error") = Str(<<>>)

\* Every status the host answers or publishes has the fields of the contract,
\* of the app that was asked for and of types a client can rely on, whatever
\* the spec names its own fields and whatever it makes of what it reads; what
\* is answered has been published.  (status_engine.cpp:94-107)
StatusIsComplete ==
    /\ Answered({"status.get"}) => IsComplete(Body, spec) /\ snapshot.payload = Body
    /\ snapshot # None =>
          /\ IsComplete(snapshot.payload, spec)
          /\ snapshot.appId = request.appId
          /\ snapshot.path = SnapshotPath(profile, request.appId)

\* A spec whose fields all come from process probes, with no defaults.
OnlyProbes(s) ==
    \A i \in DOMAIN s.operations :
        LET op == s.operations[i]
        IN  \/ op.opName = <<"process_running">>
            \/ op.opName = <<"derive">> /\ ~HasDefault(op.args)

\* The places in a spec of the process probes.
ProbesOf(s) == {i \in DOMAIN s.operations : s.operations[i].opName = <<"process_running">>}

\* The places at which a spec sets a field.
SettersOf(s, field) == {i \in DOMAIN s.operations : s.operations[i].fieldName = field}

\* Operation j derives its field from that of the probe at i, after it, and
\* no other operation sets it.
Copies(s, j, sub, i, key) ==
    LET op == s.operations[j]
    IN  /\ i < j
        /\ SettersOf(s, op.fieldName) = {j}
        /\ op.opName = <<"derive">>
        /\ Len(op.args) = 3
        /\ TrimCopy(op.args[1]) = <<sub>>
        /\ TrimCopy(op.args[2]) = s.operations[i].fieldName
        /\ TrimCopy(op.args[3]) = <<key>>

Derives(s, field, sub, i, key) ==
    \E j \in SettersOf(s, field) : Copies(s, j, sub, i, key)

\* What such a spec reports was the case during the request, not during an
\* earlier one or for another app: the pid is of a process that ran then, and
\* an app is running only if a process did.  When both fields come from one
\* look at the processes they agree.  (status_operation_registry.cpp:176-199)
ReportedPidRan ==
    Answered({"status.get"}) /\ OnlyProbes(spec) =>
        LET running == At(Body, <<"running">>)
            pid     == At(Body, <<"pid">>)
        IN  /\ pid # Null => Contents(pid) \in ran
            /\ running = Bool(TRUE) => ran # {}
            /\ \A i \in ProbesOf(spec) :
                  /\ SettersOf(spec, spec.operations[i].fieldName) = {i}
                  /\ Derives(spec, spec.runningField, "bool_from_obj", i, "running")
                  /\ Derives(spec, spec.pidField, "int_from_obj", i, "pid")
                  => (running = Bool(TRUE) <=> pid # Null)

\* The argument the caller's document gives under a name, as text.
Sent(name) ==
    LET params == At(document, <<"params">>)
    IN  CASE request.method = <<"config.set">>    ->
            IF Has(params, name) THEN AsText(At(params, name)) ELSE <<>>
          [] request.method = <<"action.invoke">> -> ArgText(At(At(params, <<"args">>), name))

\* The arguments an action means: text as it is, and the caller's arguments.
Meant(entry) ==
    [k \in DOMAIN entry.command |->
        FlattenSeq([i \in DOMAIN Meaning[entry.command[k]] |->
            LET piece == Meaning[entry.command[k]][i]
            IN  IF piece[1] = "text" THEN piece[2] ELSE Sent(TrimCopy(piece[2]))])]

\* These arguments are the ones the action means; only the name of a script may
\* have become the path of a file of that name.  A shell takes a name with = in
\* it for an assignment, unless something else in it needs quotes.
AreMeant(entry, words) ==
    LET meant == Meant(entry)
    IN  ("=" \in ToSet(meant[1]) => NeedsQuotingPosix(meant[1])) =>
            /\ Len(words) = Len(meant)
            /\ \A k \in DOMAIN meant :
                  \/ words[k] = meant[k]
                  \/ /\ k = 2
                     /\ Exists(Disk, words[2])
                     /\ IsSuffix(<<"/">> \o TrimCopy(meant[2]) \o <<".", "py">>, words[2])

\* A program receives exactly the arguments its catalog entry means, each one
\* whole and nothing besides, whatever the caller put into them: blanks,
\* quotes, braces, shell syntax, nothing at all.
\* (action_executor.cpp:100-137, process_exec.cpp:52-121)
ArgumentsArriveWhole == ending # None => AreMeant(action, given)

RanWell == ending \in {<<"exited", 0>>, <<"detached">>}

\* An object is printed, and no brace before it.
PrintsObject(out) == out # None /\ out.object # <<>> /\ "{" \notin ToSet(out.before)

\* The object that is printed.
ObjectIn(out) ==
    LET text == FlattenSeq(out.object)
    IN  IF text \in DOMAIN Literals THEN Literals[text] ELSE EmptyObject

\* A reply says of a command what became of it.  A job has succeeded just if
\* the program ended with 0 or was left to itself: not if a signal ended it, if
\* it was never launched or nobody knows how it ended.  A config.get or .set
\* that went wrong says so.  The payload of a result is the object that was
\* printed, unless a brace was printed before it.
\* (process_exec.cpp:139-157, action_executor.cpp:15-74 and 301-322)
ResultsTellWhatHappened ==
    Answered({"config.get", "config.set", "action.invoke"}) =>
        CASE request.method = <<"action.invoke">> ->
                /\ (At(Body, <<"state">>) = Str(<<"succeeded">>)) <=> RanWell
                /\ (At(Body, <<"error">>) = Null) <=> RanWell
                /\ PrintsObject(output) => At(Body, <<"result">>) = ObjectIn(output)
          [] request.method = <<"config.get">> ->
                /\ ~RanWell => At(Body, <<"valid">>) = Bool(FALSE)
                /\ RanWell /\ PrintsObject(output) => Body = ObjectIn(output)
          [] request.method = <<"config.set">> ->
                /\ ~RanWell => At(Body, <<"ok">>) = Bool(FALSE)
                /\ RanWell /\ PrintsObject(output) =>
                      \/ Body = ObjectIn(output)
                      \/ ObjectIn(output) = EmptyObject /\ At(Body, <<"ok">>) = Bool(TRUE)

\* The reply to the document: its id, its form, what an error says of it.
ReplyFits ==
    LET id      == RequestId(document)
        error   == At(reply, <<"error">>)
        code    == Contents(At(error, <<"code">>))
        details == At(error, <<"details">>)
    IN  /\ IF id = <<>> THEN ~Has(reply, <<"id">>) ELSE At(reply, <<"id">>) = Str(id)
        /\ HasA("bool", reply, <<"ok">>)
        /\ Ok => HasA("object", reply, <<"response">>) /\ ~Has(reply, <<"error">>)
        /\ ~Ok => ~Has(reply, <<"response">>) /\ Is("object", details)
        /\ ~Ok /\ code = <<"E_UNSUPPORTED_METHOD">> =>
              details = Member("method", Str(StringOf(document, <<"method">>)))
        /\ ~Ok /\ code = <<"E_UNSUPPORTED_APP">> =>
              details = Member("appId", Str(StringOf(ParamsOf(document), <<"appId">>)))
        /\ ~Ok /\ code = <<"E_BAD_ARG">> /\ details # EmptyObject =>
              StringOf(ParamsOf(document), Contents(At(details, <<"param">>))) = <<>>
        /\ ~Ok /\ code \in {<<"E_BAD_ARG">>, <<"E_UNSUPPORTED_METHOD">>, <<"E_UNSUPPORTED_APP">>} =>
              NoStatus /\ NoCommand

\* A reply carries the id of the document it answers and has one of the two
\* forms of the contract.  An error that is about something in the document
\* names that in its details, with every sign it was written with.  Nothing is
\* done for a document whose reply says that it was not understood, or that
\* names an app the host is not there for.
\* (wire_v0.cpp:24-143, dispatcher.cpp:66-103 and 200-216)
RepliesFitDocuments ==
    /\ pc = "answered" => ReplyFits
    /\ spec # None \/ action # None => request.appId \in profile.allowedApps

\* Wherever a template has the name, one sees in a path where its value ends:
\* with the path, or before a separator that is in none of the values.
ShowsEnd(template, name, texts) ==
    LET text == Substitute(template, Placeholder("repoRoot"), RepoRoot)
        ends == {"/", "."} \ UNION {ToSet(value) : value \in texts}
    IN  \A i \in DOMAIN text :
           OccursAt(text, Placeholder(name), i) => i + 2 = Len(text) \/ text[i + 3] \in ends

\* The templates of an accepted profile give every app a spec, a snapshot and
\* a catalog of its own, and every job of every app a record of its own, so that
\* no app's files are written over another's.  Module Host builds on this.  The
\* names of the apps are not to be taken for parts of a placeholder; and a path
\* with two names in it is to show where each of them ends.  It is about paths as
\* texts and the ids the host makes: a client may ask for a job by any text, and
\* a text with a path in it may lead to a record of another app (module Host).
\* (host_profile.cpp:115-165, path_templates.cpp:10-42)
PathsAreSeparate ==
    pc = "idle" /\ (\A app \in profile.allowedApps : ToSet(app) \cap {"{", "}", "jobId"} = {}) =>
        /\ IsInjective([app \in profile.allowedApps |-> SpecPath(profile, app)])
        /\ IsInjective([app \in profile.allowedApps |-> SnapshotPath(profile, app)])
        /\ IsInjective([app \in profile.allowedApps |-> CatalogPath(profile, app)])
        /\ LET template == profile.pathTemplates.actionJob
           IN  ShowsEnd(template, "appId", profile.allowedApps) /\ ShowsEnd(template, "jobId", Jobs) =>
                   IsInjective([r \in profile.allowedApps \X Jobs |-> RecordPath(profile, r[1], r[2])])
================================================================================
