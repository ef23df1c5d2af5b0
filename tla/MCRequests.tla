------------------------------- MODULE MCRequests -------------------------------
EXTENDS Requests

Line(field, parts) == field \o <<"=">> \o Join(parts, 1, ":")
Word(w)            == <<w>>
Strings(texts)     == Arr([i \in DOMAIN texts |-> Str(texts[i])])

-------------------------------------------------------------------------------
(* JSON: an integer of 4 bits stands for int.                              *)

MCBlanks  == {" ", "\n"}
MCMaxInt  == 7
MCNumbers == <<"7">> :> 7 @@ <<"3">> :> 3 @@ <<"19">> :> 19

\* Objects by their lexemes.
OkKey       == <<"\"", "ok", "\"">>
EmptyJson   == << <<"{">>, <<"}">> >>
WrongJson   == << <<"{">>, <<"x">>, <<"}">> >>
OkJson      == << <<"{">>, OkKey, <<":">>, <<"true">>, <<"}">> >>
QuotedJson  == << <<"{">>, OkKey, <<":">>, <<"\"", "a", "\\", "\"", "}", "b", "\"">>, <<"}">> >>
NestedJson  == << <<"{">>, OkKey, <<":">>, <<"{">>, <<"}">>, <<"}">> >>

\* Names of apps, and names that no method and no app has.
Apps == <<"bridge", "early", "twice", "proud", "stored", "ports", "wide", "vague", "lacking",
          "missing", "broken", "alien", "untitled", "unequal", "nameless", "idle", "throwing">>
Unknown == {<<"x">>, <<"a", "\"", "b">>}
Names   == Unknown \cup Methods \cup {<<>>} \cup {Word(Apps[i]) : i \in DOMAIN Apps}

\* A name as it is written between quotes.
Escaped(name) == FlattenSeq([i \in DOMAIN name |-> IF name[i] = "\"" THEN <<"\\", "\"">> ELSE <<name[i]>>])
Quoted(text) == <<"\"">> \o text \o <<"\"">>
Pair(key, text) == <<"{">> \o Quoted(<<key>>) \o <<":">> \o Quoted(text) \o <<"}">>

\* Texts and the values they are parsed to.
Parses ==
    {<<FlattenSeq(EmptyJson), EmptyObject>>,
     <<<<"true">>, Bool(TRUE)>>,
     <<<<"null">>, Null>>,
     <<<<"7">>, Number(7)>>,
     <<<<"19">>, Number(19)>>,
     <<FlattenSeq(OkJson), Obj(<<"ok">> :> Bool(TRUE))>>,
     <<FlattenSeq(QuotedJson), Obj(<<"ok">> :> Str(<<"a", "\"", "}", "b">>))>>,
     <<FlattenSeq(NestedJson), Obj(<<"ok">> :> EmptyObject)>>}
    \cup {<<Quoted(Escaped(name)), Str(name)>> : name \in Names}
    \cup {<<Pair(key, Escaped(name)), Obj(<<key>> :> Str(name))>> :
             key \in {"method", "appId"}, name \in Names}
    \cup {<<Pair("param", <<name>>), Obj(<<"param">> :> Str(<<name>>))>> :
             name \in ParamNames}
MCLiterals == [text \in {parse[1] : parse \in Parses} |-> (CHOOSE parse \in Parses : parse[1] = text)[2]]

-------------------------------------------------------------------------------
(* Profiles.                                                               *)

MCRepoRoot == <<"/", "repo">>
Root       == Placeholder("repoRoot") \o <<"/">>
Named(dir, last) == Root \o <<dir, "/">> \o Placeholder("appId") \o last
JobNamed   == Named("jobs", <<"/">> \o Placeholder("jobId") \o <<".", "json">>)

Templates(job) ==
    Obj(   <<"statusSpec">> :> Str(Named("specs", <<".", "json">>))
        @@ <<"statusSnapshot">> :> Str(Named("status", <<"/">> \o Placeholder("appId")))
        @@ <<"actionCatalog">> :> Str(Named("actions", <<>>))
        @@ <<"actionJob">> :> Str(job))
Ipc(backend) == Obj(<<"backend">> :> Str(<<backend>>) @@ <<"endpoint">> :> Str(<<"tcp">>))
Profile(apps, paths, ipc) ==
    Obj(<<"allowedApps">> :> Arr(apps) @@ <<"paths">> :> paths @@ <<"ipc">> :> ipc)

Everyone == [i \in DOMAIN Apps |-> Str(Word(Apps[i]))]
Two      == <<Number(1), Str(<<>>), Str(Word("bridge")), Str(Word("early"))>>

MCProfiles ==
    {Profile(Everyone, Templates(JobNamed), Ipc("zmq")),
     Profile(Two, Templates(Root \o Placeholder("jobId") \o <<"/">> \o Placeholder("appId")), Ipc("zmq")),
     Profile(Two, Templates(Named("jobs", <<>>)), Ipc("zmq")),
     Profile(Two, Templates(<<>>), Ipc("zmq")),
     Profile(Two, Obj(<<"statusSpec">> :> Str(Root)), Ipc("zmq")),
     Profile(Two, Templates(JobNamed), Ipc("pipe")),
     Profile(<<Number(1)>>, Templates(JobNamed), Ipc("zmq")),
     Profile(Two, Null, Ipc("zmq")), Profile(Two, Templates(JobNamed), EmptyObject),
     EmptyObject, Null, NotJson, Missing}

-------------------------------------------------------------------------------
(* Status specs.                                                           *)

StatusFile(title, lines) ==
    Obj(<<"appTitle">> :> Str(Word(title)) @@ <<"operations">> :> Strings(lines))

Probe == Line(<<"_", "agent">>, << <<"process_running">>, <<"agent">> >>)
RunningLine == Line(Word("running"), << <<"derive">>, <<"bool_from_obj">>, <<"_", "agent">>, <<"running">> >>)
PidLine     == Line(Word("pid"), << <<"derive">>, <<"int_from_obj">>, <<" ", "_", "agent">>, <<"pid">> >>)

HostProbe == Line(<<"_", "host">>, << <<"process_running">>, <<"agent">> >>)
TwiceFile ==
    Obj(<<"hostRunningField">> :> Str(<<"_", "up">>)
        @@ Contents(StatusFile("Twice",
               <<Probe, HostProbe, RunningLine, PidLine,
                 Line(<<"_", "up">>, << <<"derive">>, <<"bool_from_obj">>, <<"_", "host">>, <<"running">> >>),
                 Line(Word("hostPid"), << <<"derive">>, <<"int_from_obj">>, <<"_", "host">>, <<"pid">> >>)>>)))

ProudFile ==
    Obj(   <<"appId">> :> Str(Word("proud"))
        @@ <<"appTitle">> :> Str(Word("Proud"))
        @@ <<"runningField">> :> Str(Word("up"))
        @@ <<"pidField">> :> Str(Word("main"))
        @@ <<"hostPidField">> :> Str(Word("hostPid"))
        @@ <<"operations">> :>
               Arr(<<Number(1),
                     Str(Line(Word("appId"), << <<"const_str">>, <<"other">> >>)),
                     Str(Line(Word("bootId"), << <<"const">>, <<"7">> >>)),
                     Str(Line(Word("error"), << <<"const_str">>, <<"oops">>, <<"!">> >>)),
                     Str(Line(Word("up"), << <<"const_str">>, <<"true">> >>)),
                     Str(Line(Word("main"), << <<"const">>, <<"19">> >>)),
                     Str(Line(Word("hostPid"), << <<"const_str">>, <<"19">> >>))>>))

State == <<"state", ".", "json">>
StoredFile ==
    StatusFile("Stored",
        <<Line(<<"_", "state">>, << <<"file_json">>, State, <<"{", "}">> >>),
          Line(Word("exists"), << <<"file_exists">>, <<"/", "repo", "/">> \o State >>),
          Line(Word("running"), << <<"derive">>, <<"bool_from_obj">>, <<"_", "state">>, <<"running">>, <<"1">> >>),
          Line(Word("pid"), << <<"derive">>, <<"int_from_obj">>, <<"_", "state">>, <<"pid">> >>),
          Line(Word("name"), << <<"derive">>, <<"str_from_obj">>, <<"_", "state">>, <<"pid">>, <<"none">> >>),
          Line(Word("raw"), << <<"derive">>, <<"json_from_obj">>, <<"_", "state">>, <<"pid">>, <<"7">> >>)>>)

PortsFile ==
    StatusFile("Ports",
        <<Line(<<"_", "open">>, << <<"port_listening">>, <<"host">>, <<"7">> >>),
          Line(Word("copy"), << <<"derive">>, <<"copy">>, <<"_", "open">> >>),
          Line(Word("running"), << <<"derive">>, <<"or_bool">>, <<"gone">>, <<"copy">> >>),
          Line(Word("pid"), << <<"derive">>, <<"pick_int">>, <<"running">>, <<"text">> >>),
          Line(Word("text"), << <<"derive">>, <<"str_if_bool">>, <<"running">>, <<"3">>, <<"no">> >>),
          Line(Word("display"), << <<"derive">>, <<"running_display">>, <<"running">>, <<"text">> >>)>>)

SpecFiles ==
    [bridge   |-> StatusFile("Bridge", <<Probe, RunningLine, PidLine>>),
     early    |-> StatusFile("Early", <<PidLine, Probe, RunningLine>>),
     twice    |-> TwiceFile,
     proud    |-> ProudFile,
     stored   |-> StoredFile,
     ports    |-> PortsFile,
     wide     |-> StatusFile("Wide", <<Probe, Line(Word("open"), << <<"port_listening">>, <<"host">>, <<"19">> >>)>>),
     vague    |-> StatusFile("Vague", <<Probe, Line(Word("x"), << <<"guess">> >>)>>),
     lacking  |-> StatusFile("Lacking", <<Line(Word("x"), << <<"derive">>, <<"bool_from_obj">>, <<"y">> >>)>>),
     broken   |-> NotJson,
     alien    |-> Obj(<<"appId">> :> Str(Word("bridge")) @@ Contents(StatusFile("Alien", <<Probe>>))),
     untitled |-> Obj(<<"operations">> :> Strings(<<Probe>>)),
     unequal  |-> StatusFile("Unequal", <<Probe, <<"x">> >>),
     nameless |-> StatusFile("Nameless", << <<" ", "=", "const", ":", "7">> >>),
     idle     |-> Obj(<<"appTitle">> :> Str(Word("Idle")) @@ <<"operations">> :> Arr(<<Number(1)>>)),
     throwing |-> Obj(<<"appTitle">> :> Str(Word("Throwing")) @@ <<"pidField">> :> Number(1))]

MCRewritten == MCRepoRoot \o <<"/">> \o State
MCVersions ==
    {Missing, NotJson, Arr(<<>>),
     Obj(<<"running">> :> Str(Word("false")) @@ <<"pid">> :> Number(19)),
     Obj(<<"running">> :> Number(1) @@ <<"pid">> :> Str(Word("3")))}

-------------------------------------------------------------------------------
(* Catalogs: per token what it stands for.                                 *)

Arg(name)   == <<"arg", name>>
Plain(text) == <<"text", text>>
TokenPieces ==
    {<<Plain(<<"tool">>)>>, <<Plain(<<"python">>)>>, <<Plain(<<"show">>)>>, <<Plain(<<"data">>)>>,
     <<Plain(<<"-", "m">>)>>, <<Plain(<<"it", "'", "s">>)>>, <<Plain(<<"{", "}">>)>>,
     <<Arg(<<"key">>)>>, <<Arg(<<"value">>)>>, <<Arg(<<"name">>)>>,
     <<Plain(<<"-", "-", "to", "=">>), Arg(<<"name">>)>>,
     <<Plain(<<"{">>), Arg(<<"name">>), Plain(<<"}">>)>>,
     <<Arg(<<"name">>), Plain(<<",">>), Arg(<<" ", "name">>)>>}
MCMeaning == [token \in {WrittenPieces(pieces, Len(pieces)) : pieces \in TokenPieces} |->
                 CHOOSE pieces \in TokenPieces : WrittenPieces(pieces, Len(pieces)) = token]

Entry(name, cmd) == Obj(<<"name">> :> Str(Word(name)) @@ <<"cmd">> :> Strings(cmd))
With(entry, key, value) == Obj(Word(key) :> value @@ Contents(entry))
CatalogFile(entries) == Obj(<<"actions">> :> Arr(entries))

To     == <<"-", "-", "to", "=", "{", "name", "}">>
Braces == <<"{", "{", "name", "}", "}">>
Twice  == <<"{", "name", "}", ",", "{", " ", "name", "}">>

BridgeCatalog ==
    CatalogFile(<<Number(1),
                  Entry("", << <<"tool">> >>),
                  Entry("greet", <<>>),
                  Entry("config_show", << <<"python">>, <<"show">> >>),
                  Entry("config_set_key", << <<"tool">>, <<"{", "key", "}">>, <<"{", "value", "}">> >>),
                  Entry("greet", << <<"tool">>, <<"it", "'", "s">>, To, <<"{", "}">>, Braces, Twice >>),
                  With(With(Entry("spawn", << <<"tool">>, <<"{", "name", "}">> >>), "detached", Bool(TRUE)),
                       "label", Str(<<"a", " ", "b">>)),
                  With(Entry("work", << <<"python">>, <<"show">>, <<"-", "m">> >>), "cwd", Str(Word("sub"))),
                  With(With(With(Entry("net", << <<"python">>, <<"data">> >>), "label", Str(<<>>)),
                            "args", Arr(<<Str(<<"name">>)>>)), "cwd", Str(<<"\\", "\\", "x">>)),
                  With(Entry("gone", << <<"python">>, <<"-", "m">>, <<"data">> >>), "cwd", Str(Word("gone")))>>)

CatalogFiles ==
    [bridge |-> BridgeCatalog,
     early  |-> CatalogFile(<<With(Entry("config_set_key", << <<"tool">> >>), "detached", Bool(TRUE)),
                          Obj(<<"name">> :> Str(Word("greet")) @@ <<"cmd">> :> Arr(<<Number(1)>>))>>),
     proud  |-> CatalogFile(<<Number(1)>>),
     stored |-> NotJson]

InDir(dir, app, last) == MCRepoRoot \o <<"/", dir, "/", app>> \o last
MCDisk ==
    [path \in {InDir("specs", app, <<".", "json">>) : app \in DOMAIN SpecFiles} |-> SpecFiles[path[6]]]
    @@ [path \in {InDir("actions", app, <<>>) : app \in DOMAIN CatalogFiles} |-> CatalogFiles[path[6]]]
    @@ [path \in {MCRepoRoot \o <<"/", "ops", "/", "scripts", "/", "show", ".", "py">>,
                  MCRepoRoot \o <<"/", "sub", "/", "scripts", "/", "show", ".", "py">>,
                  MCRepoRoot \o <<"/", "data">>} |-> NotJson]
MCDirectories == {MCRepoRoot, MCRepoRoot \o <<"/", "sub">>}

\* Values and all their parts.
RECURSIVE WithParts(_)
WithParts(json) ==
    LET parts == UNION {CASE value[1] \in {"array", "object"} -> Range(value[2]) [] OTHER -> {} : value \in json}
    IN  IF parts \subseteq json THEN json ELSE WithParts(json \cup parts)
MCJsonValues == WithParts((Range(MCLiterals) \cup Range(MCDisk) \cup MCVersions) \ {Missing, NotJson})

MCWords  == {"tool", "python", "show", "data", "m", "it", "s", "to", "a", "b", "name", "key",
             "value", "x", "7", "py", "repo", "ops", "scripts", "sub"}
MCPython == {"python"}

-------------------------------------------------------------------------------
(* What clients send; what a command prints, how it ends.                 *)

ArgValues ==
    {Str(<<>>), Str(<<"a">>), Str(<<" ">>), Str(<<"a", " ", "b">>), Str(<<"'">>), Str(<<"\\">>),
     Str(<<"{", "name", "}">>), Str(<<"$", "(", "x", ")">>), Str(<<"a", "\n", "'", "b">>),
     Null, Number(7)}

Method(name)    == <<"method">> :> Str(<<name>>)
Id(id)          == <<"id">> :> id
Params(params)  == <<"params">> :> Obj(params)
App(app)        == <<"appId">> :> Str(Word(app))
Call(method, params) == Obj(Id(Str(<<"1">>)) @@ Method(method) @@ Params(params))

ConfigSet(app, value) == Call("config.set", App(app) @@ <<"key">> :> Str(<<"a">>) @@ value)
Invoked(app, name, args) ==
    Call("action.invoke", App(app) @@ <<"actionName">> :> Str(Word(name)) @@ args)

\* Requests as a client of the contract makes them.
Usual ==
    {Obj(Method("ping")), Obj(Id(Str(<<"1">>)) @@ Method("ping"))}
    \cup {Call(method, App(app)) : method \in {"status.get", "config.get"}, app \in ToSet(Apps)}
    \cup {Call("action.list", App(app)) : app \in DOMAIN CatalogFiles}
    \cup {ConfigSet("bridge", value) :
             value \in {<<>>} \cup {<<"value">> :> v : v \in {Str(<<"a", " ", "b">>), Null, Number(7)}}}
    \cup {ConfigSet("early", <<"value">> :> Str(<<>>))}
    \cup {Invoked("bridge", name, <<"args">> :> Obj(<<"name">> :> v)) :
             name \in {"greet", "spawn"}, v \in ArgValues}
    \cup {Invoked("bridge", name, <<>>) : name \in {"greet", "work", "net", "gone", "none"}}

\* Others: ids of any kind, and something missing, of another kind or unknown.
Unusual ==
    {NotJson, Null, Arr(<<Method("ping")[<<"method">>]>>), EmptyObject, Obj(Id(Str(<<"1">>))),
     Obj(Id(Str(<<"1">>)) @@ <<"method">> :> Number(7)),
     Obj(Id(Number(7)) @@ Method("ping")), Obj(Id(Str(<<>>)) @@ Method("ping")),
     Obj(Id(Str(<<"1">>)) @@ Method("ping") @@ <<"params">> :> Null),
     Invoked("bridge", "greet", <<"args">> :> Arr(<<>>)),
     Call("status.get", <<>>), Call("status.get", <<"appId">> :> Number(7)),
     Call("config.set", App("bridge")), Call("config.set", App("x")),
     Call("config.set", App("bridge") @@ <<"key">> :> Str(<<>>)),
     Call("action.invoke", App("bridge"))}
    \cup {Obj(Id(Str(<<"1">>)) @@ <<"method">> :> Str(name)) : name \in Unknown}
    \cup {Call("action.list", <<"appId">> :> Str(name)) : name \in Unknown}

MCDocuments == Usual \cup Unusual

Out(before, object, after) == [before |-> before, object |-> object, after |-> after]
MCOutputs ==
    {Out(<<>>, <<>>, <<>>),
     Out(<<"a", "\n", " ", "\n", "b">>, <<>>, <<>>),
     Out(<<"a", "\n">>, OkJson, <<"\n", "b", "}">>),
     Out(<<>>, QuotedJson, <<"\n">>),
     Out(<<"a", "}">>, NestedJson, FlattenSeq(OkJson)),
     Out(<<"{">>, OkJson, <<>>),
     Out(<<>>, WrongJson, FlattenSeq(OkJson)),
     Out(<<>>, EmptyJson, <<"a">>),
     Out(<<"xFF">>, OkJson, <<>>),
     Out(<<"xFF">>, <<>>, <<>>)}
MCEndings     == {<<"exited", 0>>, <<"exited", 3>>, <<"signaled", 9>>, <<"lost">>}
MCUnencodable == {"xFF"}
MCJobs        == {<<"job", "-", "1", "-", "1">>, <<"job", "-", "1", "-", "2">>}
================================================================================
