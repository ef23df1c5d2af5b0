------------------------------- MODULE StatusSpec -------------------------------
(***************************************************************************)
(* Status specs: how a spec file is read (spec_loader.cpp), how a line of  *)
(* it is parsed (status_expression_parser.cpp), what its operations yield  *)
(* (status_operation_registry.cpp) and the payload that is made of them    *)
(* (status_engine.cpp).                                                    *)
(***************************************************************************)
EXTENDS HostProfile

-------------------------------------------------------------------------------
(* Reading a spec.                                                         *)

Equal(line)      == SelectInSeq(TrimCopy(line), LAMBDA c : c = "=")
FieldName(line)  == TrimCopy(SubSeq(TrimCopy(line), 1, Equal(line) - 1))
Expression(line) == TrimCopy(SubSeq(TrimCopy(line), Equal(line) + 1, Len(TrimCopy(line))))
OpName(line)     == TrimCopy(Head(Split(Expression(line), ":")))

\* ParseStatusExpressionLine accepts the line; Equal is 0 when there is no "=".
LineIsValid(line) ==
    /\ Equal(line) > 1
    /\ Equal(line) < Len(TrimCopy(line))
    /\ FieldName(line) # <<>>
    /\ OpName(line) # <<>>

ParseStatusExpressionLine(line) ==
    [fieldName |-> FieldName(line),
     opName    |-> OpName(line),
     args      |-> Tail(Split(Expression(line), ":"))]

\* The lines of a spec; entries that are not strings are passed over.
OperationLines(root) == Texts(Contents(At(root, <<"operations">>)))

FieldKeys == {<<"runningField">>, <<"pidField">>, <<"hostRunningField">>, <<"hostPidField">>}

\* How LoadStatusSpec ends.  json::value() throws on a key that is there with
\* a value of another type, and nobody catches that.
LoadStatusSpec(file, app) ==
    IF file = Missing THEN "kSpecMissing"
    ELSE IF \/ ~IsObjectFile(file)
            \/ HasA("string", file, <<"appId">>) /\ Contents(At(file, <<"appId">>)) # app
            \/ ~HasA("string", file, <<"appTitle">>) THEN "kSpecInvalid"
    ELSE IF \E key \in FieldKeys : Has(file, key) /\ ~HasA("string", file, key) THEN "throws"
    ELSE IF \/ ~HasA("array", file, <<"operations">>)
            \/ OperationLines(file) = <<>>
            \/ \E i \in DOMAIN OperationLines(file) : ~LineIsValid(OperationLines(file)[i])
         THEN "kSpecInvalid"
    ELSE "kNone"

StringOr(root, key, default) == IF Has(root, key) THEN Contents(At(root, key)) ELSE default

\* What LoadStatusSpec fills in when it ends with kNone.
SpecOf(root, app) ==
    LET runningField == StringOr(root, <<"runningField">>, <<"running">>)
        pidField     == StringOr(root, <<"pidField">>, <<"pid">>)
    IN  [appId            |-> app,
         appTitle         |-> Contents(At(root, <<"appTitle">>)),
         runningField     |-> runningField,
         pidField         |-> pidField,
         hostRunningField |-> StringOr(root, <<"hostRunningField">>, runningField),
         hostPidField     |-> StringOr(root, <<"hostPidField">>, pidField),
         operations       |-> [i \in DOMAIN OperationLines(root) |->
                                   ParseStatusExpressionLine(OperationLines(root)[i])]]

ToIpcErrorCode(code) ==
    IF code \in {"kSpecMissing", "kCollectFailed", "kSnapshotWriteFailed"}
    THEN "E_NATIVE_UNAVAILABLE" ELSE "E_INTERNAL"

-------------------------------------------------------------------------------
(* Operations.  seen is what the operation finds when it looks: the files, *)
(* the pids pgrep lists, whether the port accepts.                         *)

Result(value) == [code |-> "kNone", value |-> value]
SpecInvalid   == [code |-> "kSpecInvalid", value |-> Null]

FieldOrDefault(values, key, default) ==
    IF key \in DOMAIN values THEN values[key] ELSE default

Parsed(text, default) == IF text \in DOMAIN Literals THEN Literals[text] ELSE default

\* An empty default and one that is not JSON both leave the empty object.
FileJson(args, seen) ==
    LET file    == ReadTextFile(seen.files, InRepo(TrimCopy(args[1])))
        default == Parsed(TrimCopy(Join(args, 2, ":")), EmptyObject)
    IN  IF file \notin {Missing, NotJson} /\ (Is("object", file) \/ Is("array", file))
        THEN file ELSE default

\* Running if the query worked, whatever it found.
BugQueryWorked(pids) ==
    Obj([key \in {<<"running">>, <<"pid">>, <<"pids">>} |->
            CASE key = <<"running">> -> Bool(TRUE)
              [] key = <<"pid">> -> IF pids # <<>> /\ pids[1] > 0 THEN Number(pids[1]) ELSE Null
              [] OTHER -> Arr([i \in DOMAIN pids |-> Number(pids[i])])])

\* QueryProcessByName: running with the first pid of the listing.
BuildProcessProbeJson(pids) ==
    Obj([key \in {<<"running">>, <<"pid">>, <<"pids">>} |->
            CASE key = <<"running">> -> Bool(pids # <<>>)
              [] key = <<"pid">> -> IF pids # <<>> /\ pids[1] > 0 THEN Number(pids[1]) ELSE Null
              [] OTHER -> Arr([i \in DOMAIN pids |-> Number(pids[i])])])

\* Sub-operations of derive, with the arguments each needs, its name included.
DeriveArgs ==
    [copy |-> 2, bool_from_obj |-> 3, int_from_obj |-> 3, str_from_obj |-> 3,
     json_from_obj |-> 3, running_display |-> 3, str_if_bool |-> 4,
     pick_int |-> 3, or_bool |-> 3]

\* What is displayed is no number: it begins with a word.
ASSUME DisplayAssumption ==
    /\ Blanks \cap {"False", "True", "True (PID "} = {}
    /\ \A text \in DOMAIN Numbers : text # <<>> /\ text[1] \notin {"False", "True", "True (PID "}

RunningDisplay(running, pid) ==
    Str(IF ~running THEN <<"False">>
        ELSE IF pid = NoInt THEN <<"True">>
        ELSE <<"True (PID ", ToString(pid), ")">>)

\* A fourth argument says what to use when there is no such member.
HasDefault(args) == Len(args) > 3

\* The value of a sub-operation that has its arguments.  A field that no
\* earlier operation has set counts as its default.
DerivedValue(sub, args, values) ==
    LET Field(i, default) == FieldOrDefault(values, TrimCopy(args[i]), default)
        Flag(i)  == JsonToBool(Field(i, Bool(FALSE)), FALSE)
        Count(i) == JsonToInt(Field(i, Null))
        source   == Field(2, EmptyObject)
        key      == TrimCopy(args[3])
        found    == Has(source, key)
    IN  CASE sub = "copy" -> Field(2, Null)
          [] sub = "bool_from_obj" ->
                Bool(IF found THEN JsonToBool(At(source, key), FALSE)
                     ELSE HasDefault(args) /\ ParseBoolText(args[4], FALSE))
          [] sub = "int_from_obj" ->
                IF found THEN IntOrNull(JsonToInt(At(source, key))) ELSE Null
          [] sub = "str_from_obj" ->
                IF HasA("string", source, key) THEN At(source, key)
                ELSE Str(IF HasDefault(args) THEN args[4] ELSE <<>>)
          [] sub = "json_from_obj" ->
                IF found THEN At(source, key)
                ELSE IF HasDefault(args) THEN Parsed(TrimCopy(args[4]), Null) ELSE Null
          [] sub = "running_display" -> RunningDisplay(Flag(2), Count(3))
          [] sub = "str_if_bool" -> Str(IF Flag(2) THEN args[3] ELSE args[4])
          [] sub = "pick_int" -> IntOrNull(IF Count(2) # NoInt THEN Count(2) ELSE Count(3))
          [] OTHER (* or_bool *) -> Bool(Flag(2) \/ Flag(3))

Derive(args, values) ==
    LET subs == {name \in DOMAIN DeriveArgs : args # <<>> /\ TrimCopy(args[1]) = <<name>>}
    IN  IF \E name \in subs : Len(args) >= DeriveArgs[name]
        THEN Result(DerivedValue(CHOOSE name \in subs : TRUE, args, values))
        ELSE SpecInvalid

\* The host always has probes, so kCollectFailed does not occur.
EvaluateOperation(op, values, seen) ==
    LET args    == op.args
        literal == TrimCopy(Join(args, 1, ":"))
    IN  CASE op.opName = <<"const">> /\ literal \in DOMAIN Literals -> Result(Literals[literal])
          [] op.opName = <<"const_str">> -> Result(Str(Join(args, 1, ":")))
          [] op.opName = <<"file_json">> /\ args # <<>> -> Result(FileJson(args, seen))
          [] op.opName = <<"file_exists">> /\ args # <<>> ->
                Result(Bool(Exists(seen.files, InRepo(TrimCopy(args[1])))))
          [] op.opName = <<"process_running">> /\ args # <<>> ->
                Result(BuildProcessProbeJson(seen.pids))
          [] op.opName = <<"port_listening">> /\ Len(args) >= 2 /\ ParseIntText(args[2]) # NoInt ->
                Result(Bool(seen.accepts))
          [] op.opName = <<"derive">> -> Derive(args, values)
          [] OTHER -> SpecInvalid

-------------------------------------------------------------------------------
(* The payload.                                                            *)

IsHidden(fieldName) == fieldName[1] = "_"

BootId(spec, running, pid) ==
    Str(IF running /\ pid # NoInt THEN spec.appId \o <<":", ToString(pid)>> ELSE <<>>)

RequiredNames ==
    {<<"interfaceName">>, <<"interfaceVersion">>, <<"appId">>, <<"appTitle">>, <<"running">>,
     <<"pid">>, <<"hostRunning">>, <<"hostPid">>, <<"bootId">>, <<"error">>}

RequiredField(spec, values, name) ==
    LET Flag(field) == JsonToBool(FieldOrDefault(values, field, Bool(FALSE)), FALSE)
        Pid(field)  == JsonToInt(FieldOrDefault(values, field, Null))
        running     == Flag(spec.runningField)
        pid         == Pid(spec.pidField)
    IN  CASE name = <<"interfaceName">>    -> Str(<<"generic-process-interface">>)
          [] name = <<"interfaceVersion">> -> Number(1)
          [] name = <<"appId">>            -> Str(spec.appId)
          [] name = <<"appTitle">>         -> Str(spec.appTitle)
          [] name = <<"running">>          -> Bool(running)
          [] name = <<"pid">>              -> IntOrNull(pid)
          [] name = <<"hostRunning">>      -> Bool(Flag(spec.hostRunningField))
          [] name = <<"hostPid">>          -> IntOrNull(Pid(spec.hostPidField))
          [] name = <<"bootId">>           -> BootId(spec, running, pid)
          [] OTHER (* error *)             -> Str(<<>>)

\* The spec's own fields win over the required ones.
BugSpecOverrides(spec, values, fields) ==
    Obj([name \in RequiredNames \cup DOMAIN fields |->
            IF name \in DOMAIN fields THEN fields[name] ELSE RequiredField(spec, values, name)])

\* What ExecuteStatusSpec returns: the required fields replace those of the spec.
PayloadOf(spec, values, fields) ==
    Obj([name \in RequiredNames \cup DOMAIN fields |->
            IF name \in RequiredNames THEN RequiredField(spec, values, name) ELSE fields[name]])
================================================================================
