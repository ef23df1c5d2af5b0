------------------------------ MODULE RequestsProofs -----------------------------
(***************************************************************************)
(* Proofs about Requests, for any profiles, files, documents and outputs:  *)
(* what a status tells, that a reply fits its document, what a result      *)
(* tells, what arguments a program receives, and which files are whose.    *)
(*                                                                         *)
(* First the types (Shape).  Then what the operations of a spec make of    *)
(* what they read, as lemmas without a state: always a value (IsValue),    *)
(* and of processes only what a probe found (IsHonest).  From these, that  *)
(* each turn of the loop preserves StatusInv.  Then ReplyInv: the request  *)
(* is what the document says, so the reply answers the document; and on    *)
(* top of it ResultInv: a reply says what became of a command, and         *)
(* ArgsInv: the line that is handed to the shell is read as the arguments  *)
(* that the action means.  Last PathsInv: the profile is one that was      *)
(* accepted.  The lemmas about text of these three are in TextProofs.      *)
(***************************************************************************)
EXTENDS Requests, TextProofs, FiniteSetTheorems, SequenceTheorems, TLAPS

USE JsonAssumption, RequestsAssumption

-------------------------------------------------------------------------------
(* Types.                                                                  *)

\* The strings among the entries of an array are finitely many, and Texts
\* numbers them.
LEMMA TextsAre ==
    ASSUME NEW S, NEW entries \in Seq(S)
    PROVE  \E n \in Nat : DOMAIN Texts(entries) = 1..n /\ Len(Texts(entries)) = n
<1> DEFINE places == {i \in DOMAIN entries : Is("string", entries[i])}
<1>1. IsFiniteSet(places)
  <2>1. IsFiniteSet(1..Len(entries))
    BY FS_Interval
  <2>2. places \subseteq 1..Len(entries)
    OBVIOUS
  <2> QED BY <2>1, <2>2, FS_Subset
<1>2. Cardinality(places) \in Nat
  BY <1>1, FS_CardinalityType
<1>3. DOMAIN Texts(entries) = 1..Cardinality(places)
  BY DEF Texts
<1>4. Len(Texts(entries)) = Cardinality(places)
  BY <1>2, <1>3
<1> QED BY <1>2, <1>3, <1>4

IsSpec(s) == \E n \in Nat : DOMAIN s.operations = 1..n /\ Len(s.operations) = n

\* TypeOK, and the operations of a spec are numbered.
Shape ==
    /\ TypeOK
    /\ spec # None => IsSpec(spec)

\* A spec that loads has its operations in a row.
LEMMA SpecOfIsSpec ==
    ASSUME NEW root, root \in JsonValues \cup {Missing, NotJson}, NEW app,
           LoadStatusSpec(root, app) = "kNone"
    PROVE  SpecOf(root, app) # None /\ IsSpec(SpecOf(root, app))
<1>1. root \in JsonValues /\ HasA("array", root, <<"operations">>)
  BY DEF LoadStatusSpec, IsObjectFile
<1>2. At(root, <<"operations">>) \in JsonValues /\ Is("array", At(root, <<"operations">>))
  BY <1>1 DEF HasA, Has, IsJson
<1>3. Contents(At(root, <<"operations">>)) \in Seq(JsonValues)
  BY <1>2 DEF IsJson
<1>4. PICK n \in Nat : DOMAIN OperationLines(root) = 1..n
  BY <1>3, TextsAre DEF OperationLines
<1>5. SpecOf(root, app).operations = [i \in 1..n |-> ParseStatusExpressionLine(OperationLines(root)[i])]
  BY <1>4 DEF SpecOf
<1>6. DOMAIN SpecOf(root, app).operations = 1..n /\ Len(SpecOf(root, app).operations) = n
  BY <1>5
<1>7. SpecOf(root, app) # None
  BY DEF SpecOf, None
<1> QED BY <1>6, <1>7 DEF IsSpec

\* Init establishes Shape.
LEMMA InitType == Init => Shape
  BY DEF Init, Shape, TypeOK, NoTrace, NoStatus, NoCommand

\* A host that starts has a profile, or has exited.
LEMMA StartType == ASSUME Shape, NEW file \in Profiles, Start(file) PROVE Shape'
<1>1. LoadHostProfile(file) # None
  BY DEF LoadHostProfile, None
<1> QED
  BY <1>1 DEF Start, Shape, TypeOK, NoTrace, NoStatus, NoCommand, status, command, message

\* A reply is never None.
LEMMA AnswerType ==
   /\ \A id, body : BuildOkResponse(id, body) # None
   /\ \A id, code, details : BuildErrorResponse(id, code, details) # None
  BY DEF BuildOkResponse, BuildErrorResponse, Obj, None

\* A reply that is sent leaves no trace.
LEMMA SendReplyType == ASSUME Shape, SendReply PROVE Shape'
  BY DEF SendReply, Shape, TypeOK, NoTrace, NoStatus, NoCommand

\* A document that arrives is refused or becomes a request.
LEMMA ReceiveType == ASSUME Shape, NEW doc \in Documents, Receive(doc) PROVE Shape'
<1>1. ParseRequestLine(doc) # None
  BY DEF ParseRequestLine, None
<1>2. doc # None
  OBVIOUS
<1>3. /\ pc = "idle" /\ NoTrace /\ document' = doc
      /\ UNCHANGED <<profile, pids, ran, spec, step, values, fields, snapshot, action, line,
                     given, ending, output>>
  BY DEF Receive, Shape, TypeOK, status, command
<1>4. \/ pc' = "answered" /\ reply' # None /\ request' \in {request, ParseRequestLine(doc)}
      \/ pc' = "handle" /\ reply' = reply /\ request' = ParseRequestLine(doc)
  BY AnswerType DEF Receive, AnswerError
<1> QED
  BY <1>1, <1>2, <1>3, <1>4 DEF Shape, TypeOK, NoTrace, NoStatus, NoCommand

\* ping leaves nothing but a reply.
LEMMA PingType == ASSUME Shape, Ping PROVE Shape'
  BY AnswerType
     DEF Ping, Answer, Handles, Shape, TypeOK, NoTrace, NoStatus, NoCommand, status, command, message

\* action.list leaves nothing but a reply.
LEMMA ActionListType == ASSUME Shape, ActionList PROVE Shape'
  BY AnswerType
  DEF ActionList, Answer, AnswerError, Handles, Shape, TypeOK, NoTrace, NoStatus, NoCommand,
      status, command, message

\* status.get loads a spec, is refused, or throws.
LEMMA StatusGetType == ASSUME Shape, StatusGet PROVE Shape'
<1> DEFINE app == request.appId
           file == ReadTextFile(Disk, SpecPath(profile, app))
           code == LoadStatusSpec(file, app)
<1>1. file \in JsonValues \cup {Missing, NotJson}
  BY DEF ReadTextFile
<1>2. code = "kNone" => SpecOf(file, app) # None /\ IsSpec(SpecOf(file, app))
  BY <1>1, SpecOfIsSpec
<1>3. /\ pc = "handle" /\ request.method = <<"status.get">>
      /\ ran' = pids
      /\ UNCHANGED <<profile, document, request, pids, values, fields, snapshot, action, line,
                     given, ending, output>>
  BY DEF StatusGet, Handles, message, command
<1>4. \/ code = "kNone" /\ pc' = "evaluate" /\ spec' = SpecOf(file, app) /\ step' = 1 /\ reply' = reply
      \/ pc' = "terminated" /\ UNCHANGED <<reply, spec, step>>
      \/ pc' = "answered" /\ reply' # None /\ UNCHANGED <<spec, step>>
  <2> HIDE DEF code, file
  <2>1. CASE code = "kNone"
    BY <2>1 DEF StatusGet, code, file
  <2>2. CASE code = "throws"
    BY <2>2 DEF StatusGet, Throw, code, file
  <2>3. CASE code \notin {"kNone", "throws"}
    BY <2>3, AnswerType DEF StatusGet, AnswerError, code, file
  <2> QED BY <2>1, <2>2, <2>3
<1> HIDE DEF code, file
<1> QED
  BY <1>2, <1>3, <1>4 DEF Shape, TypeOK, NoTrace, NoStatus, NoCommand, IsSpec

\* An operation adds one field and counts a step, or ends the request.
LEMMA EvaluateType == ASSUME Shape, Evaluate PROVE Shape'
<1>1. PICK seen \in Seen :
         LET result == EvaluateOperation(spec.operations[step], values, seen)
         IN  \/ /\ result.code = "kNone"
                /\ Keep(spec.operations[step], result.value)
                /\ UNCHANGED <<pc, reply>>
             \/ /\ result.code # "kNone"
                /\ AnswerError(request.id, ToIpcErrorCode(result.code), NoDetails)
                /\ UNCHANGED <<values, fields, step>>
  BY DEF Evaluate
<1> DEFINE op == spec.operations[step]
           result == EvaluateOperation(op, values, seen)
<1>2. /\ pc = "evaluate" /\ step \in DOMAIN spec.operations
      /\ UNCHANGED <<profile, document, request, pids, ran, spec, snapshot, action, line, given,
                     ending, output>>
  BY DEF Evaluate, message, command
<1>3. CASE Keep(op, result.value) /\ UNCHANGED <<pc, reply>>
  <2>1. step' \in 1..(Len(spec.operations) + 1)
    BY <1>2, <1>3 DEF Keep, Shape, TypeOK, IsSpec
  <2>2. ASSUME NEW field \in DOMAIN fields'
        PROVE  ~IsHidden(field) /\ field \in DOMAIN values' /\ values'[field] = fields'[field]
    BY <1>3 DEF Keep, Put, Shape, TypeOK
  <2> QED BY <1>2, <1>3, <2>1, <2>2 DEF Shape, TypeOK, NoTrace, NoStatus, NoCommand, IsSpec
<1>4. CASE pc' = "answered" /\ reply' # None /\ UNCHANGED <<values, fields, step>>
  BY <1>2, <1>4 DEF Shape, TypeOK, NoTrace, NoStatus, NoCommand, IsSpec
<1> QED BY <1>1, <1>3, <1>4, AnswerType DEF AnswerError

\* A snapshot is the last thing a request leaves.
LEMMA PublishType == ASSUME Shape, Publish PROVE Shape'
<1>1. /\ pc = "evaluate"
      /\ UNCHANGED <<profile, document, request, pids, ran, spec, step, values, fields, action,
                     line, given, ending, output>>
  BY DEF Publish, message, command
<1>2. pc' = "answered" /\ reply' # None
  BY AnswerType DEF Publish, Answer, AnswerError
<1> QED BY <1>1, <1>2 DEF Shape, TypeOK, NoTrace, NoStatus, NoCommand, IsSpec

\* An entry of a catalog is never None.
LEMMA CatalogEntry == \A i \in DOMAIN Catalog : Catalog[i] # None
<1>1. \A item : ActionDefinition(item) # None
  BY DEF ActionDefinition, None
<1>2. \A file : \A i \in DOMAIN LoadActionCatalog(file) :
         \E item : LoadActionCatalog(file)[i] = ActionDefinition(item)
  BY DEF LoadActionCatalog
<1> QED BY <1>1, <1>2 DEF Catalog

\* A command is made of a catalog entry, or there is a reply.
LEMMA InvokeType == ASSUME Shape, Invoke PROVE Shape'
<1>1. /\ pc = "handle" /\ request.method # <<"status.get">>
      /\ UNCHANGED <<profile, document, request, pids, ran, spec, step, values, fields,
                     snapshot, given, ending, output>>
  BY DEF Invoke, Handles, message, status
<1>2. \/ pc' = "answered" /\ reply' # None /\ UNCHANGED <<action, line>>
      \/ pc' = "shell" /\ action' # None /\ reply' = reply
  BY AnswerType, CatalogEntry DEF Invoke, NotLaunched, Answer, AnswerError, Run
<1> QED BY <1>1, <1>2 DEF Shape, TypeOK, NoTrace, NoStatus, NoCommand, IsSpec

\* A command that ends is answered, or the host ends with it.
LEMMA CommandType ==
    ASSUME Shape,
           LaunchFails \/ LaunchDetached \/ \E end \in Endings, out \in Outputs : CommandEnds(end, out)
    PROVE  Shape'
<1>1. /\ pc = "shell"
      /\ UNCHANGED <<profile, document, request, pids, ran, spec, step, values, fields,
                     snapshot, action, line>>
  BY DEF LaunchFails, LaunchDetached, CommandEnds, message, status, command
<1>2. \/ pc' = "answered" /\ reply' # None
      \/ pc' = "terminated" /\ reply' = reply
  BY AnswerType DEF LaunchFails, LaunchDetached, CommandEnds, NotLaunched, Conclude, Answer, Throw
<1>3. UNCHANGED <<given, ending, output>> \/ ending' # None
  BY DEF LaunchFails, LaunchDetached, CommandEnds, command, None
<1> QED BY <1>1, <1>2, <1>3 DEF Shape, TypeOK, NoTrace, NoStatus, NoCommand, IsSpec

\* Processes come from Pids and go.
LEMMA ProcessType ==
    ASSUME Shape, NEW pid \in Pids, ProcessStarts(pid) \/ ProcessEnds(pid)
    PROVE  Shape'
<1>1. /\ pc \in {"idle", "evaluate"} /\ pids' \subseteq Pids
      /\ ran' \subseteq Pids /\ (pc = "idle" => ran' = ran)
      /\ UNCHANGED <<pc, profile, document, request, reply, spec, step, values, fields, snapshot,
                     action, line, given, ending, output>>
  BY DEF ProcessStarts, ProcessEnds, Observed, message, status, command, Shape, TypeOK
<1> QED BY <1>1 DEF Shape, TypeOK, NoTrace, NoStatus, NoCommand, IsSpec

\* Nothing changes in a stuttering step.
LEMMA StutterType == ASSUME Shape, UNCHANGED vars PROVE Shape'
  BY DEF vars, status, command, message, Shape, TypeOK, NoTrace, NoStatus, NoCommand, IsSpec

\* Every step preserves Shape.
LEMMA NextType == ASSUME Shape, [Next]_vars PROVE Shape'
  BY StartType, SendReplyType, ReceiveType, PingType, StatusGetType, EvaluateType, PublishType,
     ActionListType, InvokeType,
     CommandType, ProcessType, StutterType DEF Next

\* The variables have their types, and what belongs together is there
\* together.
THEOREM TypeCorrect == Spec => []TypeOK
<1>1. Shape => TypeOK
  BY DEF Shape
<1> QED BY <1>1, InitType, NextType, PTL DEF Spec

-------------------------------------------------------------------------------
(* Values.                                                                 *)

\* What fits in an int.
Ints == (-MaxInt - 1)..MaxInt

\* get<int>() always gives an int.
LEMMA NarrowIsInt == ASSUME NEW n \in Int PROVE Narrow(n) \in Ints
<1> DEFINE m == 2 * (MaxInt + 1)
           k == n + MaxInt + 1
<1>1. m \in Nat \ {0} /\ k \in Int
  OBVIOUS
<1>2. k % m \in 0..(m - 1)
  <2> HIDE DEF m, k
  <2> QED BY <1>1
<1>3. Narrow(n) = (k % m) - (MaxInt + 1)
  BY DEF Narrow
<1> QED BY <1>1, <1>2, <1>3 DEF Ints

\* value contains what its kind says.
Plain(value) ==
    /\ Is("bool", value)    => Contents(value) \in BOOLEAN
    /\ Is("integer", value) => Contents(value) \in Int

\* A value of a field: JSON that was read, or an object of no more than one
\* level.
IsValue(value) ==
    \/ value \in JsonValues
    \/ /\ Plain(value)
       /\ Is("object", value) =>
             \A key \in DOMAIN Contents(value) :
                \/ At(value, key) \in JsonValues
                \/ Plain(At(value, key)) /\ ~Is("object", At(value, key))

\* What is read or evaluated has the contents of its kind.
LEMMA ValueIsPlain == ASSUME NEW value, IsValue(value) PROVE Plain(value)
  BY DEF IsValue, Plain, IsJson

\* A part of a value is a value.
LEMMA PartIsValue ==
    ASSUME NEW value, IsValue(value), NEW key, Has(value, key)
    PROVE  IsValue(At(value, key))
  BY DEF IsValue, IsJson, Has

\* JsonToBool gives a Boolean.
LEMMA BoolOfPlain ==
    ASSUME NEW value, Plain(value), NEW default \in BOOLEAN
    PROVE  JsonToBool(value, default) \in BOOLEAN
  BY DEF JsonToBool, ParseBoolText, Plain

\* JsonToInt gives an int or none.
LEMMA IntOfPlain ==
    ASSUME NEW value, Plain(value)
    PROVE  JsonToInt(value) \in Ints \cup {NoInt}
<1>1. \A text : ParseIntText(text) \in Ints \cup {NoInt}
  BY DEF ParseIntText, Ints
<1> QED BY <1>1, NarrowIsInt DEF JsonToInt, Plain

\* What the program makes itself is a value.
LEMMA MadeIsValue ==
    /\ \A b \in BOOLEAN : IsValue(Bool(b))
    /\ \A text : IsValue(Str(text))
    /\ \A n \in Ints \cup {NoInt} : IsValue(IntOrNull(n))
    /\ IsValue(Null) /\ IsValue(EmptyObject)
    /\ \A seq : IsValue(Arr(seq))
<1>1. IsValue(Null)
  BY DEF IsValue, Plain, Is, Null
<1>2. IsValue(EmptyObject)
  BY DEF IsValue, Plain, Is, EmptyObject, Obj, Contents
<1>3. \A text : IsValue(Str(text))
  BY DEF IsValue, Plain, Is, Str
<1>4. \A seq : IsValue(Arr(seq))
  BY DEF IsValue, Plain, Is, Arr
<1>5. \A b \in BOOLEAN : IsValue(Bool(b))
  BY DEF IsValue, Plain, Is, Bool, Contents
<1>6. \A n \in Int : IsValue(Number(n))
  BY DEF IsValue, Plain, Is, Number, Contents
<1> QED BY <1>1, <1>2, <1>3, <1>4, <1>5, <1>6 DEF IntOrNull, Ints

AreValues(map) == \A field \in DOMAIN map : IsValue(map[field])

\* The report of a process probe is a value.
LEMMA ProbeIsValue ==
    ASSUME NEW found \in Seq(Int) PROVE IsValue(BuildProcessProbeJson(found))
<1> DEFINE probe == BuildProcessProbeJson(found)
<1>1. Is("object", probe) /\ DOMAIN Contents(probe) = {<<"running">>, <<"pid">>, <<"pids">>}
  BY DEF BuildProcessProbeJson, Obj, Is, Contents
<1>2. At(probe, <<"running">>) = Bool(found # <<>>)
  BY DEF BuildProcessProbeJson, Obj, At, Contents
<1>3. At(probe, <<"pid">>) = IF found # <<>> /\ found[1] > 0 THEN Number(found[1]) ELSE Null
  BY DEF BuildProcessProbeJson, Obj, At, Contents
<1>4. At(probe, <<"pids">>) = Arr([i \in DOMAIN found |-> Number(found[i])])
  BY DEF BuildProcessProbeJson, Obj, At, Contents
<1>5. Plain(At(probe, <<"running">>)) /\ ~Is("object", At(probe, <<"running">>))
  <2>1. \A b \in BOOLEAN : Plain(Bool(b)) /\ ~Is("object", Bool(b))
    BY DEF Plain, Is, Bool, Contents
  <2>2. (found # <<>>) \in BOOLEAN
    OBVIOUS
  <2> QED BY <1>2, <2>1, <2>2
<1>6. Plain(At(probe, <<"pid">>)) /\ ~Is("object", At(probe, <<"pid">>))
  BY <1>3 DEF Plain, Is, Number, Null, Contents
<1>7. Plain(At(probe, <<"pids">>)) /\ ~Is("object", At(probe, <<"pids">>))
  BY <1>4 DEF Plain, Is, Arr, Contents
<1>8. Plain(probe)
  BY <1>1 DEF Plain, Is
<1> QED BY <1>1, <1>5, <1>6, <1>7, <1>8 DEF IsValue

\* Every derive operation makes a value of values.
LEMMA DerivedIsValue ==
    ASSUME NEW map, AreValues(map), NEW args, NEW sub \in DOMAIN DeriveArgs
    PROVE  IsValue(DerivedValue(sub, args, map))
<1> DEFINE Field(i, default) == FieldOrDefault(map, TrimCopy(args[i]), default)
           Flag(i)  == JsonToBool(Field(i, Bool(FALSE)), FALSE)
           Count(i) == JsonToInt(Field(i, Null))
           source   == Field(2, EmptyObject)
           key      == TrimCopy(args[3])
           found    == Has(source, key)
           part     == At(source, key)
<1>1. \A i, default : IsValue(default) => IsValue(Field(i, default))
  BY DEF FieldOrDefault, AreValues
<1>2. \A i : Flag(i) \in BOOLEAN
  BY <1>1, MadeIsValue, ValueIsPlain, BoolOfPlain
<1>3. \A i : Count(i) \in Ints \cup {NoInt}
  BY <1>1, MadeIsValue, ValueIsPlain, IntOfPlain
<1>4. found => IsValue(part)
  BY <1>1, MadeIsValue, PartIsValue
<1>5. \A text : Parsed(text, Null) \in JsonValues \cup {Null}
  BY DEF Parsed
<1>6. \A text, b : b \in BOOLEAN => ParseBoolText(text, b) \in BOOLEAN
  BY DEF ParseBoolText
<1>7. CASE sub = "copy"
  BY <1>7, <1>1, MadeIsValue DEF DerivedValue
<1>8. CASE sub = "bool_from_obj"
  <2>1. DerivedValue(sub, args, map) =
            Bool(IF found THEN JsonToBool(part, FALSE) ELSE HasDefault(args) /\ ParseBoolText(args[4], FALSE))
    BY <1>8 DEF DerivedValue
  <2>2. CASE found
    BY <2>1, <2>2, <1>4, ValueIsPlain, BoolOfPlain, MadeIsValue
  <2>3. CASE ~found
    BY <2>1, <2>3, <1>6, MadeIsValue DEF HasDefault
  <2> QED BY <2>2, <2>3
<1>9. CASE sub = "int_from_obj"
  <2>1. DerivedValue(sub, args, map) = IF found THEN IntOrNull(JsonToInt(part)) ELSE Null
    BY <1>9 DEF DerivedValue
  <2> QED BY <2>1, <1>4, ValueIsPlain, IntOfPlain, MadeIsValue
<1>10. CASE sub = "str_from_obj"
  <2>1. DerivedValue(sub, args, map) =
            IF HasA("string", source, key) THEN part ELSE Str(IF HasDefault(args) THEN args[4] ELSE <<>>)
    BY <1>10 DEF DerivedValue
  <2> QED BY <2>1, <1>4, MadeIsValue DEF HasA
<1>11. CASE sub = "json_from_obj"
  <2>1. DerivedValue(sub, args, map) =
            IF found THEN part ELSE IF HasDefault(args) THEN Parsed(TrimCopy(args[4]), Null) ELSE Null
    BY <1>11 DEF DerivedValue
  <2> QED BY <2>1, <1>4, <1>5, MadeIsValue DEF IsValue
<1>12. CASE sub = "running_display"
  BY <1>12, MadeIsValue DEF DerivedValue, RunningDisplay
<1>13. CASE sub = "str_if_bool"
  BY <1>13, MadeIsValue DEF DerivedValue
<1>14. CASE sub = "pick_int"
  <2>1. DerivedValue(sub, args, map) = IntOrNull(IF Count(2) # NoInt THEN Count(2) ELSE Count(3))
    BY <1>14 DEF DerivedValue
  <2> QED BY <2>1, <1>3, MadeIsValue
<1>15. CASE sub = "or_bool"
  <2>1. DerivedValue(sub, args, map) = Bool(Flag(2) \/ Flag(3))
    BY <1>15 DEF DerivedValue
  <2> QED BY <2>1, <1>2, MadeIsValue
<1> QED
  BY <1>7, <1>8, <1>9, <1>10, <1>11, <1>12, <1>13, <1>14, <1>15 DEF DeriveArgs

\* Every operation that succeeds makes a value, whatever it reads.
LEMMA OperationIsValue ==
    ASSUME NEW map, AreValues(map), NEW op,
           NEW seen, seen.pids \in Seq(Int), seen.accepts \in BOOLEAN,
           \A path \in DOMAIN seen.files : seen.files[path] \in JsonValues \cup {Missing, NotJson},
           EvaluateOperation(op, map, seen).code = "kNone"
    PROVE  IsValue(EvaluateOperation(op, map, seen).value)
<1> DEFINE args    == op.args
           literal == TrimCopy(Join(args, 1, ":"))
           result  == EvaluateOperation(op, map, seen)
<1>0. \A value : Result(value).value = value
  BY DEF Result
<1>1. SpecInvalid.code # "kNone"
  BY DEF SpecInvalid
<1>2. CASE op.opName = <<"const">>
  <2>1. result = IF literal \in DOMAIN Literals THEN Result(Literals[literal]) ELSE SpecInvalid
    BY <1>2 DEF EvaluateOperation
  <2> QED BY <1>0, <1>1, <2>1 DEF IsValue
<1>3. CASE op.opName = <<"const_str">>
  <2>1. result = Result(Str(Join(args, 1, ":")))
    BY <1>3 DEF EvaluateOperation
  <2> QED BY <1>0, <2>1, MadeIsValue
<1>4. CASE op.opName = <<"file_json">>
  <2>1. result = IF args # <<>> THEN Result(FileJson(args, seen)) ELSE SpecInvalid
    BY <1>4 DEF EvaluateOperation
  <2>2. IsValue(FileJson(args, seen))
    <3>1. Parsed(TrimCopy(Join(args, 2, ":")), EmptyObject) \in JsonValues \cup {EmptyObject}
      BY DEF Parsed
    <3>2. ReadTextFile(seen.files, InRepo(TrimCopy(args[1]))) \in JsonValues \cup {Missing, NotJson}
      BY DEF ReadTextFile
    <3> QED BY <3>1, <3>2, MadeIsValue DEF FileJson, IsValue
  <2> QED BY <1>0, <1>1, <2>1, <2>2
<1>5. CASE op.opName = <<"file_exists">>
  <2>1. result = IF args # <<>> THEN Result(Bool(Exists(seen.files, InRepo(TrimCopy(args[1])))))
                 ELSE SpecInvalid
    BY <1>5 DEF EvaluateOperation
  <2>2. Exists(seen.files, InRepo(TrimCopy(args[1]))) \in BOOLEAN
    BY DEF Exists
  <2> QED BY <1>0, <1>1, <2>1, <2>2, MadeIsValue
<1>6. CASE op.opName = <<"process_running">>
  <2>1. result = IF args # <<>> THEN Result(BuildProcessProbeJson(seen.pids)) ELSE SpecInvalid
    BY <1>6 DEF EvaluateOperation
  <2> QED BY <1>0, <1>1, <2>1, ProbeIsValue
<1>7. CASE op.opName = <<"port_listening">>
  <2>1. result = IF Len(args) >= 2 /\ ParseIntText(args[2]) # NoInt THEN Result(Bool(seen.accepts))
                 ELSE SpecInvalid
    BY <1>7 DEF EvaluateOperation
  <2> QED BY <1>0, <1>1, <2>1, MadeIsValue
<1>8. CASE op.opName = <<"derive">>
  <2>1. result = Derive(args, map)
    BY <1>8 DEF EvaluateOperation
  <2>2. PICK sub \in DOMAIN DeriveArgs : result = Result(DerivedValue(sub, args, map))
    BY <1>1, <2>1 DEF Derive
  <2> QED BY <1>0, <2>2, DerivedIsValue
<1>9. CASE op.opName \notin {<<"const">>, <<"const_str">>, <<"file_json">>, <<"file_exists">>,
                            <<"process_running">>, <<"port_listening">>, <<"derive">>}
  <2>1. result = SpecInvalid
    BY <1>9 DEF EvaluateOperation
  <2> QED BY <1>1, <2>1
<1> QED BY <1>2, <1>3, <1>4, <1>5, <1>6, <1>7, <1>8, <1>9

\* A payload is complete, whatever fields it is made of.
LEMMA PayloadIsComplete ==
    ASSUME NEW s, s.appId = request.appId, NEW map, AreValues(map), NEW shown
    PROVE  IsComplete(PayloadOf(s, map, shown), s)
<1> DEFINE payload == PayloadOf(s, map, shown)
           Flag(field) == JsonToBool(FieldOrDefault(map, field, Bool(FALSE)), FALSE)
           Pid(field)  == JsonToInt(FieldOrDefault(map, field, Null))
           Field(name) == At(payload, <<name>>)
<1>1. \A field, default : IsValue(default) => Plain(FieldOrDefault(map, field, default))
  BY ValueIsPlain DEF FieldOrDefault, AreValues
<1>2. \A field : Flag(field) \in BOOLEAN
  BY <1>1, MadeIsValue, BoolOfPlain
<1>3. \A field : Pid(field) \in Ints \cup {NoInt}
  BY <1>1, MadeIsValue, IntOfPlain
<1>4. /\ Is("object", payload)
      /\ \A name \in RequiredNames :
            Has(payload, name) /\ At(payload, name) = RequiredField(s, map, name)
  BY DEF PayloadOf, Obj, Is, Has, At, Contents
<1>5. /\ Field("interfaceName") = Str(<<"generic-process-interface">>)
      /\ Field("interfaceVersion") = Number(1)
      /\ Field("appId") = Str(s.appId)
      /\ Field("appTitle") = Str(s.appTitle)
      /\ Field("running") = Bool(Flag(s.runningField))
  BY <1>4 DEF RequiredField, RequiredNames
<1>6. /\ Field("pid") = IntOrNull(Pid(s.pidField))
      /\ Field("hostRunning") = Bool(Flag(s.hostRunningField))
      /\ Field("hostPid") = IntOrNull(Pid(s.hostPidField))
      /\ Field("bootId") = BootId(s, Flag(s.runningField), Pid(s.pidField))
      /\ Field("error") = Str(<<>>)
  BY <1>4 DEF RequiredField, RequiredNames
<1>7. \A name \in {"interfaceName", "interfaceVersion", "appId", "appTitle", "running",
                   "pid", "hostRunning", "hostPid", "bootId", "error"} : Has(payload, <<name>>)
  BY <1>4 DEF RequiredNames
<1>8. \A n \in Ints \cup {NoInt} : IF n = NoInt THEN IntOrNull(n) = Null /\ ~AnInt(Null)
                                  ELSE IntOrNull(n) = Number(n) /\ AnInt(Number(n)) /\ Contents(Number(n)) = n
  BY DEF IntOrNull, AnInt, Is, Null, Number, Contents, Ints
<1>9. \A b : Contents(Bool(b)) = b /\ Is("bool", Bool(b))
  BY DEF Contents, Bool, Is
<1> HIDE DEF Flag, Pid, payload
<1>10. Field("bootId") = Str(IF Contents(Field("running")) /\ AnInt(Field("pid"))
                            THEN request.appId \o <<":", ToString(Contents(Field("pid")))>> ELSE <<>>)
  <2> DEFINE running == Flag(s.runningField)
             pid     == Pid(s.pidField)
  <2>1. Contents(Field("running")) = running
    BY <1>5, <1>9
  <2>2. AnInt(Field("pid")) <=> pid # NoInt
    BY <1>3, <1>6, <1>8
  <2>3. pid # NoInt => Contents(Field("pid")) = pid
    BY <1>3, <1>6, <1>8
  <2> QED BY <1>6, <2>1, <2>2, <2>3 DEF BootId
<1>11. Is("bool", Field("running")) /\ Is("bool", Field("hostRunning"))
  BY <1>5, <1>6, <1>9
<1>12. \A name \in {"pid", "hostPid"} : Field(name) = Null \/ AnInt(Field(name))
  BY <1>3, <1>6, <1>8
<1> QED BY <1>5, <1>6, <1>7, <1>10, <1>11, <1>12 DEF IsComplete, payload

-------------------------------------------------------------------------------
(* What is told of processes.                                              *)

\* A reply with a payload is ok and has it as its response.
LEMMA OkReply ==
    ASSUME NEW id, NEW body
    PROVE  /\ At(BuildOkResponse(id, body), <<"ok">>) = Bool(TRUE)
           /\ At(BuildOkResponse(id, body), <<"response">>) = body
  BY DEF BuildOkResponse, IdField, Obj, At, Contents

\* A reply with an error is not ok.
LEMMA ErrorReply ==
    ASSUME NEW id, NEW code, NEW details
    PROVE  At(BuildErrorResponse(id, code, details), <<"ok">>) # Bool(TRUE)
<1>1. At(BuildErrorResponse(id, code, details), <<"ok">>) = Bool(FALSE)
  BY DEF BuildErrorResponse, IdField, Obj, At, Contents
<1>2. Contents(Bool(FALSE)) = FALSE /\ Contents(Bool(TRUE)) = TRUE
  BY DEF Contents, Bool
<1> QED BY <1>1, <1>2

\* Read as a Boolean or as an int, value tells nothing but of known processes.
Truthful(value, known) ==
    /\ JsonToBool(value, FALSE) => known # {}
    /\ JsonToInt(value) \in known \cup {NoInt}

\* So it does, and so do its parts.
IsHonest(value, known) ==
    /\ Truthful(value, known)
    /\ Is("object", value) =>
          \A key \in DOMAIN Contents(value) :
              Truthful(At(value, key), known) /\ ~Is("object", At(value, key))

\* get<int>() of an int is that int.
LEMMA NarrowKeepsInt == ASSUME NEW n \in Ints PROVE Narrow(n) = n
<1> DEFINE m == 2 * (MaxInt + 1)
           k == n + MaxInt + 1
<1>1. m \in Nat \ {0} /\ k \in 0..(m - 1)
  BY DEF Ints
<1>2. k % m = k
  <2> HIDE DEF m, k
  <2> QED BY <1>1
<1> QED BY <1>1, <1>2 DEF Narrow, Ints

\* How what the program makes is read back as a Boolean and as an int.
LEMMA Reads ==
    /\ \A b \in BOOLEAN : \A d : JsonToBool(Bool(b), d) = b
    /\ \A b : JsonToInt(Bool(b)) = NoInt
    /\ \A n \in Ints : \A d : JsonToBool(Number(n), d) = (n # 0)
    /\ \A n \in Ints : JsonToInt(Number(n)) = n
    /\ \A d \in BOOLEAN : JsonToBool(Null, d) = d
    /\ JsonToInt(Null) = NoInt
    /\ \A seq : ~JsonToBool(Arr(seq), FALSE) /\ JsonToInt(Arr(seq)) = NoInt
    /\ ~JsonToBool(EmptyObject, FALSE) /\ JsonToInt(EmptyObject) = NoInt
<1>1. \A b \in BOOLEAN : \A d : JsonToBool(Bool(b), d) = b
  BY DEF JsonToBool, Bool, Is, Contents
<1>2. \A b : JsonToInt(Bool(b)) = NoInt
  BY DEF JsonToInt, Bool, Is
<1>3. \A n \in Ints : \A d : JsonToBool(Number(n), d) = (n # 0)
  BY NarrowKeepsInt DEF JsonToBool, Number, Is, Contents
<1>4. \A n \in Ints : JsonToInt(Number(n)) = n
  BY NarrowKeepsInt DEF JsonToInt, Number, Is, Contents
<1>5. \A d \in BOOLEAN : JsonToBool(Null, d) = d
  BY DEF JsonToBool, Null, Is
<1>6. JsonToInt(Null) = NoInt
  BY DEF JsonToInt, Null, Is
<1>7. \A seq : ~JsonToBool(Arr(seq), FALSE) /\ JsonToInt(Arr(seq)) = NoInt
  BY DEF JsonToBool, JsonToInt, Arr, Is
<1>8. ~JsonToBool(EmptyObject, FALSE) /\ JsonToInt(EmptyObject) = NoInt
  BY DEF JsonToBool, JsonToInt, EmptyObject, Obj, Is
<1> QED BY <1>1, <1>2, <1>3, <1>4, <1>5, <1>6, <1>7, <1>8

\* A short text that begins with no blank keeps its first symbol when it is
\* trimmed.
LEMMA TrimKeepsFirst ==
    ASSUME NEW S, NEW text \in Seq(S), Len(text) \in 1..3, text[1] \notin Blanks
    PROVE  TrimCopy(text) # <<>> /\ TrimCopy(text)[1] = text[1]
<1> DEFINE kept == {i \in DOMAIN text : text[i] \notin Blanks}
<1>1. 1 \in kept /\ kept \subseteq 1..3 /\ kept \subseteq 1..Len(text)
  OBVIOUS
<1>2. Min(kept) = 1
  BY <1>1 DEF Min
<1>3. \E x \in kept : \A y \in kept : x >= y
  <2> HIDE DEF kept
  <2>1. CASE 3 \in kept
    BY <1>1, <2>1
  <2>2. CASE 3 \notin kept /\ 2 \in kept
    BY <1>1, <2>2
  <2>3. CASE 3 \notin kept /\ 2 \notin kept
    BY <1>1, <2>3
  <2> QED BY <2>1, <2>2, <2>3
<1>4. Max(kept) \in kept
  BY <1>3 DEF Max
<1>5. TrimCopy(text) = SubSeq(text, 1, Max(kept))
  BY <1>1, <1>2 DEF TrimCopy
<1>6. TrimCopy(text) # <<>> /\ TrimCopy(text)[1] = text[1]
  <2> DEFINE high == Max(kept)
  <2>1. high \in 1..Len(text)
    BY <1>1, <1>4
  <2> HIDE DEF high
  <2>2. Len(SubSeq(text, 1, high)) = high /\ SubSeq(text, 1, high)[1] = text[1]
    BY <2>1
  <2> QED BY <1>5, <2>1, <2>2 DEF high
<1> QED BY <1>6

\* What running_display writes reads as no number and as FALSE.
LEMMA DisplayIsNoNumber ==
    ASSUME NEW S, NEW text \in Seq(S), Len(text) \in 1..3,
           text[1] \in {"False", "True", "True (PID "}
    PROVE  ParseIntText(text) = NoInt /\ ParseBoolText(text, FALSE) = FALSE
<1>1. text[1] \notin Blanks
  BY DisplayAssumption, Zenon
<1>2. TrimCopy(text) # <<>> /\ TrimCopy(text)[1] = text[1]
  BY <1>1, TrimKeepsFirst
<1>3. TrimCopy(text) \notin DOMAIN Numbers
  BY <1>2, DisplayAssumption, Zenon
<1>4. /\ <<"true">>[1] \notin {"False", "True", "True (PID "}
      /\ <<"TRUE">>[1] \notin {"False", "True", "True (PID "}
      /\ <<"1">>[1] \notin {"False", "True", "True (PID "}
  OBVIOUS
<1>5. TrimCopy(text) \notin {<<"true">>, <<"TRUE">>, <<"1">>}
  BY <1>2, <1>4, Zenon
<1>6. ParseIntText(text) = NoInt
  BY <1>3 DEF ParseIntText
<1>7. ParseBoolText(text, FALSE) = FALSE
  BY <1>5 DEF ParseBoolText
<1> QED BY <1>6, <1>7

\* A part of an honest value is honest.
LEMMA PartIsHonest ==
    ASSUME NEW value, NEW known, IsHonest(value, known), NEW key, Has(value, key)
    PROVE  IsHonest(At(value, key), known)
  BY DEF IsHonest, Has

\* When a value the program makes is honest.
LEMMA MadeIsHonest ==
    ASSUME NEW known \in SUBSET (1..MaxInt)
    PROVE  /\ \A b \in BOOLEAN : (b => known # {}) => IsHonest(Bool(b), known)
           /\ \A n \in known \cup {NoInt} : IsHonest(IntOrNull(n), known)
           /\ IsHonest(Null, known) /\ IsHonest(EmptyObject, known)
           /\ \A seq : IsHonest(Arr(seq), known)
           /\ \A text : /\ ParseIntText(text) = NoInt
                        /\ ParseBoolText(text, FALSE) = FALSE
                        => IsHonest(Str(text), known)
<1>1. ASSUME NEW b \in BOOLEAN, b => known # {} PROVE IsHonest(Bool(b), known)
  <2>1. ~Is("object", Bool(b))
    BY DEF Is, Bool
  <2>2. JsonToBool(Bool(b), FALSE) = b /\ JsonToInt(Bool(b)) = NoInt
    BY Reads
  <2> QED BY <1>1, <2>1, <2>2 DEF IsHonest, Truthful
<1>2. IsHonest(Null, known)
  <2>1. ~Is("object", Null)
    BY DEF Is, Null
  <2> QED BY <2>1, Reads DEF IsHonest, Truthful
<1>3. ASSUME NEW n \in known PROVE IsHonest(Number(n), known) /\ IntOrNull(n) = Number(n)
  <2>1. ~Is("object", Number(n))
    BY DEF Is, Number
  <2>2. n \in Ints /\ n \in Int
    BY DEF Ints
  <2>3. JsonToInt(Number(n)) = n /\ n # NoInt
    BY <2>2, Reads
  <2> QED BY <2>1, <2>3 DEF IsHonest, Truthful, IntOrNull
<1>4. IsHonest(EmptyObject, known)
  <2>1. DOMAIN Contents(EmptyObject) = {}
    BY DEF Contents, EmptyObject, Obj
  <2> QED BY <2>1, Reads DEF IsHonest, Truthful
<1>5. ASSUME NEW seq PROVE IsHonest(Arr(seq), known)
  <2>1. ~Is("object", Arr(seq))
    BY DEF Is, Arr
  <2> QED BY <2>1, Reads DEF IsHonest, Truthful
<1>6. ASSUME NEW text, ParseIntText(text) = NoInt, ParseBoolText(text, FALSE) = FALSE
      PROVE  IsHonest(Str(text), known)
  <2>1. ~Is("object", Str(text))
    BY DEF Is, Str
  <2>2. JsonToBool(Str(text), FALSE) = FALSE /\ JsonToInt(Str(text)) = NoInt
    BY <1>6 DEF JsonToBool, JsonToInt, Str, Is, Contents
  <2> QED BY <2>1, <2>2 DEF IsHonest, Truthful
<1>7. IntOrNull(NoInt) = Null
  BY DEF IntOrNull
<1> QED BY <1>1, <1>2, <1>3, <1>4, <1>5, <1>6, <1>7

\* The fields of the report of a process probe.
LEMMA ProbeReport ==
    ASSUME NEW found \in Seq(1..MaxInt)
    PROVE  LET probe == BuildProcessProbeJson(found)
           IN  /\ Is("object", probe)
               /\ DOMAIN Contents(probe) = {<<"running">>, <<"pid">>, <<"pids">>}
               /\ At(probe, <<"running">>) = Bool(found # <<>>)
               /\ At(probe, <<"pid">>) = IF found = <<>> THEN Null ELSE Number(found[1])
               /\ At(probe, <<"pids">>) = Arr([i \in DOMAIN found |-> Number(found[i])])
<1> DEFINE probe == BuildProcessProbeJson(found)
<1>1. Is("object", probe) /\ DOMAIN Contents(probe) = {<<"running">>, <<"pid">>, <<"pids">>}
  BY DEF BuildProcessProbeJson, Obj, Is, Contents
<1>2. At(probe, <<"running">>) = Bool(found # <<>>)
  BY DEF BuildProcessProbeJson, Obj, At, Contents
<1>3. At(probe, <<"pid">>) = IF found # <<>> /\ found[1] > 0 THEN Number(found[1]) ELSE Null
  BY DEF BuildProcessProbeJson, Obj, At, Contents
<1>4. At(probe, <<"pids">>) = Arr([i \in DOMAIN found |-> Number(found[i])])
  BY DEF BuildProcessProbeJson, Obj, At, Contents
<1>5. found # <<>> => found[1] > 0
  OBVIOUS
<1> QED BY <1>1, <1>2, <1>3, <1>4, <1>5

\* The report of a process probe is honest about the processes it found.
LEMMA ProbeIsHonest ==
    ASSUME NEW known \in SUBSET (1..MaxInt), NEW found \in Seq(known)
    PROVE  IsHonest(BuildProcessProbeJson(found), known)
<1> DEFINE probe == BuildProcessProbeJson(found)
<1>0. known \subseteq 1..MaxInt
  OBVIOUS
<1>1. found \in Seq(1..MaxInt)
  <2>1. \A i \in 1..Len(found) : found[i] \in known
    BY ElementOfSeq
  <2> QED BY <1>0, <2>1, SeqMonotonic
<1>2. ASSUME found # <<>> PROVE known # {} /\ found[1] \in known /\ found[1] \in Int
  <2>1. 1 \in 1..Len(found)
    BY <1>2
  <2>2. found[1] \in known
    BY <2>1, ElementOfSeq
  <2>3. found[1] \in 1..MaxInt
    BY <1>0, <2>2, Zenon
  <2> QED BY <2>2, <2>3
<1>3. Is("object", probe) /\ DOMAIN Contents(probe) = {<<"running">>, <<"pid">>, <<"pids">>}
  BY <1>1, ProbeReport
<1>4. \A value : IsHonest(value, known) => Truthful(value, known)
  BY DEF IsHonest
<1>5. Truthful(At(probe, <<"running">>), known) /\ ~Is("object", At(probe, <<"running">>))
  <2>1. At(probe, <<"running">>) = Bool(found # <<>>)
    BY <1>1, ProbeReport
  <2>2. \A b : ~Is("object", Bool(b))
    BY DEF Is, Bool
  <2>3. (found # <<>>) \in BOOLEAN
    OBVIOUS
  <2> QED BY <1>2, <1>4, <2>1, <2>2, <2>3, MadeIsHonest
<1>6. Truthful(At(probe, <<"pid">>), known) /\ ~Is("object", At(probe, <<"pid">>))
  <2>1. At(probe, <<"pid">>) = IF found = <<>> THEN Null ELSE Number(found[1])
    BY <1>1, ProbeReport
  <2>2. found # <<>> => IntOrNull(found[1]) = Number(found[1])
    BY <1>2 DEF IntOrNull
  <2>3. ~Is("object", Null) /\ \A n : ~Is("object", Number(n))
    BY DEF Is, Null, Number
  <2> QED BY <1>2, <1>4, <2>1, <2>2, <2>3, MadeIsHonest
<1>7. Truthful(At(probe, <<"pids">>), known) /\ ~Is("object", At(probe, <<"pids">>))
  <2>1. \A seq : ~Is("object", Arr(seq))
    BY DEF Is, Arr
  <2>2. PICK seq : At(probe, <<"pids">>) = Arr(seq)
    BY <1>1, ProbeReport
  <2> QED BY <1>4, <2>1, <2>2, MadeIsHonest
<1>8. Truthful(probe, known)
  <2>1. JsonToBool(probe, FALSE) = FALSE /\ JsonToInt(probe) = NoInt
    BY <1>3 DEF JsonToBool, JsonToInt, Is
  <2> QED BY <2>1 DEF Truthful
<1> QED BY <1>3, <1>5, <1>6, <1>7, <1>8 DEF IsHonest

AreHonest(map, known) == \A field \in DOMAIN map : IsHonest(map[field], known)

\* The empty text is no number and reads as FALSE.
LEMMA EmptyText ==
    /\ ParseIntText(<<>>) = NoInt
    /\ ParseBoolText(<<>>, FALSE) = FALSE
<1>1. TrimCopy(<<>>) = <<>>
  BY DEF TrimCopy
<1>2. <<>> \notin DOMAIN Numbers
  BY DisplayAssumption, Zenon
<1> QED BY <1>1, <1>2 DEF ParseIntText, ParseBoolText

\* A text of three symbols is a sequence of what they come from.
LEMMA ThreeWords ==
    ASSUME NEW S, NEW a \in S, NEW b \in S, NEW c \in S
    PROVE  <<a, b, c>> \in Seq(S) /\ Len(<<a, b, c>>) = 3 /\ <<a, b, c>>[1] = a
  OBVIOUS

\* running_display tells nothing that can be read back as a pid.
LEMMA DisplayIsHonest ==
    ASSUME NEW known \in SUBSET (1..MaxInt), NEW running \in BOOLEAN, NEW pid
    PROVE  IsHonest(RunningDisplay(running, pid), known)
<1> DEFINE S == {"False", "True", "True (PID ", ToString(pid), ")"}
           text == IF ~running THEN <<"False">>
                   ELSE IF pid = NoInt THEN <<"True">>
                   ELSE <<"True (PID ", ToString(pid), ")">>
<1>1. /\ text \in Seq(S) /\ Len(text) \in 1..3
      /\ text[1] \in {"False", "True", "True (PID "}
  <2>1. CASE ~running
    BY <2>1
  <2>2. CASE running /\ pid = NoInt
    BY <2>2
  <2>3. CASE running /\ pid # NoInt
    <3> DEFINE word == ToString(pid)
    <3>1. text = <<"True (PID ", word, ")">>
      BY <2>3
    <3>2. "True (PID " \in S /\ word \in S /\ ")" \in S
      BY Zenon
    <3>3. text \in Seq(S) /\ Len(text) = 3 /\ text[1] = "True (PID "
      <4> HIDE DEF text, S, word
      <4> QED BY <3>1, <3>2, ThreeWords
    <3>4. 3 \in 1..3
      OBVIOUS
    <3> QED BY <3>3, <3>4, Zenon
  <2> QED BY <2>1, <2>2, <2>3
<1>2. ParseIntText(text) = NoInt /\ ParseBoolText(text, FALSE) = FALSE
  <2> HIDE DEF text, S
  <2> QED BY <1>1, DisplayIsNoNumber
<1>3. RunningDisplay(running, pid) = Str(text)
  BY DEF RunningDisplay
<1> QED BY <1>2, <1>3, MadeIsHonest

\* Every derive operation without a default but str_if_bool, whose texts come
\* from the spec, makes an honest value of honest ones.
LEMMA DerivedIsHonest ==
    ASSUME NEW known \in SUBSET (1..MaxInt), NEW map, AreHonest(map, known), AreValues(map),
           NEW args, ~HasDefault(args),
           NEW sub \in DOMAIN DeriveArgs, sub # "str_if_bool"
    PROVE  IsHonest(DerivedValue(sub, args, map), known)
<1> DEFINE Field(i, default) == FieldOrDefault(map, TrimCopy(args[i]), default)
           Flag(i)  == JsonToBool(Field(i, Bool(FALSE)), FALSE)
           Count(i) == JsonToInt(Field(i, Null))
           source   == Field(2, EmptyObject)
           key      == TrimCopy(args[3])
           found    == Has(source, key)
           part     == At(source, key)
<1>0. IsHonest(Bool(FALSE), known) /\ IsHonest(Null, known) /\ IsHonest(EmptyObject, known)
  BY MadeIsHonest
<1>1. \A i, default : IsHonest(default, known) => IsHonest(Field(i, default), known)
  BY DEF FieldOrDefault, AreHonest
<1>2. \A i, default : IsValue(default) => Plain(Field(i, default))
  BY ValueIsPlain DEF FieldOrDefault, AreValues
<1>3. \A i : Flag(i) \in BOOLEAN /\ (Flag(i) => known # {})
  <2>1. \A i : Flag(i) \in BOOLEAN
    BY <1>2, MadeIsValue, BoolOfPlain
  <2> QED BY <1>0, <1>1, <2>1 DEF IsHonest, Truthful
<1>4. \A i : Count(i) \in known \cup {NoInt}
  BY <1>0, <1>1 DEF IsHonest, Truthful
<1>5. found => IsHonest(part, known)
  BY <1>0, <1>1, PartIsHonest
<1>6. found => JsonToBool(part, FALSE) \in BOOLEAN
  <2>1. IsValue(source)
    BY MadeIsValue DEF FieldOrDefault, AreValues
  <2> QED BY <2>1, PartIsValue, ValueIsPlain, BoolOfPlain
<1>7. CASE sub = "copy"
  BY <1>7, <1>0, <1>1 DEF DerivedValue
<1>8. CASE sub = "bool_from_obj"
  <2>1. DerivedValue(sub, args, map) =
            Bool(IF found THEN JsonToBool(part, FALSE) ELSE HasDefault(args) /\ ParseBoolText(args[4], FALSE))
    BY <1>8 DEF DerivedValue
  <2>2. CASE found
    <3>1. JsonToBool(part, FALSE) => known # {}
      BY <1>5, <2>2 DEF IsHonest, Truthful
    <3>2. JsonToBool(part, FALSE) \in BOOLEAN
      BY <1>6, <2>2
    <3>3. DerivedValue(sub, args, map) = Bool(JsonToBool(part, FALSE))
      BY <2>1, <2>2
    <3> HIDE DEF part
    <3> QED BY <3>1, <3>2, <3>3, MadeIsHonest
  <2>3. CASE ~found
    <3>1. DerivedValue(sub, args, map) = Bool(FALSE)
      BY <2>1, <2>3
    <3> QED BY <3>1, <1>0
  <2> QED BY <2>2, <2>3
<1>9. CASE sub = "int_from_obj"
  <2>1. DerivedValue(sub, args, map) = IF found THEN IntOrNull(JsonToInt(part)) ELSE Null
    BY <1>9 DEF DerivedValue
  <2>2. found => JsonToInt(part) \in known \cup {NoInt}
    BY <1>5 DEF IsHonest, Truthful
  <2> QED BY <1>0, <2>1, <2>2, MadeIsHonest
<1>10. CASE sub = "str_from_obj"
  <2>1. DerivedValue(sub, args, map) = IF HasA("string", source, key) THEN part ELSE Str(<<>>)
    BY <1>10 DEF DerivedValue
  <2> QED BY <2>1, <1>5, EmptyText, MadeIsHonest DEF HasA
<1>11. CASE sub = "json_from_obj"
  <2>1. DerivedValue(sub, args, map) = IF found THEN part ELSE Null
    BY <1>11 DEF DerivedValue
  <2> QED BY <1>0, <2>1, <1>5
<1>12. CASE sub = "running_display"
  <2>1. DerivedValue(sub, args, map) = RunningDisplay(Flag(2), Count(3))
    BY <1>12 DEF DerivedValue
  <2> QED BY <2>1, <1>3, DisplayIsHonest
<1>13. CASE sub = "pick_int"
  <2>1. DerivedValue(sub, args, map) = IntOrNull(IF Count(2) # NoInt THEN Count(2) ELSE Count(3))
    BY <1>13 DEF DerivedValue
  <2>2. (IF Count(2) # NoInt THEN Count(2) ELSE Count(3)) \in known \cup {NoInt}
    BY <1>4
  <2> HIDE DEF Count
  <2> QED BY <2>1, <2>2, MadeIsHonest
<1>14. CASE sub = "or_bool"
  <2>1. DerivedValue(sub, args, map) = Bool(Flag(2) \/ Flag(3))
    BY <1>14 DEF DerivedValue
  <2>2. /\ (Flag(2) \/ Flag(3)) \in BOOLEAN
        /\ (Flag(2) \/ Flag(3)) => known # {}
    BY <1>3
  <2> HIDE DEF Flag
  <2> QED BY <2>1, <2>2, MadeIsHonest
<1> QED
  BY <1>7, <1>8, <1>9, <1>10, <1>11, <1>12, <1>13, <1>14 DEF DeriveArgs

\* Texts of one symbol are equal only if the symbols are.
LEMMA SameName == \A a, b : <<a>> = <<b>> => a = b
<1> TAKE a, b
<1> HAVE <<a>> = <<b>>
<1>1. <<a>>[1] = <<b>>[1]
  BY Zenon
<1> QED BY <1>1

\* A derive operation that succeeds is of one kind and has the arguments of
\* that kind.
LEMMA DeriveOfOne ==
    ASSUME NEW args, NEW map, Derive(args, map).code = "kNone"
    PROVE  \E sub \in DOMAIN DeriveArgs :
              /\ TrimCopy(args[1]) = <<sub>>
              /\ Len(args) >= DeriveArgs[sub]
              /\ Derive(args, map) = Result(DerivedValue(sub, args, map))
<1> DEFINE subs == {name \in DOMAIN DeriveArgs : args # <<>> /\ TrimCopy(args[1]) = <<name>>}
<1>1. \E name \in subs : Len(args) >= DeriveArgs[name]
  BY DEF Derive, SpecInvalid
<1>2. PICK sub \in subs : Len(args) >= DeriveArgs[sub]
  BY <1>1
<1>3. subs = {sub}
  BY <1>2, SameName
<1>4. (CHOOSE name \in subs : TRUE) = sub
  BY <1>3
<1> QED BY <1>1, <1>2, <1>4 DEF Derive

\* Process probes and the operations on what they found make honest values.
LEMMA OperationIsHonest ==
    ASSUME NEW known \in SUBSET (1..MaxInt), NEW map, AreHonest(map, known), AreValues(map),
           NEW op, NEW seen, seen.pids \in Seq(known),
           \/ op.opName = <<"process_running">>
           \/ op.opName = <<"derive">> /\ ~HasDefault(op.args),
           EvaluateOperation(op, map, seen).code = "kNone"
    PROVE  IsHonest(EvaluateOperation(op, map, seen).value, known)
<1> DEFINE result == EvaluateOperation(op, map, seen)
<1>0. \A value : Result(value).value = value
  BY DEF Result
<1>1. CASE op.opName = <<"process_running">>
  <2>1. result = IF op.args # <<>> THEN Result(BuildProcessProbeJson(seen.pids)) ELSE SpecInvalid
    BY <1>1 DEF EvaluateOperation
  <2>2. SpecInvalid.code # "kNone"
    BY DEF SpecInvalid
  <2> QED BY <1>0, <2>1, <2>2, ProbeIsHonest
<1>2. CASE op.opName = <<"derive">>
  <2>1. result = Derive(op.args, map)
    BY <1>2 DEF EvaluateOperation
  <2>2. ~HasDefault(op.args)
    BY <1>2
  <2>3. PICK sub \in DOMAIN DeriveArgs :
             /\ Len(op.args) >= DeriveArgs[sub]
             /\ result = Result(DerivedValue(sub, op.args, map))
    BY <2>1, DeriveOfOne
  <2>4. sub # "str_if_bool"
    BY <2>2, <2>3 DEF DeriveArgs, HasDefault
  <2> QED BY <1>0, <2>2, <2>3, <2>4, DerivedIsHonest
<1> QED BY <1>1, <1>2

-------------------------------------------------------------------------------
(* status.get.                                                             *)

\* What operation i, a probe, found, and what was made of that since.
Found(i, found) ==
    LET Of(j) == spec.operations[j].fieldName
        Holds(j, value) == Of(j) \in DOMAIN values /\ values[Of(j)] = value
    IN  /\ Holds(i, BuildProcessProbeJson(found))
        /\ \A j \in 1..(step - 1) :
              /\ Copies(spec, j, "bool_from_obj", i, "running") => Holds(j, Bool(found # <<>>))
              /\ Copies(spec, j, "int_from_obj", i, "pid") =>
                    Holds(j, IF found = <<>> THEN Null ELSE Number(found[1]))

ProbesAreKept ==
    \A i \in ProbesOf(spec) :
        i < step /\ SettersOf(spec, spec.operations[i].fieldName) = {i} =>
            \E found \in Seq(ran) : Found(i, found)

\* What is published at the end.
Report ==
    [path    |-> SnapshotPath(profile, request.appId),
     appId   |-> request.appId,
     payload |-> PayloadOf(spec, values, fields)]

\* The invariant of a status.get. Once it is answered what was published was
\* made of all fields; these are values, and honest ones if they all come from
\* probes; and what is made of one probe goes back to what that probe found.
StatusInv ==
    /\ Shape
    /\ AreValues(values)
    /\ spec # None => spec.appId = request.appId
    /\ pc = "evaluate" => snapshot = None /\ pids \subseteq ran
    /\ snapshot # None => spec # None /\ snapshot = Report
    /\ Answered({"status.get"}) =>
          /\ snapshot # None
          /\ Body = snapshot.payload
          /\ step \notin DOMAIN spec.operations
    /\ spec # None /\ OnlyProbes(spec) => AreHonest(values, ran)
    /\ spec # None => ProbesAreKept

\* A step that leaves no status leaves StatusInv.
LEMMA BlankIsKept ==
    ASSUME Shape', NoStatus', pc' # "evaluate", ~Answered({"status.get"})'
    PROVE  StatusInv'
  BY DEF StatusInv, NoStatus, AreValues

\* When a step is not the answer to a status.get.
LEMMA NotAnswered ==
    ASSUME \/ pc' # "answered"
           \/ At(reply', <<"ok">>) # Bool(TRUE)
           \/ request'.method # <<"status.get">>
    PROVE  ~Answered({"status.get"})'
  BY DEF Answered, Ok

\* Init establishes StatusInv.
LEMMA StatusInit == Init => StatusInv
  BY InitType DEF StatusInv, Init, NoTrace, NoStatus, AreValues, Answered

\* The handlers of other methods leave no status.
LEMMA OthersKeepStatus ==
    ASSUME StatusInv, Shape',
           \/ \E file \in Profiles : Start(file)
           \/ \E doc \in Documents : Receive(doc)
           \/ Ping \/ ActionList \/ Invoke \/ LaunchFails \/ LaunchDetached
           \/ \E end \in Endings, out \in Outputs : CommandEnds(end, out)
           \/ SendReply
    PROVE  StatusInv'
<1> USE DEF StatusInv
<1>1. ASSUME NEW file \in Profiles, Start(file) PROVE StatusInv'
  <2>1. NoStatus' /\ pc' \notin {"evaluate", "answered"}
    BY <1>1 DEF Start, Shape, TypeOK, NoTrace, NoStatus, status
  <2> QED BY <2>1, NotAnswered, BlankIsKept
<1>2. ASSUME NEW doc \in Documents, Receive(doc) PROVE StatusInv'
  <2>1. NoStatus' /\ pc' # "evaluate"
    BY <1>2 DEF Receive, AnswerError, Shape, TypeOK, NoTrace, NoStatus, status
  <2>2. pc' # "answered" \/ At(reply', <<"ok">>) # Bool(TRUE)
    BY <1>2, ErrorReply DEF Receive, AnswerError
  <2> QED BY <2>1, <2>2, NotAnswered, BlankIsKept
<1>3. ASSUME SendReply PROVE StatusInv'
  <2>1. NoStatus' /\ pc' \notin {"evaluate", "answered"}
    BY <1>3 DEF SendReply, NoStatus
  <2> QED BY <2>1, NotAnswered, BlankIsKept
<1>4. ASSUME Ping \/ ActionList \/ Invoke PROVE StatusInv'
  <2>1. pc = "handle" /\ NoStatus /\ UNCHANGED <<spec, step, values, fields, snapshot>>
    BY <1>4 DEF Ping, ActionList, Invoke, Handles, Shape, TypeOK, status
  <2>2. request.method # <<"status.get">> /\ request' = request
    BY <1>4 DEF Ping, ActionList, Invoke, Handles, message
  <2>3. pc' \in {"answered", "shell"}
    BY <1>4 DEF Ping, ActionList, Invoke, Answer, AnswerError, NotLaunched, Run
  <2> QED BY <2>1, <2>2, <2>3, NotAnswered, BlankIsKept DEF NoStatus
<1>5. ASSUME LaunchFails \/ LaunchDetached \/ \E end \in Endings, out \in Outputs : CommandEnds(end, out)
      PROVE  StatusInv'
  <2>1. pc = "shell" /\ UNCHANGED <<spec, step, values, fields, snapshot, request>>
    BY <1>5 DEF LaunchFails, LaunchDetached, CommandEnds, status, message
  <2>2. NoStatus /\ request.method # <<"status.get">>
    BY <2>1 DEF Shape, TypeOK
  <2>3. pc' # "evaluate"
    BY <1>5 DEF LaunchFails, LaunchDetached, CommandEnds, NotLaunched, Conclude, Answer, Throw
  <2> QED BY <2>1, <2>2, <2>3, NotAnswered, BlankIsKept DEF NoStatus
<1> QED BY <1>1, <1>2, <1>3, <1>4, <1>5

\* A status.get starts with no fields and with the processes there are.
LEMMA StatusGetStarts == ASSUME StatusInv, Shape', StatusGet PROVE StatusInv'
<1> DEFINE app == request.appId
           file == ReadTextFile(Disk, SpecPath(profile, app))
           code == LoadStatusSpec(file, app)
<1>1. /\ pc = "handle" /\ ran' = pids /\ NoStatus
      /\ UNCHANGED <<profile, request, pids, values, fields, snapshot>>
  BY DEF StatusGet, Handles, message, command, StatusInv, Shape, TypeOK
<1>2. \/ code = "kNone" /\ pc' = "evaluate" /\ spec' = SpecOf(file, app) /\ step' = 1 /\ reply' = reply
      \/ NoStatus' /\ pc' = "terminated"
      \/ NoStatus' /\ pc' = "answered" /\ At(reply', <<"ok">>) # Bool(TRUE)
  <2> HIDE DEF code, file
  <2>1. CASE code = "kNone"
    BY <2>1 DEF StatusGet, code, file
  <2>2. CASE code = "throws"
    BY <1>1, <2>2 DEF StatusGet, Throw, code, file, NoStatus
  <2>3. CASE code \notin {"kNone", "throws"}
    BY <1>1, <2>3, ErrorReply DEF StatusGet, AnswerError, code, file, NoStatus
  <2> QED BY <2>1, <2>2, <2>3
<1> HIDE DEF code, file
<1>3. CASE code = "kNone" /\ pc' = "evaluate" /\ spec' = SpecOf(file, app) /\ step' = 1
  <2>1. spec'.appId = request'.appId
    BY <1>1, <1>3 DEF SpecOf
  <2>2. DOMAIN values' = {}
    BY <1>1 DEF NoStatus
  <2>3. AreValues(values') /\ AreHonest(values', ran')
    BY <2>2 DEF AreValues, AreHonest
  <2>4. snapshot' = None /\ pids' \subseteq ran'
    BY <1>1 DEF NoStatus
  <2>5. ~Answered({"status.get"})'
    BY <1>3, NotAnswered
  <2>6. ProbesAreKept'
    <3>1. PICK n \in Nat : DOMAIN spec'.operations = 1..n
      BY <1>3 DEF Shape, TypeOK, IsSpec
    <3>2. \A i \in ProbesOf(spec') : i \in 1..n
      BY <3>1 DEF ProbesOf
    <3> QED BY <1>3, <3>2 DEF ProbesAreKept
  <2> QED BY <1>3, <2>1, <2>3, <2>4, <2>5, <2>6 DEF StatusInv
<1> QED BY <1>2, <1>3, NotAnswered, BlankIsKept

\* A process that starts or ends takes nothing back of what ran.
LEMMA ProcessKeeps ==
    ASSUME StatusInv, Shape', NEW pid \in Pids, ProcessStarts(pid) \/ ProcessEnds(pid)
    PROVE  StatusInv'
<1>1. /\ ran \subseteq ran'
      /\ pc' = pc
      /\ pc = "evaluate" /\ pids \subseteq ran => pids' \subseteq ran'
      /\ UNCHANGED <<profile, request, reply, spec, step, values, fields, snapshot>>
  BY DEF ProcessStarts, ProcessEnds, message, status
<1>2. AreHonest(values, ran) => AreHonest(values', ran')
  BY <1>1 DEF AreHonest, IsHonest, Truthful
<1>3. spec # None => ProbesAreKept'
  <2>1. SUFFICES ASSUME spec # None, NEW i \in ProbesOf(spec), i < step,
                        SettersOf(spec, spec.operations[i].fieldName) = {i}
                 PROVE  \E found \in Seq(ran') : Found(i, found)'
    BY <1>1 DEF ProbesAreKept
  <2>2. PICK found \in Seq(ran) : Found(i, found)
    BY <2>1 DEF StatusInv, ProbesAreKept
  <2>3. found \in Seq(ran')
    BY <1>1, <2>2, SeqMonotonic
  <2>4. Found(i, found)'
    BY <1>1, <2>2 DEF Found
  <2> QED BY <2>3, <2>4
<1>4. Answered({"status.get"})' => Answered({"status.get"}) /\ Body' = Body
  BY <1>1 DEF Answered, Ok, Body
<1> QED BY <1>1, <1>2, <1>3, <1>4 DEF StatusInv, Report

\* Nothing changes in a stuttering step.
LEMMA StutterKeeps == ASSUME StatusInv, Shape', UNCHANGED vars PROVE StatusInv'
<1>1. UNCHANGED <<pc, profile, request, reply, pids, ran, spec, step, values, fields, snapshot>>
  BY DEF vars, message, status
<1>2. ProbesAreKept => ProbesAreKept'
  BY <1>1 DEF ProbesAreKept, Found
<1>3. Answered({"status.get"})' => Answered({"status.get"}) /\ Body' = Body
  BY <1>1 DEF Answered, Ok, Body
<1> QED BY <1>1, <1>2, <1>3 DEF StatusInv, Report

\* What is published and answered is made of all fields.
LEMMA PublishTells == ASSUME StatusInv, Shape', Publish PROVE StatusInv'
<1>1. /\ pc = "evaluate" /\ step \notin DOMAIN spec.operations
      /\ UNCHANGED <<profile, request, pids, ran, spec, step, values, fields>>
      /\ spec # None /\ snapshot = None
  BY DEF Publish, message, command, StatusInv, Shape, TypeOK
<1>2. \/ snapshot' = Report' /\ pc' = "answered" /\ At(reply', <<"response">>) = Report'.payload
      \/ snapshot' \in {None, Report'} /\ pc' = "answered" /\ At(reply', <<"ok">>) # Bool(TRUE)
  <2>1. \/ snapshot' = Report /\ Answer(PayloadOf(spec, values, fields))
        \/ /\ snapshot' \in {snapshot, Report}
           /\ AnswerError(request.id, ToIpcErrorCode("kSnapshotWriteFailed"), NoDetails)
    BY DEF Publish, Report
  <2>2. Report' = Report /\ Report.payload = PayloadOf(spec, values, fields)
    BY <1>1 DEF Report
  <2>3. CASE snapshot' = Report /\ Answer(PayloadOf(spec, values, fields))
    BY <2>2, <2>3, OkReply DEF Answer
  <2>4. CASE /\ snapshot' \in {snapshot, Report}
             /\ AnswerError(request.id, ToIpcErrorCode("kSnapshotWriteFailed"), NoDetails)
    <3>1. pc' = "answered" /\ At(reply', <<"ok">>) # Bool(TRUE)
      BY <2>4, ErrorReply DEF AnswerError
    <3> QED BY <1>1, <2>2, <2>4, <3>1
  <2> QED BY <2>1, <2>3, <2>4
<1>3. Report' # None
  BY DEF Report, None
<1>4. ProbesAreKept => ProbesAreKept'
  BY <1>1 DEF ProbesAreKept, Found
<1>5. Answered({"status.get"})' => snapshot' # None /\ Body' = snapshot'.payload
  BY <1>2, <1>3, NotAnswered DEF Body
<1> QED BY <1>1, <1>2, <1>4, <1>5 DEF StatusInv

\* What an operation sees: pids of processes that ran, JSON in files.
LEMMA SeenIs ==
    ASSUME StatusInv, pc = "evaluate", NEW seen \in Seen
    PROVE  /\ seen.pids \in Seq(ran) /\ seen.pids \in Seq(Int)
           /\ seen.accepts \in BOOLEAN
           /\ \A path \in DOMAIN seen.files : seen.files[path] \in JsonValues \cup {Missing, NotJson}
<1>1. pids \subseteq ran /\ ran \subseteq Pids
  BY DEF StatusInv, Shape, TypeOK
<1>2. IsFiniteSet(pids)
  <2>1. IsFiniteSet(1..MaxInt)
    BY FS_Interval
  <2> QED BY <1>1, <2>1, FS_Subset
<1>3. seen.pids \in Seq(pids)
  <2>1. seen.pids \in SetToSeqs(pids) \cup {<<>>}
    BY DEF Seen
  <2>2. SetToSeqs(pids) \subseteq [1..Cardinality(pids) -> pids]
    BY DEF SetToSeqs
  <2>3. Cardinality(pids) \in Nat
    BY <1>2, FS_CardinalityType
  <2>4. [1..Cardinality(pids) -> pids] \subseteq Seq(pids)
    BY <2>3, SeqDef
  <2> QED BY <2>1, <2>2, <2>4, EmptySeq
<1>4. seen.pids \in Seq(ran)
  BY <1>1, <1>3, SeqMonotonic
<1>5. seen.pids \in Seq(Int)
  <2>1. ran \subseteq Int
    BY <1>1
  <2> QED BY <1>4, <2>1, SeqMonotonic
<1>6. PICK version \in Versions : seen.files = Put(Disk, Rewritten, version)
  BY DEF Seen
<1>7. \A path \in DOMAIN seen.files : seen.files[path] \in JsonValues \cup {Missing, NotJson}
  BY <1>6 DEF Put
<1>8. seen.accepts \in BOOLEAN
  BY DEF Seen
<1> QED BY <1>4, <1>5, <1>7, <1>8

\* What bool_from_obj and int_from_obj make of the report of a process probe.
LEMMA CopiesOfProbe ==
    ASSUME NEW found \in Seq(1..MaxInt), NEW map, NEW args,
           TrimCopy(args[2]) \in DOMAIN map,
           map[TrimCopy(args[2])] = BuildProcessProbeJson(found)
    PROVE  /\ TrimCopy(args[3]) = <<"running">> =>
                 DerivedValue("bool_from_obj", args, map) = Bool(found # <<>>)
           /\ TrimCopy(args[3]) = <<"pid">> =>
                 DerivedValue("int_from_obj", args, map) =
                     IF found = <<>> THEN Null ELSE Number(found[1])
<1> DEFINE source == FieldOrDefault(map, TrimCopy(args[2]), EmptyObject)
           probe  == BuildProcessProbeJson(found)
<1>1. source = probe
  BY DEF FieldOrDefault
<1>2. ASSUME TrimCopy(args[3]) = <<"running">>
      PROVE  DerivedValue("bool_from_obj", args, map) = Bool(found # <<>>)
  <2>1. Has(probe, <<"running">>) /\ At(probe, <<"running">>) = Bool(found # <<>>)
    BY ProbeReport DEF Has
  <2>2. DerivedValue("bool_from_obj", args, map) = Bool(JsonToBool(At(probe, <<"running">>), FALSE))
    BY <1>1, <1>2, <2>1 DEF DerivedValue
  <2>3. JsonToBool(Bool(found # <<>>), FALSE) = (found # <<>>)
    <3>1. (found # <<>>) \in BOOLEAN
      OBVIOUS
    <3> QED BY <3>1, Reads
  <2> QED BY <2>1, <2>2, <2>3
<1>3. ASSUME TrimCopy(args[3]) = <<"pid">>
      PROVE  DerivedValue("int_from_obj", args, map) = IF found = <<>> THEN Null ELSE Number(found[1])
  <2>1. Has(probe, <<"pid">>) /\ At(probe, <<"pid">>) = IF found = <<>> THEN Null ELSE Number(found[1])
    BY ProbeReport DEF Has
  <2>2. DerivedValue("int_from_obj", args, map) = IntOrNull(JsonToInt(At(probe, <<"pid">>)))
    BY <1>1, <1>3, <2>1 DEF DerivedValue
  <2>3. CASE found = <<>>
    <3>1. IntOrNull(JsonToInt(Null)) = Null
      BY Reads DEF IntOrNull
    <3> QED BY <2>1, <2>2, <2>3, <3>1
  <2>4. CASE found # <<>>
    <3>1. found[1] \in 1..MaxInt
      <4>1. 1 \in 1..Len(found)
        BY <2>4
      <4> QED BY <4>1, ElementOfSeq
    <3>2. found[1] \in Ints /\ found[1] \in Int
      BY <3>1 DEF Ints
    <3>3. IntOrNull(JsonToInt(Number(found[1]))) = Number(found[1])
      BY <3>2, Reads DEF IntOrNull
    <3> QED BY <2>1, <2>2, <2>4, <3>3
  <2> QED BY <2>3, <2>4
<1> QED BY <1>2, <1>3

\* An operation keeps the fields honest, and what probes found where it was.
LEMMA EvaluateKeeps == ASSUME StatusInv, Shape', Evaluate PROVE StatusInv'
<1> DEFINE op == spec.operations[step]
<1>1. PICK seen \in Seen :
         \/ /\ EvaluateOperation(op, values, seen).code = "kNone"
            /\ Keep(op, EvaluateOperation(op, values, seen).value)
            /\ UNCHANGED <<pc, reply>>
         \/ /\ AnswerError(request.id, ToIpcErrorCode(EvaluateOperation(op, values, seen).code), NoDetails)
            /\ UNCHANGED <<values, fields, step>>
  BY DEF Evaluate
<1> DEFINE result == EvaluateOperation(op, values, seen)
           value == result.value
<1>2. /\ pc = "evaluate" /\ step \in DOMAIN spec.operations
      /\ UNCHANGED <<profile, request, pids, ran, spec, snapshot>>
  BY DEF Evaluate, message
<1>3. snapshot = None /\ spec # None /\ ran \in SUBSET (1..MaxInt)
  BY <1>2 DEF StatusInv, Shape, TypeOK
<1>4. CASE pc' = "answered" /\ At(reply', <<"ok">>) # Bool(TRUE) /\ UNCHANGED <<values, fields, step>>
  <2>1. ProbesAreKept => ProbesAreKept'
    BY <1>2, <1>4 DEF ProbesAreKept, Found
  <2>2. ~Answered({"status.get"})'
    BY <1>4, NotAnswered
  <2> QED BY <1>2, <1>3, <1>4, <2>1, <2>2 DEF StatusInv
<1>5. CASE result.code = "kNone" /\ Keep(op, value) /\ pc' = pc
  <2>1. values' = Put(values, op.fieldName, value) /\ step' = step + 1
    BY <1>5 DEF Keep
  <2>2. AreValues(values')
    <3>1. IsValue(value)
      BY <1>2, <1>5, SeenIs, OperationIsValue DEF StatusInv
    <3> HIDE DEF value, op
    <3> QED BY <2>1, <3>1 DEF StatusInv, AreValues, Put
  <2>3. ASSUME OnlyProbes(spec) PROVE AreHonest(values', ran)
    <3>1. \/ op.opName = <<"process_running">>
          \/ op.opName = <<"derive">> /\ ~HasDefault(op.args)
      BY <1>2, <2>3 DEF OnlyProbes
    <3>2. seen.pids \in Seq(ran)
      BY <1>2, SeenIs
    <3>3. AreHonest(values, ran) /\ AreValues(values)
      BY <1>3, <2>3 DEF StatusInv
    <3>4. IsHonest(value, ran)
      <4> HIDE DEF op
      <4> QED BY <1>3, <1>5, <3>1, <3>2, <3>3, OperationIsHonest
    <3> HIDE DEF value, op
    <3> QED BY <2>1, <3>3, <3>4 DEF AreHonest, Put
  <2>4. ASSUME NEW i \in ProbesOf(spec), i < step + 1,
               SettersOf(spec, spec.operations[i].fieldName) = {i}
        PROVE  \E found \in Seq(ran) : Found(i, found)'
    <3> DEFINE Of(j) == spec.operations[j].fieldName
               Holds(j, v) == Of(j) \in DOMAIN values /\ values[Of(j)] = v
    <3>0. PICK n \in Nat : DOMAIN spec.operations = 1..n
      BY <1>3 DEF StatusInv, Shape, IsSpec
    <3>1. step \in 1..n /\ i \in 1..n
      BY <1>2, <3>0 DEF ProbesOf
    <3>2. ASSUME NEW j \in 1..n, SettersOf(spec, Of(j)) = {j}, j # step, NEW v, Holds(j, v)
          PROVE  Of(j) \in DOMAIN values' /\ values'[Of(j)] = v
      <4>1. op.fieldName # Of(j)
        BY <3>0, <3>1, <3>2 DEF SettersOf
      <4> QED BY <2>1, <3>2, <4>1 DEF Put
    <3>3. CASE i = step
      <4>1. value = BuildProcessProbeJson(seen.pids)
        <5>1. op.opName = <<"process_running">>
          BY <3>3 DEF ProbesOf
        <5>2. result = IF op.args # <<>> THEN Result(BuildProcessProbeJson(seen.pids)) ELSE SpecInvalid
          BY <5>1 DEF EvaluateOperation
        <5> QED BY <1>5, <5>2 DEF Result, SpecInvalid
      <4>2. Of(i) \in DOMAIN values' /\ values'[Of(i)] = BuildProcessProbeJson(seen.pids)
        <5>1. op.fieldName = Of(i)
          BY <3>3
        <5> HIDE DEF value, op
        <5> QED BY <2>1, <4>1, <5>1 DEF Put
      <4>3. \A j \in 1..(step' - 1) : \A sub, key : ~Copies(spec, j, sub, i, key)
        BY <2>1, <3>1, <3>3 DEF Copies
      <4>4. seen.pids \in Seq(ran)
        BY <1>2, SeenIs
      <4>5. Found(i, seen.pids)'
        BY <1>2, <4>2, <4>3 DEF Found
      <4> QED BY <4>4, <4>5
    <3>4. CASE i < step
      <4>1. PICK found \in Seq(ran) : Found(i, found)
        BY <1>3, <2>4, <3>4 DEF StatusInv, ProbesAreKept
      <4>2. Holds(i, BuildProcessProbeJson(found))
        BY <4>1 DEF Found
      <4>3. /\ \A j \in 1..(step - 1) : Copies(spec, j, "bool_from_obj", i, "running") =>
                    Holds(j, Bool(found # <<>>))
            /\ \A j \in 1..(step - 1) : Copies(spec, j, "int_from_obj", i, "pid") =>
                    Holds(j, IF found = <<>> THEN Null ELSE Number(found[1]))
        BY <4>1 DEF Found
      <4>4. found \in Seq(1..MaxInt)
        BY <1>3, SeqMonotonic
      <4>5. Of(i) \in DOMAIN values' /\ values'[Of(i)] = BuildProcessProbeJson(found)
        BY <2>4, <3>1, <3>2, <3>4, <4>2
      <4>6. ASSUME NEW sub, NEW key, Copies(spec, step, sub, i, key)
            PROVE  /\ Of(step) \in DOMAIN values'
                   /\ values'[Of(step)] = DerivedValue(sub, op.args, values)
        <5>1. op.opName = <<"derive">> /\ TrimCopy(op.args[1]) = <<sub>>
          BY <4>6 DEF Copies
        <5>2. result = Derive(op.args, values)
          BY <5>1 DEF EvaluateOperation
        <5>3. result = Result(DerivedValue(sub, op.args, values))
          <6>1. PICK other : /\ TrimCopy(op.args[1]) = <<other>>
                             /\ result = Result(DerivedValue(other, op.args, values))
            BY <1>5, <5>2, DeriveOfOne
          <6> QED BY <5>1, <6>1, SameName
        <5>4. value = DerivedValue(sub, op.args, values)
          BY <5>3 DEF Result
        <5>5. op.fieldName = Of(step)
          OBVIOUS
        <5> HIDE DEF value, op
        <5> QED BY <2>1, <5>4, <5>5 DEF Put
      <4>7. \A sub, key : Copies(spec, step, sub, i, key) =>
               TrimCopy(op.args[2]) = Of(i) /\ TrimCopy(op.args[3]) = <<key>>
        BY DEF Copies
      <4>8. Copies(spec, step, "bool_from_obj", i, "running") =>
               Of(step) \in DOMAIN values' /\ values'[Of(step)] = Bool(found # <<>>)
        BY <4>2, <4>4, <4>6, <4>7, CopiesOfProbe
      <4>9. Copies(spec, step, "int_from_obj", i, "pid") =>
               /\ Of(step) \in DOMAIN values'
               /\ values'[Of(step)] = IF found = <<>> THEN Null ELSE Number(found[1])
        BY <4>2, <4>4, <4>6, <4>7, CopiesOfProbe
      <4>10. ASSUME NEW j \in 1..step
             PROVE  /\ Copies(spec, j, "bool_from_obj", i, "running") =>
                          Of(j) \in DOMAIN values' /\ values'[Of(j)] = Bool(found # <<>>)
                    /\ Copies(spec, j, "int_from_obj", i, "pid") =>
                          /\ Of(j) \in DOMAIN values'
                          /\ values'[Of(j)] = IF found = <<>> THEN Null ELSE Number(found[1])
        <5>1. CASE j = step
          BY <4>8, <4>9, <5>1
        <5>2. CASE j # step
          <6>1. j \in 1..(step - 1) /\ j \in 1..n
            BY <3>1, <5>2
          <6>2. \A sub, key : Copies(spec, j, sub, i, key) => SettersOf(spec, Of(j)) = {j}
            BY DEF Copies
          <6> QED BY <3>2, <4>3, <5>2, <6>1, <6>2
        <5> QED BY <5>1, <5>2
      <4>11. Found(i, found)'
        <5>1. 1..(step' - 1) = 1..step
          BY <2>1, <3>1
        <5> QED BY <1>2, <4>5, <4>10, <5>1 DEF Found
      <4> QED BY <4>11
    <3> QED BY <2>4, <3>1, <3>3, <3>4
  <2>5. ProbesAreKept'
    BY <1>2, <2>1, <2>4 DEF ProbesAreKept
  <2>6. ~Answered({"status.get"})'
    BY <1>2, <1>5, NotAnswered
  <2> QED BY <1>2, <1>3, <1>5, <2>2, <2>3, <2>5, <2>6 DEF StatusInv
<1> QED BY <1>1, <1>4, <1>5, ErrorReply DEF AnswerError

\* Every step preserves StatusInv.
LEMMA StatusNext == ASSUME StatusInv, [Next]_vars PROVE StatusInv'
<1>1. Shape'
  BY NextType DEF StatusInv
<1> QED
  BY <1>1, OthersKeepStatus, StatusGetStarts, EvaluateKeeps, PublishTells, ProcessKeeps,
     StutterKeeps DEF Next

\* StatusInv is an invariant.
LEMMA StatusAlways == Spec => []StatusInv
  BY StatusInit, StatusNext, PTL DEF Spec

\* Every status that is answered or published has the fields of the contract
\* and the types a client can rely on, whatever the spec names its fields and
\* whatever is in the files it reads.
THEOREM StatusAlwaysComplete == Spec => []StatusIsComplete
<1>1. StatusInv => StatusIsComplete
  <2> SUFFICES ASSUME StatusInv PROVE StatusIsComplete
    OBVIOUS
  <2>1. snapshot # None => spec # None /\ snapshot = Report /\ spec.appId = request.appId
    BY DEF StatusInv
  <2>2. Report.payload = PayloadOf(spec, values, fields) /\ Report.appId = request.appId
        /\ Report.path = SnapshotPath(profile, request.appId)
    BY DEF Report
  <2>3. snapshot # None => IsComplete(Report.payload, spec)
    BY <2>1, <2>2, PayloadIsComplete DEF StatusInv
  <2>4. Answered({"status.get"}) => snapshot # None /\ Body = snapshot.payload
    BY DEF StatusInv
  <2> QED BY <2>1, <2>2, <2>3, <2>4 DEF StatusIsComplete
<1> QED BY <1>1, StatusAlways, PTL

\* The pid a status reports is of a process that ran during the request, an
\* app is running only if a process did, and the two agree when one probe
\* found them.
THEOREM ReportedPidAlwaysRan == Spec => []ReportedPidRan
<1>1. StatusInv => ReportedPidRan
  <2> SUFFICES ASSUME StatusInv, Answered({"status.get"}), OnlyProbes(spec) PROVE ReportedPidRan
    BY DEF ReportedPidRan
  <2> DEFINE Flag(field) == JsonToBool(FieldOrDefault(values, field, Bool(FALSE)), FALSE)
             Pid(field)  == JsonToInt(FieldOrDefault(values, field, Null))
             running == At(Body, <<"running">>)
             pid     == At(Body, <<"pid">>)
  <2>1. /\ spec # None /\ Body = PayloadOf(spec, values, fields)
        /\ step \notin DOMAIN spec.operations
        /\ AreHonest(values, ran) /\ AreValues(values)
        /\ ran \in SUBSET (1..MaxInt)
    BY DEF StatusInv, Report, Shape, TypeOK
  <2>2. running = Bool(Flag(spec.runningField)) /\ pid = IntOrNull(Pid(spec.pidField))
    BY <2>1 DEF PayloadOf, RequiredField, RequiredNames, Obj, At, Contents
  <2>3. \A field : Flag(field) \in BOOLEAN /\ (Flag(field) => ran # {})
    <3>1. \A field : IsHonest(FieldOrDefault(values, field, Bool(FALSE)), ran)
      BY <2>1, MadeIsHonest DEF FieldOrDefault, AreHonest
    <3>2. \A field : Plain(FieldOrDefault(values, field, Bool(FALSE)))
      BY <2>1, MadeIsValue, ValueIsPlain DEF FieldOrDefault, AreValues
    <3> QED BY <3>1, <3>2, BoolOfPlain DEF IsHonest, Truthful
  <2>4. \A field : Pid(field) \in ran \cup {NoInt}
    BY <2>1, MadeIsHonest DEF FieldOrDefault, AreHonest, IsHonest, Truthful
  <2>5. pid # Null => Contents(pid) \in ran
    BY <2>2, <2>4 DEF IntOrNull, Number, Contents
  <2>6. \A b \in BOOLEAN : (Bool(b) = Bool(TRUE)) <=> b
    <3>1. Contents(Bool(TRUE)) = TRUE /\ Contents(Bool(FALSE)) = FALSE
      BY DEF Contents, Bool
    <3> QED BY <3>1
  <2>7. running = Bool(TRUE) => ran # {}
    BY <2>2, <2>3, <2>6
  <2>8. ASSUME NEW i \in ProbesOf(spec),
               SettersOf(spec, spec.operations[i].fieldName) = {i},
               Derives(spec, spec.runningField, "bool_from_obj", i, "running"),
               Derives(spec, spec.pidField, "int_from_obj", i, "pid")
        PROVE  running = Bool(TRUE) <=> pid # Null
    <3>0. PICK n \in Nat : DOMAIN spec.operations = 1..n /\ Len(spec.operations) = n
      BY <2>1 DEF StatusInv, Shape, IsSpec
    <3>1. step = n + 1
      BY <2>1, <3>0 DEF StatusInv, Shape, TypeOK
    <3>2. i < step
      BY <3>0, <3>1 DEF ProbesOf
    <3>3. PICK found \in Seq(ran) : Found(i, found)
      BY <2>1, <2>8, <3>2 DEF StatusInv, ProbesAreKept
    <3>4. PICK j \in 1..n : /\ spec.operations[j].fieldName = spec.runningField
                             /\ Copies(spec, j, "bool_from_obj", i, "running")
      BY <2>8, <3>0 DEF Derives, SettersOf
    <3>5. PICK k \in 1..n : /\ spec.operations[k].fieldName = spec.pidField
                             /\ Copies(spec, k, "int_from_obj", i, "pid")
      BY <2>8, <3>0 DEF Derives, SettersOf
    <3>6. j \in 1..(step - 1) /\ k \in 1..(step - 1)
      BY <3>1
    <3>7. spec.runningField \in DOMAIN values /\ values[spec.runningField] = Bool(found # <<>>)
      BY <3>3, <3>4, <3>6 DEF Found
    <3>8. /\ spec.pidField \in DOMAIN values
          /\ values[spec.pidField] = IF found = <<>> THEN Null ELSE Number(found[1])
      BY <3>3, <3>5, <3>6 DEF Found
    <3>9. Flag(spec.runningField) = (found # <<>>)
      <4>1. (found # <<>>) \in BOOLEAN
        OBVIOUS
      <4> QED BY <3>7, <4>1, Reads DEF FieldOrDefault
    <3>10. CASE found = <<>>
      <4>1. Pid(spec.pidField) = NoInt
        BY <3>8, <3>10, Reads DEF FieldOrDefault
      <4> HIDE DEF Flag, Pid, running, pid
      <4> QED BY <2>2, <2>6, <3>9, <3>10, <4>1 DEF IntOrNull
    <3>11. CASE found # <<>>
      <4>1. found[1] \in ran
        <5>1. 1 \in 1..Len(found)
          BY <3>11
        <5> QED BY <5>1, ElementOfSeq
      <4>2. found[1] \in Ints /\ found[1] \in Int
        <5>1. ran \subseteq 1..MaxInt
          BY <2>1
        <5>2. found[1] \in 1..MaxInt
          BY <4>1, <5>1, Zenon
        <5> QED BY <5>2 DEF Ints
      <4>3. Pid(spec.pidField) = found[1]
        BY <3>8, <3>11, <4>2, Reads DEF FieldOrDefault
      <4>4. IntOrNull(found[1]) # Null
        BY <4>2 DEF IntOrNull, Number, Null
      <4> HIDE DEF Flag, Pid, running, pid
      <4> QED BY <2>2, <2>6, <3>9, <3>11, <4>3, <4>4
    <3> QED BY <3>10, <3>11
  <2> QED BY <2>5, <2>7, <2>8 DEF ReportedPidRan
<1> QED BY <1>1, StatusAlways, PTL

-------------------------------------------------------------------------------
(* Replies.                                                                *)

\* The methods that run a command.
CommandMethods == {<<"config.get">>, <<"config.set">>, <<"action.invoke">>}

\* The invariant of a reply: the request is what the document says, it is
\* handled
\* only for an allowed app, and the reply fits.
ReplyInv ==
    /\ Shape
    /\ request # None => request = ParseRequestLine(document)
    /\ (pc = "handle" \/ spec # None \/ action # None) /\ request.method # <<"ping">> =>
          request.appId \in profile.allowedApps
    /\ action # None => request.method \in CommandMethods
    /\ pc = "answered" => ReplyFits

\* Obj makes an object.
LEMMA ObjIsObject == \A map : Is("object", Obj(map))
  BY DEF Is, Obj

\* The fields of a reply with a payload.
LEMMA OkReplyForm ==
    ASSUME NEW id, NEW body
    PROVE  LET answer == BuildOkResponse(id, body)
           IN  /\ IF id = <<>> THEN ~Has(answer, <<"id">>) ELSE At(answer, <<"id">>) = Str(id)
               /\ HasA("bool", answer, <<"ok">>)
               /\ Has(answer, <<"response">>) /\ ~Has(answer, <<"error">>)
  BY DEF BuildOkResponse, IdField, Has, HasA, Is, At, Contents, Obj, Bool

\* The fields of a reply with an error.
LEMMA ErrorReplyForm ==
    ASSUME NEW id, NEW code, NEW details
    PROVE  LET answer == BuildErrorResponse(id, code, details)
               error  == At(answer, <<"error">>)
           IN  /\ IF id = <<>> THEN ~Has(answer, <<"id">>) ELSE At(answer, <<"id">>) = Str(id)
               /\ HasA("bool", answer, <<"ok">>)
               /\ ~Has(answer, <<"response">>)
               /\ Contents(At(error, <<"code">>)) = <<code>>
               /\ At(error, <<"details">>) =
                     IF details \in DOMAIN Literals /\ Is("object", Literals[details])
                     THEN Literals[details] ELSE EmptyObject
  BY DEF BuildErrorResponse, IdField, Has, HasA, Is, At, Contents, Obj, Bool, Str

\* A payload that is an object makes a reply that fits.
LEMMA OkFits ==
    ASSUME NEW body, Is("object", body),
           request' = request, document' = document, request = ParseRequestLine(document),
           reply' = BuildOkResponse(request.id, body)
    PROVE  ReplyFits'
<1>1. request.id = RequestId(document')
  BY DEF ParseRequestLine
<1>2. Ok' /\ At(reply', <<"response">>) = body
  BY OkReply DEF Ok
<1>3. HasA("object", reply', <<"response">>)
  BY <1>2, OkReplyForm DEF HasA
<1> QED BY <1>1, <1>2, <1>3, OkReplyForm DEF ReplyFits

\* An error that is not about the document makes a reply that fits.
LEMMA ErrorFits ==
    ASSUME NEW code, code \notin {"E_BAD_ARG", "E_UNSUPPORTED_METHOD", "E_UNSUPPORTED_APP"}, NEW details,
           reply' = BuildErrorResponse(RequestId(document'), code, details)
    PROVE  ReplyFits'
<1>1. ~Ok'
  BY ErrorReply DEF Ok
<1>2. At(At(reply', <<"error">>), <<"details">>) =
         IF details \in DOMAIN Literals /\ Is("object", Literals[details]) THEN Literals[details] ELSE EmptyObject
  BY ErrorReplyForm
<1>3. Is("object", At(At(reply', <<"error">>), <<"details">>))
  BY <1>2, ObjIsObject DEF EmptyObject
<1>4. Contents(At(At(reply', <<"error">>), <<"code">>)) \notin
         {<<"E_BAD_ARG">>, <<"E_UNSUPPORTED_METHOD">>, <<"E_UNSUPPORTED_APP">>}
  BY ErrorReplyForm, SameName
<1> QED BY <1>1, <1>3, <1>4, ErrorReplyForm DEF ReplyFits

\* The details of an error about a name are read back as just that name.
LEMMA Escaped ==
    ASSUME NEW name, NEW key \in {"method", "appId"},
           \E text \in DOMAIN Literals : IsTextOf(text, Str(name))
    PROVE  IsTextOf(Details(key, JsonEscape(name)), Member(key, Str(name)))
<1> DEFINE quoted == Dump(Str(name))
<1>1. quoted \in DOMAIN Literals /\ Literals[quoted] = Str(name)
  BY DEF Dump, IsTextOf
<1>2. Is("string", Literals[quoted])
  BY <1>1 DEF Is, Str
<1>3. JsonEscape(name) = Unquoted(Dump(Literals[quoted]))
  BY <1>1 DEF JsonEscape
<1> HIDE DEF quoted
<1> QED BY <1>1, <1>2, <1>3, WireAssumption, Zenon

\* A method requires at most two parameters, by name.
LEMMA Params == \A method \in Methods :
    \E n \in 0..2 : DOMAIN RequiredParams[method] = 1..n /\ RequiredParams[method] \in [1..n -> ParamNames]
<1> TAKE method \in Methods
<1>1. CASE method = <<"ping">>
  BY <1>1 DEF RequiredParams, ParamNames
<1>2. CASE method = <<"config.set">>
  BY <1>2 DEF RequiredParams, ParamNames
<1>3. CASE method = <<"action.invoke">>
  BY <1>3 DEF RequiredParams, ParamNames
<1>4. CASE method = <<"action.job.get">>
  BY <1>4 DEF RequiredParams, ParamNames
<1>5. CASE method \notin {<<"ping">>, <<"config.set">>, <<"action.invoke">>, <<"action.job.get">>}
  BY <1>5 DEF RequiredParams, ParamNames
<1> QED BY <1>1, <1>2, <1>3, <1>4, <1>5

\* The parameter that is reported as missing is required and is not there.
LEMMA FirstMissing ==
    ASSUME NEW r, r.method \in Methods, MissingParams(r) # {}
    PROVE  LET name == RequiredParams[r.method][Min(MissingParams(r))]
           IN  name \in ParamNames /\ r[name] = <<>>
<1> DEFINE params == RequiredParams[r.method]
           missing == MissingParams(r)
<1>1. PICK n \in 0..2 : DOMAIN params = 1..n /\ params \in [1..n -> ParamNames]
  BY Params
<1>2. missing \subseteq 1..n /\ \A i \in missing : r[params[i]] = <<>>
  BY <1>1 DEF MissingParams
<1>3. \E i \in missing : \A j \in missing : i =< j
  <2>0. missing # {}
    OBVIOUS
  <2> HIDE DEF missing
  <2>1. PICK i \in missing : i \in 1..n
    BY <1>2, <2>0
  <2>2. CASE 1 \in missing
    BY <1>2, <2>1, <2>2
  <2>3. CASE 1 \notin missing
    BY <1>2, <2>0, <2>1, <2>3
  <2> QED BY <2>2, <2>3
<1>4. Min(missing) \in missing
  BY <1>3 DEF Min
<1> HIDE DEF missing, params
<1> QED BY <1>1, <1>2, <1>4 DEF missing, params

\* What Validation says of a request is true of its document.
LEMMA RefusalFits ==
    ASSUME NEW doc \in Documents, RequestIsValid(doc), document' = doc,
           request' = ParseRequestLine(doc), NEW apps,
           NEW refused, refused = Validation(request', apps), refused # NotRefused,
           reply' = BuildErrorResponse(request'.id, refused.code, refused.details),
           NoStatus', NoCommand'
    PROVE  ReplyFits'
<1> DEFINE method == StringOf(doc, <<"method">>)
           app == StringOf(ParamsOf(doc), <<"appId">>)
           error == At(reply', <<"error">>)
           details == At(error, <<"details">>)
<1>1. /\ request'.id = RequestId(document') /\ request'.method = method /\ request'.appId = app
      /\ \A name \in ParamNames : request'[name] = StringOf(ParamsOf(document'), <<name>>)
  BY DEF ParseRequestLine, ParamNames
<1>2. ~Ok'
  BY ErrorReply DEF Ok
<1>3. /\ Contents(At(error, <<"code">>)) = <<refused.code>>
      /\ \A value : IsTextOf(refused.details, value) /\ Is("object", value) => details = value
      /\ Is("object", details)
  BY ErrorReplyForm, ObjIsObject DEF IsTextOf, EmptyObject
<1>4. \A key, value : Is("object", Member(key, value)) /\ Contents(At(Member(key, Str(value)), <<key>>)) = value
  BY DEF Is, Obj, Member, At, Contents, Str
<1>5. \E text \in DOMAIN Literals : IsTextOf(text, Str(method))
  <2>1. doc # NotJson /\ HasA("string", doc, <<"method">>)
    BY DEF RequestIsValid
  <2>2. method \in NamesIn(doc)
    BY <2>1 DEF NamesIn, StringOf
  <2> QED BY <2>1, <2>2
<1>6. \E text \in DOMAIN Literals : IsTextOf(text, Str(app))
  <2>1. doc # NotJson
    BY DEF RequestIsValid
  <2>2. app \in NamesIn(doc)
    BY DEF NamesIn
  <2> QED BY <2>1, <2>2
<1> HIDE DEF method, app, error, details
<1>7. CASE method \notin Methods
  <2>1. refused.code = "E_UNSUPPORTED_METHOD" /\ refused.details = Details("method", JsonEscape(method))
    BY <1>1, <1>7 DEF Validation, Refused
  <2>2. details = Member("method", Str(method))
    BY <1>3, <1>4, <1>5, <2>1, Escaped
  <2>3. <<refused.code>> \notin {<<"E_UNSUPPORTED_APP">>, <<"E_BAD_ARG">>}
    BY <2>1
  <2> QED BY <1>1, <1>2, <1>3, <2>2, <2>3, ErrorReplyForm DEF ReplyFits, method, error, details
<1>8. CASE method \in Methods /\ MissingParams(request') # {}
  <2> DEFINE name == RequiredParams[method][Min(MissingParams(request'))]
  <2>1. refused.code = "E_BAD_ARG" /\ refused.details = Details("param", <<name>>)
    BY <1>1, <1>8 DEF Validation, Refused
  <2>2. name \in ParamNames /\ request'[name] = <<>>
    BY <1>1, <1>8, FirstMissing
  <2> HIDE DEF name
  <2>3. details = Member("param", Str(<<name>>))
    BY <1>3, <1>4, <2>1, <2>2, WireAssumption
  <2>4. Contents(At(details, <<"param">>)) = <<name>>
    BY <1>4, <2>3
  <2>5. StringOf(ParamsOf(document'), Contents(At(details, <<"param">>))) = <<>>
    BY <1>1, <2>2, <2>4
  <2>6. <<refused.code>> \notin {<<"E_UNSUPPORTED_APP">>, <<"E_UNSUPPORTED_METHOD">>}
    BY <2>1
  <2> QED BY <1>1, <1>2, <1>3, <2>5, <2>6, ErrorReplyForm DEF ReplyFits, error, details
<1>9. CASE method \in Methods /\ MissingParams(request') = {}
  <2>1. refused.code = "E_UNSUPPORTED_APP" /\ refused.details = Details("appId", JsonEscape(app))
    BY <1>1, <1>9 DEF Validation, Refused
  <2>2. details = Member("appId", Str(app))
    BY <1>3, <1>4, <1>6, <2>1, Escaped
  <2>3. <<refused.code>> \notin {<<"E_UNSUPPORTED_METHOD">>, <<"E_BAD_ARG">>}
    BY <2>1
  <2> QED BY <1>1, <1>2, <1>3, <2>2, <2>3, ErrorReplyForm DEF ReplyFits, app, error, details
<1> QED BY <1>7, <1>8, <1>9

\* A document that arrives is refused with a reply that fits it, or its
\* request may be handled.
LEMMA ReceiveAnswers == ASSUME ReplyInv, Shape', NEW doc \in Documents, Receive(doc) PROVE ReplyInv'
<1>1. /\ pc = "idle" /\ document' = doc /\ UNCHANGED profile
      /\ NoStatus' /\ NoCommand' /\ request = None
  BY DEF Receive, ReplyInv, Shape, TypeOK, NoTrace, NoStatus, NoCommand, status, command
<1>2. CASE ~RequestIsValid(doc)
  <2>1. /\ pc' = "answered" /\ request' = None
        /\ reply' = BuildErrorResponse(RequestId(doc), "E_BAD_ARG", NoDetails)
    BY <1>1, <1>2 DEF Receive, AnswerError
  <2>2. At(At(reply', <<"error">>), <<"details">>) = EmptyObject
    BY <2>1, ErrorReplyForm, WireAssumption DEF IsTextOf
  <2>3. Contents(At(At(reply', <<"error">>), <<"code">>)) = <<"E_BAD_ARG">> /\ ~Ok'
    BY <2>1, ErrorReplyForm, ErrorReply DEF Ok
  <2>4. ReplyFits'
    BY <1>1, <2>1, <2>2, <2>3, ErrorReplyForm, ObjIsObject DEF ReplyFits, EmptyObject
  <2> QED BY <1>1, <2>1, <2>4 DEF ReplyInv, NoStatus, NoCommand
<1>3. CASE RequestIsValid(doc)
  <2> DEFINE refused == Validation(request', profile.allowedApps)
  <2>1. /\ request' = ParseRequestLine(doc)
        /\ \/ refused = NotRefused /\ pc' = "handle"
           \/ /\ refused # NotRefused /\ pc' = "answered"
              /\ reply' = BuildErrorResponse(request'.id, refused.code, refused.details)
    BY <1>3 DEF Receive, AnswerError
  <2>2. CASE pc' = "answered"
    <3>1. ReplyFits'
      BY <1>1, <1>3, <2>1, <2>2, RefusalFits
    <3> QED BY <1>1, <2>1, <2>2, <3>1 DEF ReplyInv, NoStatus, NoCommand
  <2>3. CASE refused = NotRefused /\ pc' = "handle"
    <3>1. request'.method # <<"ping">> => request'.appId \in profile.allowedApps
      BY <2>3 DEF Validation, Refused, NotRefused
    <3> QED BY <1>1, <2>1, <2>3, <3>1 DEF ReplyInv, NoStatus, NoCommand
  <2> QED BY <2>1, <2>2, <2>3
<1> QED BY <1>2, <1>3

\* Init establishes ReplyInv.
LEMMA ReplyInit == Init => ReplyInv
  BY InitType DEF ReplyInv, Init, NoTrace, NoStatus, NoCommand, None

\* A reply that the handler of an accepted request gives.
Replies ==
    \/ \E body : Is("object", body) /\ reply' = BuildOkResponse(request.id, body)
    \/ \E code, details :
          /\ code \notin {"E_BAD_ARG", "E_UNSUPPORTED_METHOD", "E_UNSUPPORTED_APP"}
          /\ reply' = BuildErrorResponse(request.id, code, details)

\* What a handler replies fits.
LEMMA RepliesFit ==
    ASSUME UNCHANGED message, request = ParseRequestLine(document), Replies
    PROVE  ReplyFits'
<1>1. document' = document /\ request' = request /\ request.id = RequestId(document')
  BY DEF message, ParseRequestLine
<1>2. CASE \E body : Is("object", body) /\ reply' = BuildOkResponse(request.id, body)
  BY <1>1, <1>2, OkFits
<1>3. CASE \E code, details :
             /\ code \notin {"E_BAD_ARG", "E_UNSUPPORTED_METHOD", "E_UNSUPPORTED_APP"}
             /\ reply' = BuildErrorResponse(request.id, code, details)
  BY <1>1, <1>3, ErrorFits
<1> QED BY <1>2, <1>3 DEF Replies

\* A handler that only replies what fits preserves ReplyInv.
LEMMA HandlerAnswers ==
    ASSUME ReplyInv, Shape', UNCHANGED message, profile' = profile,
           pc' = "answered" => Replies, pc' # "handle",
           pc \in {"handle", "evaluate", "shell"},
           spec' # None => spec # None \/ pc = "handle",
           action' # None => action # None \/ (pc = "handle" /\ request.method \in CommandMethods)
    PROVE  ReplyInv'
<1>1. document' = document /\ request' = request /\ request # None
  BY DEF message, ReplyInv, Shape, TypeOK
<1>2. request = ParseRequestLine(document)
  BY <1>1 DEF ReplyInv
<1>3. pc' = "answered" => ReplyFits'
  BY <1>2, RepliesFit
<1> QED BY <1>1, <1>2, <1>3 DEF ReplyInv

\* An error code that is not about the document makes one of the replies of a
\* handler.
LEMMA HandlerAnswersError ==
    ASSUME NEW code, NEW details, AnswerError(request.id, code, details),
           code \notin {"E_BAD_ARG", "E_UNSUPPORTED_METHOD", "E_UNSUPPORTED_APP"}
    PROVE  Replies /\ pc' = "answered"
  BY DEF AnswerError, Replies

\* A payload that is an object makes one of the replies of a handler.
LEMMA HandlerAnswersOk ==
    ASSUME NEW body, Is("object", body), Answer(body)
    PROVE  Replies /\ pc' = "answered"
  BY DEF Answer, Replies

\* No error of a status is about the document.
LEMMA IpcCodes == \A code :
    ToIpcErrorCode(code) \notin {"E_BAD_ARG", "E_UNSUPPORTED_METHOD", "E_UNSUPPORTED_APP"}
  BY DEF ToIpcErrorCode

\* Steps that neither handle a document nor reply preserve ReplyInv.
LEMMA StartKeepsReply ==
    ASSUME ReplyInv, Shape', (\E file \in Profiles : Start(file)) \/ SendReply \/ UNCHANGED vars
                     \/ \E pid \in Pids : ProcessStarts(pid) \/ ProcessEnds(pid)
    PROVE  ReplyInv'
<1>1. CASE \E file \in Profiles : Start(file)
  BY <1>1
     DEF Start, ReplyInv, Shape, TypeOK, NoTrace, NoStatus, NoCommand, status, command, message, None
<1>2. CASE SendReply
  BY <1>2 DEF SendReply, ReplyInv, None
<1>3. CASE UNCHANGED vars \/ \E pid \in Pids : ProcessStarts(pid) \/ ProcessEnds(pid)
  <2>1. UNCHANGED <<pc, profile, document, request, reply, spec, step, values, fields, snapshot,
                    action, line, given, ending, output>>
    BY <1>3 DEF vars, ProcessStarts, ProcessEnds, status, command, message
  <2>2. ReplyFits' = ReplyFits
    BY <2>1 DEF ReplyFits, Ok, NoStatus, NoCommand
  <2> QED BY <2>1, <2>2 DEF ReplyInv
<1> QED BY <1>1, <1>2, <1>3

\* ping preserves ReplyInv.
LEMMA PingAnswers == ASSUME ReplyInv, Shape', Ping PROVE ReplyInv'
<1>1. Is("object", PingBody)
  BY ObjIsObject DEF PingBody
<1>2. /\ pc = "handle" /\ UNCHANGED message /\ profile' = profile
      /\ spec' = spec /\ action' = action
      /\ Replies /\ pc' = "answered"
  BY <1>1, HandlerAnswersOk DEF Ping, Handles, status, command
<1> QED BY <1>2, HandlerAnswers

\* action.list preserves ReplyInv.
LEMMA ActionListAnswers == ASSUME ReplyInv, Shape', ActionList PROVE ReplyInv'
<1>1. Is("object", PublicActions(Catalog))
  BY ObjIsObject DEF PublicActions
<1>2. Replies /\ pc' = "answered"
  BY <1>1, HandlerAnswersOk, HandlerAnswersError DEF ActionList
<1>3. /\ pc = "handle" /\ UNCHANGED message /\ profile' = profile
      /\ spec' = spec /\ action' = action
  BY DEF ActionList, Handles, status, command
<1> QED BY <1>2, <1>3, HandlerAnswers

\* status.get preserves ReplyInv.
LEMMA StatusGetAnswers == ASSUME ReplyInv, Shape', StatusGet PROVE ReplyInv'
<1> DEFINE app == request.appId
           file == ReadTextFile(Disk, SpecPath(profile, app))
           code == LoadStatusSpec(file, app)
<1>1. /\ pc = "handle" /\ UNCHANGED message /\ profile' = profile /\ action' = action
  BY DEF StatusGet, Handles, command
<1>2. \/ pc' = "evaluate"
      \/ pc' = "terminated"
      \/ pc' = "answered" /\ Replies
  <2> HIDE DEF code, file
  <2>1. CASE code = "kNone"
    BY <2>1 DEF StatusGet, code, file
  <2>2. CASE code = "throws"
    BY <2>2 DEF StatusGet, Throw, code, file
  <2>3. CASE code \notin {"kNone", "throws"}
    <3>1. AnswerError(request.id, ToIpcErrorCode(code), NoDetails)
      BY <2>3 DEF StatusGet, code, file
    <3> QED BY <3>1, IpcCodes, HandlerAnswersError
  <2> QED BY <2>1, <2>2, <2>3
<1> HIDE DEF code, file
<1> QED BY <1>1, <1>2, HandlerAnswers

\* Each operation of a spec preserves ReplyInv.
LEMMA EvaluateAnswers == ASSUME ReplyInv, Shape', Evaluate PROVE ReplyInv'
<1>1. PICK seen \in Seen :
         LET result == EvaluateOperation(spec.operations[step], values, seen)
         IN  \/ UNCHANGED <<pc, reply>>
             \/ AnswerError(request.id, ToIpcErrorCode(result.code), NoDetails)
  BY DEF Evaluate
<1>2. pc' = pc \/ (pc' = "answered" /\ Replies)
  BY <1>1, IpcCodes, HandlerAnswersError
<1>3. /\ pc = "evaluate" /\ UNCHANGED message /\ profile' = profile
      /\ spec' = spec /\ action' = action
  BY DEF Evaluate, command
<1> QED BY <1>2, <1>3, HandlerAnswers

\* The answer to a status.get preserves ReplyInv.
LEMMA PublishAnswers == ASSUME ReplyInv, Shape', Publish PROVE ReplyInv'
<1>1. Is("object", PayloadOf(spec, values, fields))
  BY ObjIsObject DEF PayloadOf
<1>2. \/ Answer(PayloadOf(spec, values, fields))
      \/ AnswerError(request.id, ToIpcErrorCode("kSnapshotWriteFailed"), NoDetails)
  BY DEF Publish
<1>3. Replies /\ pc' = "answered"
  BY <1>1, <1>2, IpcCodes, HandlerAnswersOk, HandlerAnswersError
<1>4. /\ pc = "evaluate" /\ UNCHANGED message /\ profile' = profile
      /\ spec' = spec /\ action' = action
  BY DEF Publish, command
<1> QED BY <1>3, <1>4, HandlerAnswers

\* The body of a reply about a command is an object if the payload is.
LEMMA BodyIsObject ==
    ASSUME NEW r, r.method \in CommandMethods, NEW result, Is("object", result.payload)
    PROVE  Is("object", BodyOf(r, result))
<1>1. /\ Is("object", ConfigGetFallback(result))
      /\ Is("object", BuildConfigSetFallbackPayload(r, result))
      /\ Is("object", JobRecord(result))
  BY ObjIsObject DEF ConfigGetFallback, BuildConfigSetFallbackPayload, JobRecord
<1> QED BY <1>1 DEF BodyOf, CommandMethods

\* The payload of a result is the one it was made with.
LEMMA ResultIsObject ==
    \A rc, error, payload, text :
        /\ Failed(rc, error, payload, text).payload = payload
        /\ Succeeded(payload, text).payload = payload
  BY DEF Failed, Succeeded

\* A command that is not launched is replied to.
LEMMA NotLaunchedAnswers ==
    ASSUME NEW error, NotLaunched(error), request.method \in CommandMethods
    PROVE  Replies /\ pc' = "answered"
<1>1. Is("object", BodyOf(request, Failed(2, error, EmptyObject, <<>>)))
  BY BodyIsObject, ResultIsObject, ObjIsObject DEF EmptyObject
<1> QED BY <1>1, HandlerAnswersOk DEF NotLaunched

\* config.get, config.set and action.invoke preserve ReplyInv up to the
\* launch.
LEMMA InvokeAnswers == ASSUME ReplyInv, Shape', Invoke PROVE ReplyInv'
<1>1. request.method \in CommandMethods
  BY DEF Invoke, Handles, CommandMethods
<1>2. \/ AnswerError(request.id, "E_INTERNAL", NoDetails) /\ UNCHANGED action
      \/ (\E error : NotLaunched(error)) /\ UNCHANGED action
      \/ pc' = "shell"
  BY DEF Invoke, Run
<1>3. pc' = "shell" \/ (pc' = "answered" /\ Replies)
  BY <1>1, <1>2, NotLaunchedAnswers, HandlerAnswersError
<1>4. /\ pc = "handle" /\ UNCHANGED message /\ profile' = profile /\ spec' = spec
  BY DEF Invoke, Handles, status
<1> QED BY <1>1, <1>3, <1>4, HandlerAnswers

\* Whatever becomes of a command, the reply about it preserves ReplyInv.
LEMMA CommandAnswers ==
    ASSUME ReplyInv, Shape',
           LaunchFails \/ LaunchDetached \/ \E end \in Endings, out \in Outputs : CommandEnds(end, out)
    PROVE  ReplyInv'
<1>1. /\ pc = "shell" /\ UNCHANGED message /\ profile' = profile
      /\ spec' = spec /\ action' = action
  BY DEF LaunchFails, LaunchDetached, CommandEnds, status, command
<1>2. request.method \in CommandMethods
  BY <1>1 DEF ReplyInv, Shape, TypeOK
<1>3. CASE LaunchFails
  BY <1>1, <1>2, <1>3, NotLaunchedAnswers, HandlerAnswers DEF LaunchFails
<1>4. CASE LaunchDetached
  <2>0. Is("object", Succeeded(DetachedPayload, <<>>).payload)
    <3>1. Is("object", DetachedPayload)
      BY ObjIsObject DEF DetachedPayload
    <3> HIDE DEF DetachedPayload
    <3> QED BY <3>1, ResultIsObject, Zenon
  <2>1. Is("object", BodyOf(request, Succeeded(DetachedPayload, <<>>)))
    BY <1>2, <2>0, BodyIsObject
  <2>2. Replies /\ pc' = "answered"
    BY <1>4, <2>1, HandlerAnswersOk DEF LaunchDetached
  <2> QED BY <1>1, <2>2, HandlerAnswers
<1>5. CASE \E end \in Endings, out \in Outputs : CommandEnds(end, out)
  <2>1. PICK end \in Endings, out \in Outputs : CommandEnds(end, out)
    BY <1>5
  <2> DEFINE rc      == DecodeExitCode(RawStatus(end))
             payload == CompactObjectJson(TryExtractFirstJsonObject(Printed(out)))
             result  == IF rc = 0 THEN Succeeded(payload, Printed(out))
                        ELSE Failed(rc, <<"action_failed">>, payload, Printed(out))
  <2>2. Conclude(request, result)
    BY <2>1 DEF CommandEnds
  <2>3. Is("object", payload)
    BY ObjIsObject DEF CompactObjectJson, EmptyObject
  <2> HIDE DEF payload, rc
  <2>4. Is("object", result.payload)
    BY <2>3, ResultIsObject
  <2> HIDE DEF result
  <2>5. pc' = "terminated" \/ (pc' = "answered" /\ Replies)
    BY <1>2, <2>2, <2>4, BodyIsObject, HandlerAnswersOk DEF Conclude, Throw
  <2> QED BY <1>1, <2>5, HandlerAnswers
<1> QED BY <1>3, <1>4, <1>5

\* Every step preserves ReplyInv.
LEMMA ReplyNext == ASSUME ReplyInv, [Next]_vars PROVE ReplyInv'
<1>1. Shape'
  BY NextType DEF ReplyInv
<1> QED
  BY <1>1, StartKeepsReply, ReceiveAnswers, PingAnswers, StatusGetAnswers, EvaluateAnswers,
     PublishAnswers, ActionListAnswers, InvokeAnswers, CommandAnswers DEF Next

\* Every reply carries the id of its document, has one of the two forms, names
\* what it complains about as it was written, and goes with nothing done if it
\* says so; nothing but a ping is handled for an app that is not allowed.
THEOREM RepliesAlwaysFit == Spec => []RepliesFitDocuments
<1>1. ReplyInv => RepliesFitDocuments
  <2> SUFFICES ASSUME ReplyInv PROVE RepliesFitDocuments
    OBVIOUS
  <2>1. spec # None \/ action # None => request.method # <<"ping">>
    BY DEF ReplyInv, Shape, TypeOK, CommandMethods
  <2> QED BY <2>1 DEF ReplyInv, RepliesFitDocuments
<1> QED BY <1>1, ReplyInit, ReplyNext, PTL DEF Spec

-------------------------------------------------------------------------------
(* Results.                                                                *)

\* The invariant of results: a command that is not run yet has not ended, and
\* a reply says what became of it.
ResultInv ==
    /\ ReplyInv
    /\ pc = "shell" => ending = None /\ output = None
    /\ ResultsTellWhatHappened

\* What is printed as an object is what is read.
LEMMA PrintedIsRead ==
    ASSUME NEW out \in Outputs, PrintsObject(out)
    PROVE  CompactObjectJson(TryExtractFirstJsonObject(Printed(out))) = ObjectIn(out)
<1>1. /\ OfSymbols(out.before) /\ OfSymbols(out.after) /\ OfSymbols(out.object)
      /\ \A i \in DOMAIN out.object : OfSymbols(out.object[i])
      /\ IsObjectText(out.object)
      /\ FlattenSeq(out.object) \in DOMAIN Literals => Is("object", Literals[FlattenSeq(out.object)])
  BY OutputsAssumption, Zenon DEF PrintsObject
<1>2. IsText(out.before) /\ IsText(out.after) /\ \A i \in DOMAIN out.object : IsText(out.object[i])
  BY <1>1, Zenon DEF OfSymbols, IsText
<1>3. AreTexts(out.object)
  <2> DEFINE parts == out.object
             n == Len(parts)
  <2>1. parts \in Seq(ToSet(parts))
    BY <1>1, Zenon DEF OfSymbols
  <2> HIDE DEF parts
  <2>2. n \in Nat /\ parts = [i \in 1..n |-> parts[i]] /\ DOMAIN parts = 1..n
    BY <2>1
  <2>3. \A i \in 1..n : IsText(parts[i])
    BY <1>2, <2>2, Zenon DEF parts
  <2> HIDE DEF n
  <2>4. AreTexts(parts)
    BY <2>2, <2>3, AreTextsIf
  <2> QED BY <2>4 DEF parts
<1>4. Opening \notin ToSet(out.before)
  BY Zenon DEF PrintsObject, Opening
<1>5. TryExtractFirstJsonObject(out.before \o FlattenSeq(out.object) \o out.after) = FlattenSeq(out.object)
  BY <1>1, <1>2, <1>3, <1>4, FirstObjectIsFound
<1> QED BY <1>1, <1>5, Zenon DEF Printed, CompactObjectJson, ObjectIn

\* An exit code is 0 just if the program exits with 0.
LEMMA ExitCodes ==
    ASSUME NEW end \in Endings
    PROVE  DecodeExitCode(RawStatus(end)) = 0 <=> end \in {<<"exited", 0>>, <<"detached">>}
<1>1. CASE \E n \in 0..255 : end = <<"exited", n>>
  <2>1. PICK n \in 0..255 : end = <<"exited", n>>
    BY <1>1
  <2>2. RawStatus(end) = 256 * n
    BY <2>1 DEF RawStatus
  <2>3. 256 * n # -1 /\ (256 * n) % 128 = 0 /\ ((256 * n) \div 256) % 256 = n
    OBVIOUS
  <2>4. DecodeExitCode(256 * n) = n
    BY <2>3 DEF DecodeExitCode
  <2>5. end \in {<<"exited", 0>>, <<"detached">>} <=> n = 0
    BY <2>1
  <2> QED BY <2>2, <2>4, <2>5
<1>2. CASE \E s \in 1..126 : end = <<"signaled", s>>
  <2>1. PICK s \in 1..126 : end = <<"signaled", s>>
    BY <1>2
  <2>2. RawStatus(end) = s
    BY <2>1 DEF RawStatus
  <2>3. s # -1 /\ s % 128 = s /\ s # 0 /\ s # 127
    OBVIOUS
  <2>4. DecodeExitCode(s) = 128 + s
    BY <2>3 DEF DecodeExitCode
  <2>5. end \notin {<<"exited", 0>>, <<"detached">>}
    BY <2>1
  <2> QED BY <2>2, <2>4, <2>5
<1>3. CASE end = <<"lost">>
  <2>1. RawStatus(end) = -1
    BY <1>3 DEF RawStatus
  <2>2. DecodeExitCode(-1) = -1
    BY DEF DecodeExitCode
  <2>3. end \notin {<<"exited", 0>>, <<"detached">>}
    BY <1>3
  <2> QED BY <2>1, <2>2, <2>3
<1> QED BY <1>1, <1>2, <1>3, EndingsAssumption

\* A body that says to a request for r that its command went well, and one that
\* says it did not.
SaysSuccess(r, body, payload) ==
    /\ r.method = <<"action.invoke">> =>
          /\ At(body, <<"state">>) = Str(<<"succeeded">>) /\ At(body, <<"error">>) = Null
          /\ At(body, <<"result">>) = payload
    /\ r.method = <<"config.get">> => body = payload
    /\ r.method = <<"config.set">> =>
          body = payload \/ (payload = EmptyObject /\ At(body, <<"ok">>) = Bool(TRUE))

SaysFailure(r, body, payload) ==
    /\ r.method = <<"action.invoke">> =>
          /\ At(body, <<"state">>) # Str(<<"succeeded">>) /\ At(body, <<"error">>) # Null
          /\ At(body, <<"result">>) = payload
    /\ r.method = <<"config.get">> => At(body, <<"valid">>) = Bool(FALSE)
    /\ r.method = <<"config.set">> => At(body, <<"ok">>) = Bool(FALSE)

\* The body of a reply about a command that went well.
LEMMA SuccessBody ==
    ASSUME NEW r, NEW payload, NEW text
    PROVE  SaysSuccess(r, BodyOf(r, Succeeded(payload, text)), payload)
<1> DEFINE result == Succeeded(payload, text)
<1>1. result.ok = TRUE /\ result.rc = 0 /\ result.payload = payload
  BY DEF Succeeded
<1> HIDE DEF result
<1>2. /\ At(JobRecord(result), <<"state">>) = Str(<<"succeeded">>)
      /\ At(JobRecord(result), <<"error">>) = Null
      /\ At(JobRecord(result), <<"result">>) = payload
  BY <1>1 DEF JobRecord, At, Contents, Obj
<1>3. At(BuildConfigSetFallbackPayload(r, result), <<"ok">>) = Bool(TRUE)
  BY <1>1 DEF BuildConfigSetFallbackPayload, At, Contents, Obj
<1>4. r.method = <<"action.invoke">> => BodyOf(r, result) = JobRecord(result)
  BY DEF BodyOf
<1>5. r.method = <<"config.get">> => BodyOf(r, result) = payload
  BY <1>1 DEF BodyOf
<1>6. r.method = <<"config.set">> =>
         BodyOf(r, result) = IF payload # EmptyObject THEN payload ELSE BuildConfigSetFallbackPayload(r, result)
  BY <1>1 DEF BodyOf
<1>7. SaysSuccess(r, BodyOf(r, result), payload)
  BY <1>2, <1>3, <1>4, <1>5, <1>6 DEF SaysSuccess
<1> QED BY <1>7 DEF result

\* The body of a reply about one that did not.
LEMMA FailureBody ==
    ASSUME NEW r, NEW rc, rc # 0, NEW error, NEW payload, NEW text
    PROVE  SaysFailure(r, BodyOf(r, Failed(rc, error, payload, text)), payload)
<1> DEFINE result == Failed(rc, error, payload, text)
<1>1. result.ok = FALSE /\ result.rc = rc /\ result.payload = payload /\ result.error = error
  BY DEF Failed
<1> HIDE DEF result
<1>2. /\ At(JobRecord(result), <<"state">>) = Str(<<"failed">>)
      /\ At(JobRecord(result), <<"error">>) = Str(error)
      /\ At(JobRecord(result), <<"result">>) = payload
  BY <1>1 DEF JobRecord, At, Contents, Obj
<1>3. Str(<<"failed">>) # Str(<<"succeeded">>) /\ Str(error) # Null
  BY DEF Str, Null
<1>4. At(BuildConfigSetFallbackPayload(r, result), <<"ok">>) = Bool(FALSE)
  BY <1>1 DEF BuildConfigSetFallbackPayload, At, Contents, Obj
<1>5. At(ConfigGetFallback(result), <<"valid">>) = Bool(FALSE)
  BY DEF ConfigGetFallback, At, Contents, Obj
<1>6. r.method = <<"action.invoke">> => BodyOf(r, result) = JobRecord(result)
  BY DEF BodyOf
<1>7. r.method = <<"config.get">> => BodyOf(r, result) = ConfigGetFallback(result)
  BY <1>1 DEF BodyOf
<1>8. r.method = <<"config.set">> => BodyOf(r, result) = BuildConfigSetFallbackPayload(r, result)
  BY <1>1 DEF BodyOf
<1>9. SaysFailure(r, BodyOf(r, result), payload)
  BY <1>2, <1>3, <1>4, <1>5, <1>6, <1>7, <1>8 DEF SaysFailure
<1> QED BY <1>9 DEF result

\* The reply about a command that went well says so.
LEMMA SuccessIsTold ==
    ASSUME request' = request, request.method \in CommandMethods, NEW payload, NEW text,
           reply' = BuildOkResponse(request.id, BodyOf(request, Succeeded(payload, text))),
           RanWell', PrintsObject(output') => payload = ObjectIn(output')
    PROVE  ResultsTellWhatHappened'
<1> DEFINE body == BodyOf(request, Succeeded(payload, text))
<1>1. Body' = body
  BY OkReply DEF Body
<1>2. SaysSuccess(request', Body', payload)
  BY <1>1, SuccessBody, Zenon
<1>3. request'.method \in CommandMethods
  OBVIOUS
<1>4. CASE request'.method = <<"action.invoke">>
  BY ONLY RanWell', PrintsObject(output') => payload = ObjectIn(output'), <1>2, <1>4
     DEF ResultsTellWhatHappened, SaysSuccess
<1>5. CASE request'.method = <<"config.get">>
  BY ONLY RanWell', PrintsObject(output') => payload = ObjectIn(output'), <1>2, <1>5
     DEF ResultsTellWhatHappened, SaysSuccess
<1>6. CASE request'.method = <<"config.set">>
  BY ONLY RanWell', PrintsObject(output') => payload = ObjectIn(output'), <1>2, <1>6
     DEF ResultsTellWhatHappened, SaysSuccess
<1> QED BY <1>3, <1>4, <1>5, <1>6 DEF CommandMethods

\* So does the reply about one that did not.
LEMMA FailureIsTold ==
    ASSUME request' = request, request.method \in CommandMethods, NEW rc, rc # 0, NEW error, NEW payload, NEW text,
           reply' = BuildOkResponse(request.id, BodyOf(request, Failed(rc, error, payload, text))),
           ~RanWell', PrintsObject(output') => payload = ObjectIn(output')
    PROVE  ResultsTellWhatHappened'
<1> DEFINE body == BodyOf(request, Failed(rc, error, payload, text))
<1>1. Body' = body
  BY OkReply DEF Body
<1>2. SaysFailure(request', Body', payload)
  BY <1>1, FailureBody
<1>3. request'.method \in CommandMethods
  OBVIOUS
<1>4. CASE request'.method = <<"action.invoke">>
  BY ONLY ~RanWell', PrintsObject(output') => payload = ObjectIn(output'), <1>2, <1>4
     DEF ResultsTellWhatHappened, SaysFailure
<1>5. CASE request'.method = <<"config.get">>
  BY ONLY ~RanWell', PrintsObject(output') => payload = ObjectIn(output'), <1>2, <1>5
     DEF ResultsTellWhatHappened, SaysFailure
<1>6. CASE request'.method = <<"config.set">>
  BY ONLY ~RanWell', PrintsObject(output') => payload = ObjectIn(output'), <1>2, <1>6
     DEF ResultsTellWhatHappened, SaysFailure
<1> QED BY <1>3, <1>4, <1>5, <1>6 DEF CommandMethods

\* Other replies say nothing of a command.
LEMMA NothingIsTold ==
    ASSUME \/ pc' # "answered"
           \/ At(reply', <<"ok">>) # Bool(TRUE)
           \/ request'.method \notin CommandMethods
    PROVE  ResultsTellWhatHappened'
  BY DEF ResultsTellWhatHappened, Answered, Ok, CommandMethods

\* A command that is not launched has not run well, and has printed nothing.
LEMMA NotLaunchedIsTold ==
    ASSUME NEW error, NotLaunched(error), request' = request, request.method \in CommandMethods,
           ending' = None, output' = None
    PROVE  ResultsTellWhatHappened'
<1>1. ~RanWell' /\ ~PrintsObject(output')
  BY DEF RanWell, PrintsObject, None
<1>2. reply' = BuildOkResponse(request.id, BodyOf(request, Failed(2, error, EmptyObject, <<>>)))
  BY DEF NotLaunched, Answer
<1> QED BY <1>1, <1>2, FailureIsTold

\* Up to the launch.
LEMMA InvokeTells ==
    ASSUME ResultInv, Invoke PROVE ResultsTellWhatHappened' /\ ending' = None /\ output' = None
<1>1. pc = "handle" /\ request.method \in CommandMethods /\ request' = request /\ UNCHANGED <<ending, output>>
  BY DEF Invoke, Handles, CommandMethods, message
<1>2. ending' = None /\ output' = None
  BY <1>1 DEF ResultInv, ReplyInv, Shape, TypeOK, NoCommand
<1>3. \/ AnswerError(request.id, "E_INTERNAL", NoDetails)
      \/ \E error : NotLaunched(error)
      \/ pc' = "shell"
  BY DEF Invoke, Run
<1>4. CASE AnswerError(request.id, "E_INTERNAL", NoDetails)
  BY <1>2, <1>4, ErrorReply, NothingIsTold DEF AnswerError
<1>5. CASE \E error : NotLaunched(error)
  BY <1>1, <1>2, <1>5, NotLaunchedIsTold
<1>6. CASE pc' = "shell"
  BY <1>2, <1>6, NothingIsTold
<1> QED BY <1>3, <1>4, <1>5, <1>6

\* A detached command that is launched has succeeded.
LEMMA DetachedTells == ASSUME ResultInv, LaunchDetached PROVE ResultsTellWhatHappened'
<1>1. /\ pc = "shell" /\ request' = request /\ ending' = <<"detached">> /\ output' = output
      /\ reply' = BuildOkResponse(request.id, BodyOf(request, Succeeded(DetachedPayload, <<>>)))
  BY DEF LaunchDetached, Answer, message
<1>2. request.method \in CommandMethods
  BY <1>1 DEF ResultInv, ReplyInv, Shape, TypeOK
<1>3. RanWell' /\ ~PrintsObject(output')
  BY <1>1 DEF ResultInv, RanWell, PrintsObject
<1> HIDE DEF DetachedPayload
<1> QED BY <1>1, <1>2, <1>3, SuccessIsTold

\* What a command's end and its output mean, the reply says.
LEMMA EndTells ==
    ASSUME ResultInv, NEW end \in Endings, NEW out \in Outputs, CommandEnds(end, out)
    PROVE  ResultsTellWhatHappened'
<1> DEFINE rc      == DecodeExitCode(RawStatus(end))
           text    == Printed(out)
           payload == CompactObjectJson(TryExtractFirstJsonObject(text))
           result  == IF rc = 0 THEN Succeeded(payload, text)
                      ELSE Failed(rc, <<"action_failed">>, payload, text)
<1>1. /\ pc = "shell" /\ request' = request /\ ending' = end /\ output' = out
      /\ Conclude(request, result)
  BY DEF CommandEnds, message
<1>2. request.method \in CommandMethods
  BY <1>1 DEF ResultInv, ReplyInv, Shape, TypeOK
<1>3. RanWell' <=> rc = 0
  BY <1>1, ExitCodes DEF RanWell
<1>4. PrintsObject(output') => payload = ObjectIn(output')
  BY <1>1, PrintedIsRead
<1> HIDE DEF rc, text, payload
<1>5. pc' # "answered" \/ reply' = BuildOkResponse(request.id, BodyOf(request, result))
  BY <1>1 DEF Conclude, Throw, Answer
<1>6. CASE pc' # "answered"
  BY <1>6, NothingIsTold
<1>7. CASE reply' = BuildOkResponse(request.id, BodyOf(request, result)) /\ rc = 0
  BY <1>1, <1>2, <1>3, <1>4, <1>7, SuccessIsTold
<1>8. CASE reply' = BuildOkResponse(request.id, BodyOf(request, result)) /\ rc # 0
  BY <1>1, <1>2, <1>3, <1>4, <1>8, FailureIsTold
<1> QED BY <1>5, <1>6, <1>7, <1>8

\* The other steps reply nothing about a command.
LEMMA OthersTellNothing ==
    ASSUME ResultInv, Shape',
           \/ \E file \in Profiles : Start(file)
           \/ \E doc \in Documents : Receive(doc)
           \/ Ping \/ StatusGet \/ Evaluate \/ Publish \/ ActionList \/ SendReply
           \/ \E pid \in Pids : ProcessStarts(pid) \/ ProcessEnds(pid)
    PROVE  ResultsTellWhatHappened' /\ pc' # "shell"
<1>1. CASE \/ \E file \in Profiles : Start(file)
           \/ SendReply
           \/ \E pid \in Pids : ProcessStarts(pid) \/ ProcessEnds(pid)
  <2>1. pc' \notin {"answered", "shell"}
    BY <1>1 DEF Start, SendReply, ProcessStarts, ProcessEnds, Observed
  <2> QED BY <2>1, NothingIsTold
<1>2. CASE \E doc \in Documents : Receive(doc)
  <2>1. pc' # "shell" /\ (pc' # "answered" \/ At(reply', <<"ok">>) # Bool(TRUE))
    BY <1>2, ErrorReply DEF Receive, AnswerError
  <2> QED BY <2>1, NothingIsTold
<1>3. CASE Ping \/ StatusGet \/ Evaluate \/ Publish \/ ActionList
  <2>1. request' = request /\ pc' # "shell"
    BY <1>3 DEF Ping, StatusGet, Evaluate, Publish, ActionList, Answer, AnswerError, Throw, message
  <2>2. request.method \notin CommandMethods
    <3>1. CASE Ping \/ StatusGet \/ ActionList
      BY <3>1 DEF Ping, StatusGet, ActionList, Handles, CommandMethods
    <3>2. CASE Evaluate \/ Publish
      BY <3>2 DEF Evaluate, Publish, ResultInv, ReplyInv, Shape, TypeOK, CommandMethods
    <3> QED BY <1>3, <3>1, <3>2
  <2> QED BY <2>1, <2>2, NothingIsTold
<1> QED BY <1>1, <1>2, <1>3

\* Every step preserves ResultInv.
LEMMA ResultNext == ASSUME ResultInv, [Next]_vars PROVE ResultInv'
<1>1. ReplyInv' /\ Shape'
  BY ReplyNext DEF ResultInv, ReplyInv
<1>2. CASE Invoke
  BY <1>1, <1>2, InvokeTells DEF ResultInv
<1>3. CASE LaunchFails
  <2>1. /\ pc = "shell" /\ request' = request /\ UNCHANGED <<ending, output>>
        /\ NotLaunched(<<"action_launch_failed">>) /\ pc' # "shell"
    BY <1>3 DEF LaunchFails, NotLaunched, Answer, message, command
  <2>2. request.method \in CommandMethods /\ ending' = None /\ output' = None
    BY <2>1 DEF ResultInv, ReplyInv, Shape, TypeOK
  <2> QED BY <1>1, <2>1, <2>2, NotLaunchedIsTold DEF ResultInv
<1>4. CASE LaunchDetached
  <2>1. pc' # "shell"
    BY <1>4 DEF LaunchDetached, Answer
  <2> QED BY <1>1, <1>4, <2>1, DetachedTells DEF ResultInv
<1>5. CASE \E end \in Endings, out \in Outputs : CommandEnds(end, out)
  <2>1. pc' # "shell"
    BY <1>5 DEF CommandEnds, Conclude, Throw, Answer
  <2> QED BY <1>1, <1>5, <2>1, EndTells DEF ResultInv
<1>6. CASE UNCHANGED vars
  <2>1. UNCHANGED <<pc, request, reply, ending, output>>
    BY <1>6 DEF vars, message, command
  <2>2. ResultsTellWhatHappened' = ResultsTellWhatHappened
    BY <2>1 DEF ResultsTellWhatHappened, Answered, Ok, Body, RanWell
  <2> QED BY <1>1, <2>1, <2>2 DEF ResultInv
<1>7. CASE \/ \E file \in Profiles : Start(file)
           \/ \E doc \in Documents : Receive(doc)
           \/ Ping \/ StatusGet \/ Evaluate \/ Publish \/ ActionList \/ SendReply
           \/ \E pid \in Pids : ProcessStarts(pid) \/ ProcessEnds(pid)
  BY <1>1, <1>7, OthersTellNothing DEF ResultInv
<1> QED BY <1>2, <1>3, <1>4, <1>5, <1>6, <1>7 DEF Next

\* Whatever a command prints and however it ends, the reply says what became of
\* it, and shows the object that was printed.
THEOREM ResultsAlwaysTell == Spec => []ResultsTellWhatHappened
<1>1. Init => ResultInv
  BY ReplyInit DEF Init, ResultInv, ResultsTellWhatHappened, Answered
<1>2. ResultInv => ResultsTellWhatHappened
  BY DEF ResultInv
<1> QED BY <1>1, <1>2, ResultNext, PTL DEF Spec

-------------------------------------------------------------------------------
(* Arguments.                                                              *)

\* The invariant of arguments: a request is what a valid document says, a
\* config.set has a key, and the line that is handed to the shell is read as
\* what the action means.
ArgsInv ==
    /\ ReplyInv
    /\ request # None => document \in Documents /\ RequestIsValid(document)
    /\ pc = "handle" /\ request.method = <<"config.set">> => request.key # <<>>
    /\ pc = "shell" => ending = None /\ AreMeant(action, ShellReads(line))
    /\ ArgumentsArriveWhole

\* An entry of a catalog is made of text.
LEMMA EntryIsText ==
    \A i \in DOMAIN Catalog : Catalog[i].command \in Seq(DOMAIN Meaning) /\ OfSymbols(Catalog[i].cwd)
<1> DEFINE path == CatalogPath(profile, request.appId)
<1>1. Catalog = LoadActionCatalog(ReadTextFile(Disk, path))
  BY DEF Catalog
<1> HIDE DEF path
<1>2. CASE path \in DOMAIN Disk
  BY <1>1, <1>2, CatalogAssumption, Zenon DEF ReadTextFile
<1>3. CASE path \notin DOMAIN Disk
  <2>1. LoadActionCatalog(Missing) = <<>>
    BY DEF LoadActionCatalog, IsObjectFile
  <2>2. DOMAIN <<>> = {}
    OBVIOUS
  <2> QED BY <1>1, <1>3, <2>1, <2>2, Zenon DEF ReadTextFile
<1> QED BY <1>2, <1>3

\* Nothing is in an empty object.
LEMMA NothingInEmpty == ~Has(EmptyObject, <<"key">>) /\ DOMAIN Contents(EmptyObject) = {}
  BY DEF Has, EmptyObject, Obj, Contents

\* What is passed to a command as an argument is what the client sent, a text.
LEMMA ArgsAreSent ==
    ASSUME ArgsInv, pc = "handle", request.method \in CommandMethods
    PROVE  \A name \in DOMAIN ArgsOf(request) :
              ArgsOf(request)[name] = Sent(name) /\ IsText(ArgsOf(request)[name])
<1>1. /\ request = ParseRequestLine(document) /\ document \in Documents /\ RequestIsValid(document)
      /\ request.method = <<"config.set">> => request.key # <<>>
  BY DEF ArgsInv, ReplyInv, Shape, TypeOK
<1>2. /\ OfSymbols(request.key) /\ OfSymbols(request.value)
      /\ \A name \in DOMAIN ParseArgsObject(request.args) : OfSymbols(ParseArgsObject(request.args)[name])
  BY <1>1, ArgumentsAssumption, Zenon
<1> DEFINE params == ParamsOf(document)
<1>3. /\ request.key = StringOf(params, <<"key">>)
      /\ request.value = IF Has(params, <<"value">>) THEN AsText(At(params, <<"value">>)) ELSE <<>>
      /\ request.args = IF Has(params, <<"args">>) THEN At(params, <<"args">>) ELSE EmptyObject
  BY <1>1 DEF ParseRequestLine
<1>4. params = At(document, <<"params">>) \/ params = EmptyObject
  BY DEF ParamsOf
<1> HIDE DEF params
<1>5. CASE request.method = <<"config.get">>
  <2>0. <<"config.get">> # <<"config.set">> /\ <<"config.get">> # <<"action.invoke">>
    BY SameName
  <2>1. ArgsOf(request) = <<>>
    BY <1>5, <2>0 DEF ArgsOf
  <2> QED BY <2>1
<1>6. CASE request.method = <<"config.set">>
  <2>0. <<"config.set">> # <<"config.get">> /\ <<"config.set">> # <<"action.invoke">> /\ <<"key">> # <<"value">>
    BY SameName
  <2>1. ArgsOf(request) = [name \in {<<"key">>, <<"value">>} |-> IF name = <<"key">> THEN request.key ELSE request.value]
    BY <1>6, <2>0 DEF ArgsOf
  <2>2. HasA("string", params, <<"key">>) /\ request.key = Contents(At(params, <<"key">>))
    BY <1>1, <1>3, <1>6 DEF StringOf
  <2>3. params = At(document, <<"params">>)
    BY <1>4, <2>2, NothingInEmpty DEF HasA
  <2>4. \A name : Sent(name) = IF Has(params, name) THEN AsText(At(params, name)) ELSE <<>>
    BY <1>6, <2>0, <2>3 DEF Sent
  <2>5. Has(params, <<"key">>) /\ AsText(At(params, <<"key">>)) = request.key
    BY <2>2, Zenon DEF HasA, AsText
  <2>6. Sent(<<"key">>) = request.key /\ Sent(<<"value">>) = request.value
    BY <1>3, <2>4, <2>5, Zenon
  <2>7. IsText(request.key) /\ IsText(request.value)
    BY <1>2, Zenon DEF OfSymbols, IsText
  <2> QED BY <2>0, <2>1, <2>6, <2>7
<1>7. CASE request.method = <<"action.invoke">>
  <2>0. <<"action.invoke">> # <<"config.get">> /\ <<"action.invoke">> # <<"config.set">>
    BY SameName
  <2>1. ArgsOf(request) = ParseArgsObject(request.args)
    BY <1>7, <2>0, Zenon DEF ArgsOf
  <2>2. ASSUME NEW name \in DOMAIN ParseArgsObject(request.args)
        PROVE  ParseArgsObject(request.args)[name] = Sent(name)
    <3>1. /\ name \in DOMAIN Contents(request.args)
          /\ ParseArgsObject(request.args)[name] = ArgText(Contents(request.args)[name])
      BY DEF ParseArgsObject
    <3>2. request.args = At(params, <<"args">>) /\ Has(params, <<"args">>)
      BY <1>3, <3>1, NothingInEmpty
    <3>3. params = At(document, <<"params">>)
      BY <1>4, <3>2, NothingInEmpty DEF Has
    <3>4. Sent(name) = ArgText(At(At(params, <<"args">>), name))
      BY <1>7, <2>0, <3>3, Zenon DEF Sent
    <3> QED BY <3>1, <3>2, <3>4, Zenon DEF At
  <2>3. \A name \in DOMAIN ParseArgsObject(request.args) : IsText(ParseArgsObject(request.args)[name])
    BY <1>2, Zenon DEF OfSymbols, IsText
  <2> QED BY <2>1, <2>2, <2>3
<1> QED BY <1>5, <1>6, <1>7 DEF CommandMethods

\* The name in a piece that is an argument is the name of an argument that was given.
LEMMA ArgIsGiven ==
    ASSUME NEW parts, NEW args, ~LacksArgs(parts, args), NEW k \in DOMAIN parts,
           NEW pieces, IsMeaning(parts[k], pieces), NEW i \in 1..Len(pieces), IsArg(pieces, i)
    PROVE  TrimCopy(pieces[i][2]) \in DOMAIN args
<1> DEFINE token == parts[k]
           a == Before(pieces, i)
           b == Len(UpTo(Spelling(pieces), i))
<1>1. DOMAIN pieces = 1..Len(pieces)
  BY PiecesAreThere
<1>2. PlaceOf(pieces, i) \in Matches(token)
  BY <1>1, Zenon DEF IsMeaning, IsArg
<1>3. ArgName(token, PlaceOf(pieces, i)) \in DOMAIN args
  BY <1>2, Zenon DEF LacksArgs
<1>4. a = Before(pieces, i) /\ b = Len(UpTo(Spelling(pieces), i)) /\ IsMeaning(token, pieces)
  OBVIOUS
<1> HIDE DEF a, b, token
<1>5. ArgName(token, PlaceOf(pieces, i)) = TrimCopy(pieces[i][2])
  BY <1>4, PieceIs
<1> QED BY <1>3, <1>5

\* The command is what the entry means.
LEMMA CommandIsMeant ==
    ASSUME NEW entry, entry.command \in Seq(DOMAIN Meaning), NEW args, ~LacksArgs(entry.command, args),
           \A name \in DOMAIN args : args[name] = Sent(name) /\ IsText(args[name])
    PROVE  /\ AreTexts(RenderCommand(entry.command, args))
           /\ Len(RenderCommand(entry.command, args)) = Len(entry.command)
           /\ DOMAIN Meant(entry) = 1..Len(entry.command)
           /\ \A k \in 1..Len(entry.command) : RenderCommand(entry.command, args)[k] = Meant(entry)[k]
<1> DEFINE parts == entry.command
           n == Len(parts)
           Pieces(k) == Meaning[parts[k]]
           Value(k, i) == ValueOf(Pieces(k)[i], args)
           Stands(piece) == IF piece[1] = "text" THEN piece[2] ELSE Sent(TrimCopy(piece[2]))
<1>1. n \in Nat /\ DOMAIN parts = 1..n /\ \A k \in 1..n : parts[k] \in DOMAIN Meaning
  OBVIOUS
<1>2. \A token \in DOMAIN Meaning : IsMeaning(token, Meaning[token])
  BY CatalogAssumption, Zenon
<1> HIDE DEF parts, n
<1>3. ASSUME NEW k \in 1..n
      PROVE  DOMAIN Pieces(k) = 1..Len(Pieces(k)) /\
             \A i \in 1..Len(Pieces(k)) : Value(k, i) = Stands(Pieces(k)[i]) /\ IsText(Value(k, i))
  <2>1. IsMeaning(parts[k], Pieces(k)) /\ k \in DOMAIN parts
    BY <1>1, <1>2
  <2> HIDE DEF Pieces
  <2>2. /\ DOMAIN Pieces(k) = 1..Len(Pieces(k))
        /\ \A i \in 1..Len(Pieces(k)) : IsText(Pieces(k)[i][2]) /\ Pieces(k)[i][1] \in {"text", "arg"}
    BY <2>1, PiecesAreThere
  <2>3. ASSUME NEW i \in 1..Len(Pieces(k))
        PROVE  Value(k, i) = Stands(Pieces(k)[i]) /\ IsText(Value(k, i))
    <3>1. CASE Pieces(k)[i][1] = "text"
      BY <2>2, <3>1 DEF ValueOf
    <3>2. CASE IsArg(Pieces(k), i)
      <4>1. TrimCopy(Pieces(k)[i][2]) \in DOMAIN args
        BY <2>1, <3>2, ArgIsGiven DEF parts
      <4>2. Pieces(k)[i][1] # "text"
        BY <3>2 DEF IsArg
      <4> QED BY <4>1, <4>2, Zenon DEF ValueOf
    <3> QED BY <2>2, <3>1, <3>2 DEF IsArg
  <2> QED BY <2>2, <2>3
<1>4. /\ AreTexts(RenderCommand(parts, args)) /\ Len(RenderCommand(parts, args)) = n
      /\ \A k \in 1..n : RenderCommand(parts, args)[k] = FlattenSeq([i \in DOMAIN Pieces(k) |-> Value(k, i)])
  <2>1. parts \in Seq(DOMAIN Meaning)
    BY DEF parts
  <2>2. \A k \in DOMAIN parts : \A i \in 1..Len(Meaning[parts[k]]) :
           IsText(ValueOf(Meaning[parts[k]][i], args))
    BY <1>1, <1>3
  <2>3. /\ AreTexts(RenderCommand(parts, args)) /\ Len(RenderCommand(parts, args)) = Len(parts)
        /\ \A k \in DOMAIN parts :
              RenderCommand(parts, args)[k] =
                FlattenSeq([i \in DOMAIN Meaning[parts[k]] |-> ValueOf(Meaning[parts[k]][i], args)])
    BY ONLY <1>2, <2>1, <2>2, CommandIsRendered
  <2> QED BY <1>1, <2>3, Zenon DEF n
<1>5. Meant(entry) = [k \in 1..n |-> FlattenSeq([i \in DOMAIN Pieces(k) |-> Stands(Pieces(k)[i])])]
  BY <1>1, Zenon DEF Meant, parts
<1>6. \A k \in 1..n : [i \in DOMAIN Pieces(k) |-> Stands(Pieces(k)[i])] = [i \in DOMAIN Pieces(k) |-> Value(k, i)]
  BY <1>3
<1>7. \A k \in 1..n : RenderCommand(parts, args)[k] = Meant(entry)[k]
  BY <1>4, <1>5, <1>6
<1> QED BY <1>1, <1>4, <1>5, <1>7 DEF parts, n

\* The line that is made of it is read as what the entry means.
LEMMA LineIsMeant ==
    ASSUME NEW entry, entry.command \in Seq(DOMAIN Meaning), OfSymbols(entry.cwd),
           NEW args, ~LacksArgs(entry.command, args),
           \A name \in DOMAIN args : args[name] = Sent(name) /\ IsText(args[name]),
           NEW made, made = ApplyPythonScriptFallback(
                                RenderCommand(entry.command, args), ResolveActionCwd(entry.cwd), Disk)
    PROVE  AreMeant(entry, ShellReads(BuildShellCommand(made)))
<1> DEFINE rendered == RenderCommand(entry.command, args)
           cwd == ResolveActionCwd(entry.cwd)
           n == Len(entry.command)
           meant == Meant(entry)
<1>1. /\ AreTexts(rendered) /\ Len(rendered) = n /\ DOMAIN meant = 1..n
      /\ \A k \in 1..n : rendered[k] = meant[k]
  BY CommandIsMeant
<1>2. IsText(cwd)
  BY CatalogAssumption, CwdIsText
<1>3. n \in Nat
  OBVIOUS
<1>4. made = ApplyPythonScriptFallback(rendered, cwd, Disk)
  OBVIOUS
<1> HIDE DEF rendered, cwd, n
<1>5. /\ AreTexts(made) /\ Len(made) = n
      /\ \A k \in 1..n :
           \/ made[k] = rendered[k]
           \/ /\ k = 2
              /\ Exists(Disk, made[2])
              /\ IsSuffix(<<"/">> \o TrimCopy(rendered[2]) \o <<".", "py">>, made[2])
  BY <1>1, <1>2, <1>4, ScriptIsFound
<1> HIDE DEF meant
<1>6. \A k \in 1..n :
           \/ made[k] = meant[k]
           \/ /\ k = 2
              /\ Exists(Disk, made[2])
              /\ IsSuffix(<<"/">> \o TrimCopy(meant[2]) \o <<".", "py">>, made[2])
  BY <1>1, <1>5
<1>7. SUFFICES ASSUME "=" \in ToSet(meant[1]) => NeedsQuotingPosix(meant[1])
               PROVE  ShellReads(BuildShellCommand(made)) = made
  <2>1. Len(meant) = n
    BY <1>1, <1>3
  <2> QED BY <1>1, <1>5, <1>6, <2>1, Zenon DEF AreMeant, meant
<1>8. made # <<>> => made[1] = meant[1]
  <2>1. made # <<>> => n >= 1
    <3>1. PICK S : made \in Seq(S)
      BY <1>5 DEF AreTexts
    <3> QED BY <1>5, <3>1
  <2>2. n >= 1 => 1 \in 1..n /\ 1 # 2
    BY <1>3
  <2> QED BY <1>6, <2>1, <2>2, Zenon
<1>9. made # <<>> /\ (\E i \in DOMAIN made[1] : made[1][i] = "=") => NeedsQuotingPosix(made[1])
  BY <1>7, <1>8, Zenon DEF ToSet
<1> QED BY <1>5, <1>9, ShellReadsWhatIsBuilt

\* What the arguments mean does not change while the request does not.
LEMMA MeaningStays ==
    ASSUME document' = document, request' = request
    PROVE  /\ AreMeant(action, ShellReads(line))' <=> AreMeant(action', ShellReads(line'))
           /\ AreMeant(action, given)' <=> AreMeant(action', given')
  BY DEF AreMeant, Meant, Sent

\* A step that leaves a command alone leaves its arguments alone.
LEMMA ArgumentsStay ==
    ASSUME ArgsInv, UNCHANGED <<document, request, action, given, ending>>
    PROVE  ArgumentsArriveWhole'
<1>1. SUFFICES ASSUME ending' # None PROVE AreMeant(action, given)'
  BY DEF ArgumentsArriveWhole
<1>2. AreMeant(action, given)
  BY <1>1 DEF ArgsInv, ArgumentsArriveWhole
<1>3. AreMeant(action', given')
  BY <1>2, Zenon
<1> QED BY <1>3, MeaningStays

\* A document that is received.
LEMMA ReceiveKeepsArgs ==
    ASSUME ArgsInv, ReplyInv', NEW doc \in Documents, Receive(doc) PROVE ArgsInv'
<1>1. /\ pc = "idle" /\ document' = doc /\ ending' = None /\ pc' # "shell"
  BY DEF Receive, ArgsInv, ReplyInv, Shape, TypeOK, NoTrace, NoCommand, command, AnswerError
<1>2. ArgumentsArriveWhole'
  BY <1>1 DEF ArgumentsArriveWhole
<1>3. request' # None => RequestIsValid(doc)
  BY <1>1 DEF Receive, ArgsInv, ReplyInv, Shape, TypeOK, NoTrace
<1>4. ASSUME pc' = "handle", request'.method = <<"config.set">> PROVE request'.key # <<>>
  <2>1. Validation(request', profile.allowedApps) = NotRefused
    BY <1>4 DEF Receive, AnswerError
  <2>2. MissingParams(request') = {}
    BY <2>1 DEF Validation, NotRefused, Refused
  <2>3. RequiredParams[<<"config.set">>] = <<"appId", "key">>
    <3>1. <<"config.set">> \in Methods /\ <<"config.set">> # <<"ping">>
      BY SameName DEF Methods
    <3> QED BY <3>1 DEF RequiredParams
  <2>4. 2 \in DOMAIN <<"appId", "key">> /\ <<"appId", "key">>[2] = "key"
    OBVIOUS
  <2> QED BY <1>4, <2>2, <2>3, <2>4 DEF MissingParams
<1> QED BY <1>1, <1>2, <1>3, <1>4 DEF ArgsInv

\* Up to the launch.
LEMMA InvokeKeepsArgs == ASSUME ArgsInv, ReplyInv', Invoke PROVE ArgsInv'
<1>1. /\ pc = "handle" /\ request.method \in CommandMethods /\ document' = document /\ request' = request
      /\ ending' = ending
  BY DEF Invoke, Handles, CommandMethods, message
<1>2. ending' = None
  BY <1>1 DEF ArgsInv, ReplyInv, Shape, TypeOK, NoCommand
<1>3. \/ pc' = "answered"
      \/ pc' = "shell" /\ \E i \in DOMAIN Catalog : Run(Catalog[i], ArgsOf(request))
  BY DEF Invoke, NotLaunched, Answer, AnswerError, Run
<1>4. ArgumentsArriveWhole'
  BY <1>2 DEF ArgumentsArriveWhole
<1>5. CASE pc' = "answered"
  BY <1>1, <1>4, <1>5 DEF ArgsInv
<1>6. CASE pc' = "shell" /\ \E i \in DOMAIN Catalog : Run(Catalog[i], ArgsOf(request))
  <2>1. PICK i \in DOMAIN Catalog : Run(Catalog[i], ArgsOf(request))
    BY <1>6
  <2> DEFINE entry == Catalog[i]
             args == ArgsOf(request)
             made == ApplyPythonScriptFallback(
                         RenderCommand(entry.command, args), ResolveActionCwd(entry.cwd), Disk)
  <2>2. /\ ~LacksArgs(entry.command, args) /\ action' = entry /\ line' = BuildShellCommand(made)
    BY <2>1 DEF Run
  <2>3. entry.command \in Seq(DOMAIN Meaning) /\ OfSymbols(entry.cwd)
    BY EntryIsText
  <2>4. \A name \in DOMAIN args : args[name] = Sent(name) /\ IsText(args[name])
    BY <1>1, ArgsAreSent
  <2> HIDE DEF entry, args
  <2>5. AreMeant(entry, ShellReads(BuildShellCommand(made)))
    BY <2>2, <2>3, <2>4, LineIsMeant
  <2> HIDE DEF made
  <2>6. AreMeant(action', ShellReads(line'))
    BY <2>2, <2>5, Zenon
  <2> QED BY <1>1, <1>2, <1>4, <1>6, <2>6, MeaningStays DEF ArgsInv
<1> QED BY <1>3, <1>5, <1>6

\* The program is run.
LEMMA CommandKeepsArgs ==
    ASSUME ArgsInv, ReplyInv',
           LaunchFails \/ LaunchDetached \/ \E end \in Endings, out \in Outputs : CommandEnds(end, out)
    PROVE  ArgsInv'
<1>1. /\ pc = "shell" /\ pc' \notin {"handle", "shell"} /\ document' = document /\ request' = request
      /\ action' = action /\ (given' = ShellReads(line) \/ ending' = ending)
  BY DEF LaunchFails, LaunchDetached, CommandEnds, NotLaunched, Answer, Conclude, Throw, message, command
<1>2. ending = None /\ AreMeant(action, ShellReads(line))
  BY <1>1 DEF ArgsInv
<1>3. ArgumentsArriveWhole'
  <2>1. CASE given' = ShellReads(line)
    <3>1. AreMeant(action', given')
      BY <1>1, <1>2, <2>1, Zenon
    <3>2. AreMeant(action, given)'
      BY <1>1, <3>1, MeaningStays
    <3> QED BY <3>2 DEF ArgumentsArriveWhole
  <2>2. CASE ending' = ending
    BY <1>2, <2>2 DEF ArgumentsArriveWhole
  <2> QED BY <1>1, <2>1, <2>2
<1> QED BY <1>1, <1>3 DEF ArgsInv

\* The other steps leave it all as it is.
LEMMA OthersKeepArgs ==
    ASSUME ArgsInv, ReplyInv',
           \/ \E file \in Profiles : Start(file)
           \/ Ping \/ StatusGet \/ Evaluate \/ Publish \/ ActionList
           \/ \E pid \in Pids : ProcessStarts(pid) \/ ProcessEnds(pid)
    PROVE  ArgsInv'
<1>1. /\ UNCHANGED <<document, request, action, given, ending>> /\ pc' \notin {"handle", "shell"}
  BY DEF Start, Ping, StatusGet, Evaluate, Publish, ActionList, ProcessStarts, ProcessEnds, Observed,
         Answer, AnswerError, Throw, message, command
<1>2. ArgumentsArriveWhole'
  BY <1>1, ArgumentsStay
<1> QED BY <1>1, <1>2 DEF ArgsInv

\* Every step preserves ArgsInv.
LEMMA ArgsNext == ASSUME ArgsInv, [Next]_vars PROVE ArgsInv'
<1>1. ReplyInv'
  BY ReplyNext DEF ArgsInv
<1>2. CASE \E doc \in Documents : Receive(doc)
  BY <1>1, <1>2, ReceiveKeepsArgs
<1>3. CASE Invoke
  BY <1>1, <1>3, InvokeKeepsArgs
<1>4. CASE LaunchFails \/ LaunchDetached \/ \E end \in Endings, out \in Outputs : CommandEnds(end, out)
  BY <1>1, <1>4, CommandKeepsArgs
<1>5. CASE SendReply
  <2>1. request' = None /\ ending' = None /\ pc' = "idle"
    BY <1>5 DEF SendReply
  <2>2. ArgumentsArriveWhole'
    BY <2>1 DEF ArgumentsArriveWhole
  <2> QED BY <1>1, <2>1, <2>2 DEF ArgsInv
<1>6. CASE UNCHANGED vars
  <2>1. UNCHANGED <<pc, document, request, action, line, given, ending>>
    BY <1>6 DEF vars, message, command
  <2>2. ArgumentsArriveWhole'
    BY <2>1, ArgumentsStay
  <2>3. AreMeant(action, ShellReads(line))' <=> AreMeant(action, ShellReads(line))
    BY <2>1, MeaningStays
  <2> QED BY <1>1, <2>1, <2>2, <2>3 DEF ArgsInv
<1>7. CASE \/ \E file \in Profiles : Start(file)
           \/ Ping \/ StatusGet \/ Evaluate \/ Publish \/ ActionList
           \/ \E pid \in Pids : ProcessStarts(pid) \/ ProcessEnds(pid)
  BY <1>1, <1>7, OthersKeepArgs
<1> QED BY <1>2, <1>3, <1>4, <1>5, <1>6, <1>7 DEF Next

\* Whatever a caller sends, the program that an action runs receives exactly the
\* arguments that the action means, each one whole.
THEOREM ArgumentsAlwaysArriveWhole == Spec => []ArgumentsArriveWhole
<1>1. Init => ArgsInv
  BY ReplyInit DEF Init, NoTrace, NoCommand, ArgsInv, ArgumentsArriveWhole
<1>2. ArgsInv => ArgumentsArriveWhole
  BY DEF ArgsInv
<1> QED BY <1>1, <1>2, ArgsNext, PTL DEF Spec

-------------------------------------------------------------------------------
(* Paths.                                                                  *)

\* A template with the repository in it.
Rooted(template) == Filled(template, "repoRoot", RepoRoot)

\* What a template is, and which names it has.
IsTemplate(template, names) ==
    IsText(template) /\ \A name \in names : HasToken(template, name)

\* A profile that was loaded.
IsLoaded(p) ==
    \E file \in Profiles : ProfileIsValid(file) /\ p = LoadHostProfile(file)

PathsInv == Shape /\ (profile # None => IsLoaded(profile))

\* The placeholders of apps and jobs outlast the one of the repository.
LEMMA RootedIs ==
    ASSUME NEW template, IsText(template)
    PROVE  /\ IsText(Rooted(template))
           /\ \A name : name # "repoRoot" /\ name # Opening /\ HasToken(template, name) =>
                 HasToken(Rooted(template), name)
<1>1. IsText(RepoRoot)
  BY CatalogAssumption, Zenon DEF OfSymbols, IsText
<1>2. IsText(Filled(template, "repoRoot", RepoRoot))
  BY <1>1, FilledIsText
<1>3. ASSUME NEW name, name # "repoRoot", name # Opening, HasToken(template, name)
      PROVE  HasToken(Filled(template, "repoRoot", RepoRoot), name)
  BY <1>1, <1>3, NamesAre, TokenStays
<1> QED BY <1>2, <1>3, Zenon DEF Rooted

\* How a path is made.
LEMMA ResolveIs ==
    \A p, key, app, job : Resolve(p, key, app, job) = WithNames(Rooted(p.pathTemplates[key]), app, job)
  BY Zenon DEF Resolve, RenderTemplate, WithNames, Rooted, Filled

\* What a profile says that was loaded.
LEMMA LoadedIs ==
    ASSUME NEW p, IsLoaded(p)
    PROVE  /\ \A app \in p.allowedApps : IsText(app) /\ app # <<>>
           /\ \A key \in {"statusSpec", "statusSnapshot", "actionCatalog"} :
                 IsTemplate(p.pathTemplates[key], {"repoRoot", "appId"})
           /\ IsTemplate(p.pathTemplates["actionJob"], {"repoRoot", "appId", "jobId"})
<1>1. PICK file \in Profiles : ProfileIsValid(file) /\ p = LoadHostProfile(file)
  BY Zenon DEF IsLoaded
<1>2. /\ p.allowedApps = AllowedApps(file)
      /\ \A key \in DOMAIN RequiredTokens :
            p.pathTemplates[key] = Contents(At(At(file, <<"paths">>), <<key>>))
  BY <1>1 DEF LoadHostProfile
<1>3. \A app \in AllowedApps(file) : app # <<>>
  BY DEF AllowedApps
<1>4. /\ \A app \in p.allowedApps : OfSymbols(app)
      /\ \A key \in DOMAIN RequiredTokens : OfSymbols(p.pathTemplates[key])
  BY <1>1, PathsAssumption, Zenon
<1>5. \A text : OfSymbols(text) => IsText(text)
  BY Zenon DEF OfSymbols, IsText
<1>6. \A key \in DOMAIN RequiredTokens : TemplateIsValid(At(file, <<"paths">>), key)
  BY <1>1, Zenon DEF ProfileIsValid
<1>7. \A key \in DOMAIN RequiredTokens : IsTemplate(p.pathTemplates[key], RequiredTokens[key])
  BY <1>2, <1>4, <1>5, <1>6, Zenon DEF TemplateIsValid, IsTemplate
<1>8. /\ \A key \in {"statusSpec", "statusSnapshot", "actionCatalog"} :
            key \in DOMAIN RequiredTokens /\ RequiredTokens[key] = {"repoRoot", "appId"}
      /\ "actionJob" \in DOMAIN RequiredTokens
      /\ RequiredTokens["actionJob"] = {"repoRoot", "appId", "jobId"}
  BY DEF RequiredTokens
<1>9. \A app \in p.allowedApps : IsText(app) /\ app # <<>>
  BY <1>2, <1>3, <1>4, <1>5
<1>10. ASSUME NEW key \in {"statusSpec", "statusSnapshot", "actionCatalog"}
       PROVE  IsTemplate(p.pathTemplates[key], {"repoRoot", "appId"})
  <2>1. key \in DOMAIN RequiredTokens /\ RequiredTokens[key] = {"repoRoot", "appId"}
    BY <1>8, Zenon
  <2>2. IsTemplate(p.pathTemplates[key], RequiredTokens[key])
    BY <1>7, <2>1, Zenon
  <2> QED BY <2>1, <2>2, Zenon
<1>11. IsTemplate(p.pathTemplates["actionJob"], {"repoRoot", "appId", "jobId"})
  BY <1>7, <1>8, Zenon
<1> QED BY <1>9, <1>10, <1>11, Zenon

\* A name that has no sign of a placeholder puts none into a template.
LEMMA PlainIsName ==
    ASSUME NEW app, IsText(app), app # <<>>, ToSet(app) \cap {"{", "}", "jobId"} = {}
    PROVE  IsName(app)
<1>1. DOMAIN app = 1..Len(app)
  BY FirstSymbols
<1>2. \A i \in 1..Len(app) : app[i] \in ToSet(app)
  BY <1>1, Zenon DEF ToSet
<1>3. \A c \in ToSet(app) : c \notin {"{", "}", "jobId"}
  BY Zenon
<1>4. \A c : c \notin {"{", "}", "jobId"} => c # Opening /\ c # Closing /\ c # "jobId"
  BY Zenon DEF Opening, Closing
<1> QED BY <1>2, <1>3, <1>4, Zenon DEF IsName

\* Two apps do not share a file that is each app's own.
LEMMA AppsApart ==
    ASSUME NEW template, IsTemplate(template, {"repoRoot", "appId"}),
           NEW apps, \A app \in apps : IsName(app)
    PROVE  IsInjective([app \in apps |-> WithNames(Rooted(template), app, <<>>)])
<1> DEFINE text == Rooted(template)
<1>1. IsText(text) /\ HasToken(text, "appId")
  BY RootedIs, NamesAre DEF IsTemplate
<1> HIDE DEF text
<1>2. IsText(<<>>)
  BY TextFacts
<1>3. ASSUME NEW a \in apps, NEW b \in apps, Len(a) <= Len(b),
             WithNames(text, a, <<>>) = WithNames(text, b, <<>>)
      PROVE  a = b
  BY <1>1, <1>2, <1>3, NameTells
<1>4. \A a, b \in apps : Len(a) <= Len(b) \/ Len(b) <= Len(a)
  <2>1. \A a \in apps : Len(a) \in Nat
    BY FirstSymbols DEF IsName
  <2> QED BY <2>1
<1>5. \A a, b \in apps : WithNames(text, a, <<>>) = WithNames(text, b, <<>>) => a = b
  BY <1>3, <1>4
<1> QED BY <1>5 DEF IsInjective, text

\* Where a name ends.
LEMMA ShownEnds ==
    ASSUME NEW template, IsText(template), NEW name, NEW texts, ShowsEnd(template, name, texts)
    PROVE  \E ends : /\ Ends(Rooted(template), name, ends) /\ Opening \notin ends
                     /\ \A value \in texts : IsText(value) => Lacks(value, ends)
<1> DEFINE text == Rooted(template)
           ends == {"/", "."} \ UNION {ToSet(value) : value \in texts}
<1>1. IsText(text)
  BY RootedIs
<1>2. DOMAIN text = 1..Len(text)
  BY <1>1, FirstSymbols
<1>3. \A i \in DOMAIN text : OccursAt(text, Placeholder(name), i) =>
          i + 2 = Len(text) \/ text[i + 3] \in ends
  BY Zenon DEF ShowsEnd, Rooted, Filled
<1>4. Opening \notin ends
  BY Zenon DEF Opening
<1>5. ASSUME NEW value \in texts, IsText(value) PROVE Lacks(value, ends)
  <2>1. DOMAIN value = 1..Len(value)
    BY <1>5, FirstSymbols
  <2>2. \A i \in 1..Len(value) : value[i] \in ToSet(value)
    BY <2>1, Zenon DEF ToSet
  <2>3. \A c \in ToSet(value) : c \notin ends
    BY Zenon
  <2> QED BY <2>2, <2>3, Zenon DEF Lacks
<1> HIDE DEF text, ends
<1>6. Ends(text, name, ends)
  BY <1>1, <1>2, <1>3, HereIs, Zenon DEF Ends
<1> QED BY <1>4, <1>5, <1>6, Zenon DEF text

\* Two jobs do not share a record.
LEMMA RecordsApart ==
    ASSUME NEW template, IsTemplate(template, {"repoRoot", "appId", "jobId"}),
           NEW apps, \A app \in apps : IsName(app), ShowsEnd(template, "appId", apps),
           ShowsEnd(template, "jobId", Jobs)
    PROVE  IsInjective([r \in apps \X Jobs |-> WithNames(Rooted(template), r[1], r[2])])
<1> DEFINE text == Rooted(template)
<1>1. IsText(text) /\ HasToken(text, "appId") /\ HasToken(text, "jobId")
  BY RootedIs, NamesAre DEF IsTemplate
<1>2. \A job \in Jobs : IsText(job)
  BY PathsAssumption, Zenon DEF OfSymbols, IsText
<1>3. \A app \in apps : IsText(app)
  BY DEF IsName
<1>4. PICK appEnds : /\ Ends(text, "appId", appEnds) /\ Opening \notin appEnds
                     /\ \A app \in apps : Lacks(app, appEnds)
  BY <1>3, ShownEnds DEF IsTemplate
<1>5. PICK jobEnds : /\ Ends(text, "jobId", jobEnds) /\ Opening \notin jobEnds
                     /\ \A job \in Jobs : Lacks(job, jobEnds)
  BY <1>2, ShownEnds DEF IsTemplate
<1> HIDE DEF text
<1>6. ASSUME NEW a \in apps, NEW b \in apps, NEW j \in Jobs, NEW k \in Jobs,
             WithNames(text, a, j) = WithNames(text, b, k)
      PROVE  a = b /\ j = k
  BY <1>1, <1>2, <1>4, <1>5, <1>6, NamesTell
<1>7. \A r \in apps \X Jobs : r[1] \in apps /\ r[2] \in Jobs /\ r = <<r[1], r[2]>>
  OBVIOUS
<1>8. \A r, s \in apps \X Jobs : WithNames(text, r[1], r[2]) = WithNames(text, s[1], s[2]) => r = s
  BY <1>6, <1>7
<1> QED BY <1>8 DEF IsInjective, text

\* What PathsInv says is enough.
LEMMA LoadedIsSeparate == ASSUME PathsInv PROVE PathsAreSeparate
<1>1. SUFFICES ASSUME pc = "idle", \A app \in profile.allowedApps : ToSet(app) \cap {"{", "}", "jobId"} = {}
               PROVE  PathsAreSeparate
  BY Zenon DEF PathsAreSeparate
<1> DEFINE apps == profile.allowedApps
           templates == profile.pathTemplates
           Own(key) == [app \in apps |-> Resolve(profile, key, app, <<>>)]
<1>2. IsLoaded(profile)
  BY <1>1 DEF PathsInv, Shape, TypeOK
<1>3. \A app \in apps : IsName(app)
  BY <1>1, <1>2, LoadedIs, PlainIsName
<1>4. ASSUME NEW key \in {"statusSpec", "statusSnapshot", "actionCatalog"} PROVE IsInjective(Own(key))
  <2>1. IsTemplate(templates[key], {"repoRoot", "appId"})
    BY <1>2, LoadedIs
  <2>2. IsInjective([app \in apps |-> WithNames(Rooted(templates[key]), app, <<>>)])
    BY <1>3, <2>1, AppsApart
  <2> QED BY <2>2, ResolveIs, Zenon
<1>5. ASSUME ShowsEnd(templates.actionJob, "appId", apps), ShowsEnd(templates.actionJob, "jobId", Jobs)
      PROVE  IsInjective([r \in apps \X Jobs |-> Resolve(profile, "actionJob", r[1], r[2])])
  <2>1. IsTemplate(templates.actionJob, {"repoRoot", "appId", "jobId"})
    BY <1>2, LoadedIs
  <2>2. IsInjective([r \in apps \X Jobs |-> WithNames(Rooted(templates.actionJob), r[1], r[2])])
    BY <1>3, <1>5, <2>1, RecordsApart
  <2> QED BY <2>2, ResolveIs, Zenon
<1>6. IsInjective(Own("statusSpec")) /\ IsInjective(Own("statusSnapshot")) /\ IsInjective(Own("actionCatalog"))
  BY <1>4
<1> QED BY <1>5, <1>6, Zenon DEF PathsAreSeparate, SpecPath, SnapshotPath, CatalogPath, RecordPath

\* Every step preserves PathsInv.
LEMMA PathsNext == ASSUME PathsInv, [Next]_vars PROVE PathsInv'
<1>1. Shape'
  BY NextType DEF PathsInv
<1>2. CASE \E file \in Profiles : Start(file)
  <2>1. PICK file \in Profiles : Start(file)
    BY <1>2
  <2>2. profile' = profile \/ (ProfileIsValid(file) /\ profile' = LoadHostProfile(file))
    BY <2>1, Zenon DEF Start
  <2> QED BY <1>1, <2>2, Zenon DEF PathsInv, IsLoaded
<1>3. CASE ~\E file \in Profiles : Start(file)
  <2>1. profile' = profile
    BY <1>3 DEF Next, vars, Receive, Ping, StatusGet, Evaluate, Publish, ActionList, Invoke, Run, LaunchFails,
                LaunchDetached, CommandEnds, SendReply, ProcessStarts, ProcessEnds
  <2> QED BY <1>1, <2>1, Zenon DEF PathsInv
<1> QED BY <1>2, <1>3

\* Of an accepted profile, no two apps share a spec, a snapshot or a catalog, and
\* no two jobs a record: their paths are different texts.
THEOREM PathsAlwaysSeparate == Spec => []PathsAreSeparate
<1>1. Init => PathsInv
  BY InitType DEF Init, PathsInv
<1> QED BY <1>1, PathsNext, LoadedIsSeparate, PTL DEF Spec
================================================================================
