----------------------------------- MODULE Wire ----------------------------------
(***************************************************************************)
(* wire_v0.cpp: a request read from the document a client sends, and the   *)
(* two forms of a reply; and the checks of dispatcher.cpp before a method  *)
(* is run.                                                                 *)
(***************************************************************************)
EXTENDS JsonValue

\* Something that is not a string counts as absent, like an empty string.
StringOf(object, key) == IF HasA("string", object, key) THEN Contents(At(object, key)) ELSE <<>>

\* A string as it is, any other value dumped.
AsText(value) == IF Is("string", value) THEN Contents(value) ELSE Dump(value)

\* A document with an id has it answered even if it is refused.
RequestId(document) == IF document = NotJson THEN <<>> ELSE StringOf(document, <<"id">>)

ParamsOf(document) ==
    IF Has(document, <<"params">>) THEN At(document, <<"params">>) ELSE EmptyObject

RequestIsValid(document) ==
    /\ document # NotJson
    /\ HasA("string", document, <<"method">>)
    /\ Is("object", ParamsOf(document))
    /\ Has(ParamsOf(document), <<"args">>) => HasA("object", ParamsOf(document), <<"args">>)

\* WireRequest, from a valid document.
ParseRequestLine(document) ==
    LET params == ParamsOf(document)
    IN  [id         |-> RequestId(document),
         method     |-> StringOf(document, <<"method">>),
         appId      |-> StringOf(params, <<"appId">>),
         key        |-> StringOf(params, <<"key">>),
         value      |-> IF Has(params, <<"value">>) THEN AsText(At(params, <<"value">>)) ELSE <<>>,
         actionName |-> StringOf(params, <<"actionName">>),
         jobId      |-> StringOf(params, <<"jobId">>),
         args       |-> IF Has(params, <<"args">>) THEN At(params, <<"args">>) ELSE EmptyObject]

-------------------------------------------------------------------------------
(* Replies.                                                                *)

IdField(id) == IF id = <<>> THEN {} ELSE {<<"id">>}

BuildOkResponse(id, payload) ==
    Obj([key \in IdField(id) \cup {<<"ok">>, <<"response">>} |->
            CASE key = <<"id">> -> Str(id)
              [] key = <<"ok">> -> Bool(TRUE)
              [] OTHER          -> payload])

\* details is a text; what is not the text of an object becomes {}.
BuildErrorResponse(id, code, details) ==
    LET found == details \in DOMAIN Literals /\ Is("object", Literals[details])
        error == [key \in {<<"code">>, <<"details">>} |->
                     CASE key = <<"code">> -> Str(<<code>>)
                       [] OTHER            -> IF found THEN Literals[details] ELSE EmptyObject]
    IN  Obj([key \in IdField(id) \cup {<<"ok">>, <<"error">>} |->
                CASE key = <<"id">> -> Str(id)
                  [] key = <<"ok">> -> Bool(FALSE)
                  [] OTHER          -> Obj(error)])

\* The text goes between the quotes as it is.
BugNoEscape(value) == value

\* The text of a JSON string without its quotes.
Unquoted(text) == SubSeq(text, 2, Len(text) - 1)

JsonEscape(value) == Unquoted(Dump(Str(value)))

\* The details of an error, put together as text.
Details(key, value) == <<"{", "\"", key, "\"", ":", "\"">> \o value \o <<"\"", "}">>
NoDetails == <<"{", "}">>

ParamNames == {"appId", "key", "actionName", "jobId"}

IsTextOf(text, value) == text \in DOMAIN Literals /\ Literals[text] = value

\* The object with one member.
Member(key, value) == Obj([k \in {<<key>>} |-> value])

\* What dump() writes between the quotes of a string stands for the same
\* between those of another, and the text of an object with one string is JSON.
ASSUME WireAssumption ==
    /\ \A text \in DOMAIN Literals, key \in {"method", "appId"} :
          Is("string", Literals[text]) =>
              IsTextOf(Details(key, Unquoted(Dump(Literals[text]))), Member(key, Literals[text]))
    /\ \A name \in ParamNames :
          IsTextOf(Details("param", <<name>>), Member("param", Str(<<name>>)))
    /\ IsTextOf(NoDetails, EmptyObject)

-------------------------------------------------------------------------------
(* The dispatcher.                                                         *)

Methods == {<<"ping">>, <<"status.get">>, <<"config.get">>, <<"config.set">>,
            <<"action.list">>, <<"action.invoke">>, <<"action.job.get">>}

\* kMethodSpecs.
RequiredParams ==
    [method \in Methods |->
        CASE method = <<"ping">>           -> <<>>
          [] method = <<"config.set">>     -> <<"appId", "key">>
          [] method = <<"action.invoke">>  -> <<"appId", "actionName">>
          [] method = <<"action.job.get">> -> <<"appId", "jobId">>
          [] OTHER                         -> <<"appId">>]

\* The places of those that the request does not have.
MissingParams(request) ==
    LET params == RequiredParams[request.method]
    IN  {i \in DOMAIN params : request[params[i]] = <<>>}

Refused(code, details) == [code |-> code, details |-> details]
NotRefused == Refused("ok", NoDetails)

\* HandleRequest up to the handler.
Validation(request, allowedApps) ==
    LET missing == MissingParams(request)
    IN  IF request.method \notin Methods
        THEN Refused("E_UNSUPPORTED_METHOD", Details("method", JsonEscape(request.method)))
        ELSE IF missing # {}
        THEN Refused("E_BAD_ARG", Details("param", <<RequiredParams[request.method][Min(missing)]>>))
        ELSE IF request.method # <<"ping">> /\ request.appId \notin allowedApps
        THEN Refused("E_UNSUPPORTED_APP", Details("appId", JsonEscape(request.appId)))
        ELSE NotRefused
================================================================================
