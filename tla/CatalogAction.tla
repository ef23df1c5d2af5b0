------------------------------ MODULE CatalogAction -----------------------------
(***************************************************************************)
(* What becomes of the data of an action: the catalog (action_catalog.cpp),*)
(* the command rendered from it, and the result read from its output       *)
(* (action_executor.cpp), and between the two the line handed to the shell *)
(* and the status it returns (process_exec.cpp, POSIX branch).             *)
(***************************************************************************)
EXTENDS HostProfile

CONSTANTS
    Words,      \* the words made of letters and digits
    Python      \* the words that contain "python"

\* A word is none of the other symbols that the shell knows.
ASSUME ShellAssumption == Words \cap {"'", "\\", " ", "=", "2>&1"} = {}

-------------------------------------------------------------------------------
(* The catalog.                                                            *)

CommandOf(item) == Texts(Contents(At(item, <<"cmd">>)))

IsRunnable(item) ==
    /\ HasA("string", item, <<"name">>)
    /\ HasA("array", item, <<"cmd">>)
    /\ Contents(At(item, <<"name">>)) # <<>>
    /\ CommandOf(item) # <<>>

ActionDefinition(item) ==
    [name     |-> Contents(At(item, <<"name">>)),
     label    |-> IF HasA("string", item, <<"label">>) /\ Contents(At(item, <<"label">>)) # <<>>
                  THEN Contents(At(item, <<"label">>)) ELSE Contents(At(item, <<"name">>)),
     args     |-> IF HasA("array", item, <<"args">>) THEN At(item, <<"args">>) ELSE Arr(<<>>),
     command  |-> CommandOf(item),
     cwd      |-> IF HasA("string", item, <<"cwd">>) THEN Contents(At(item, <<"cwd">>)) ELSE <<>>,
     detached |-> HasA("bool", item, <<"detached">>) /\ Contents(At(item, <<"detached">>))]

\* The runnable entries of a catalog, none when it cannot be loaded.
LoadActionCatalog(file) ==
    IF ~IsObjectFile(file) THEN <<>>
    ELSE IF ~HasA("array", file, <<"actions">>) THEN <<>>
    ELSE LET items == SelectSeq(Contents(At(file, <<"actions">>)), IsRunnable)
         IN  [i \in DOMAIN items |-> ActionDefinition(items[i])]

-------------------------------------------------------------------------------
(* The command.                                                            *)

ArgText(value) ==
    CASE Is("string", value) -> Contents(value)
      [] Is("null", value)   -> <<>>
      [] OTHER               -> Dump(value)

ParseArgsObject(object) == [name \in DOMAIN Contents(object) |-> ArgText(Contents(object)[name])]

\* Where the pattern \{([^{}]+)\} matches: the places of the two braces.
Matches(token) ==
    {m \in (DOMAIN token) \X (DOMAIN token) :
        /\ m[1] + 1 < m[2]
        /\ token[m[1]] = "{" /\ token[m[2]] = "}"
        /\ \A i \in (m[1] + 1)..(m[2] - 1) : token[i] \notin {"{", "}"}}

ArgName(token, m) == TrimCopy(SubSeq(token, m[1] + 1, m[2] - 1))

\* RenderCommand fails on the first placeholder without an argument.
LacksArgs(command, args) ==
    \E k \in DOMAIN command :
        \E m \in Matches(command[k]) : ArgName(command[k], m) \notin DOMAIN args

\* The value of an argument is put in as it is; braces in it mean nothing.
RenderToken(token, args) ==
    FlattenSeq([i \in DOMAIN token |->
        LET around == {m \in Matches(token) : i \in m[1]..m[2]}
        IN  IF around = {} THEN <<token[i]>>
            ELSE LET m == CHOOSE m \in around : TRUE
                 IN  IF i = m[1] THEN args[ArgName(token, m)] ELSE <<>>])

\* A token as it is written, of pieces: texts and, in braces, names of arguments.
WrittenPiece(piece) == IF piece[1] = "text" THEN piece[2] ELSE <<"{">> \o piece[2] \o <<"}">>
WrittenPieces(pieces, n) == FlattenSeq([i \in 1..n |-> WrittenPiece(pieces[i])])

\* Where in the token its i-th piece begins and ends.
PlaceOf(pieces, i) == <<Len(WrittenPieces(pieces, i - 1)) + 1, Len(WrittenPieces(pieces, i))>>

\* The token is written of these pieces, and nothing but the arguments in it
\* looks like one.
IsMeaning(token, pieces) ==
    /\ OfSymbols(pieces)
    /\ \A i \in DOMAIN pieces : pieces[i][1] \in {"text", "arg"} /\ OfSymbols(pieces[i][2])
    /\ token = WrittenPieces(pieces, Len(pieces))
    /\ Matches(token) = {PlaceOf(pieces, i) : i \in {j \in DOMAIN pieces : pieces[j][1] = "arg"}}

RenderCommand(command, args) == [k \in DOMAIN command |-> RenderToken(command[k], args)]

\* A path that begins with two backslashes, and one that is not there, count
\* as none.
ResolveActionCwd(cwd) ==
    IF cwd # <<>> /\ ~IsPrefix(<<"\\", "\\">>, cwd) /\ InRepo(cwd) \in Directories
    THEN InRepo(cwd) ELSE RepoRoot

\* A script named without directory and extension is looked for in three
\* places, unless there is a file of just that name.
ApplyPythonScriptFallback(command, cwd, files) ==
    LET entry   == TrimCopy(command[2])
        applies == /\ Len(command) >= 2
                   /\ \E i \in DOMAIN command[1] : command[1][i] \in Python
                   /\ entry # <<>>
                   /\ entry[1] # "-"
                   /\ "." \notin ToSet(Tail(entry))
                   /\ ToSet(entry) \cap {"/", "\\"} = {}
                   /\ ~Exists(files, cwd \o <<"/">> \o entry)
        places  == << <<"/">>, <<"/", "ops", "/", "scripts", "/">>, <<"/", "scripts", "/">> >>
        Script(place) == cwd \o place \o entry \o <<".", "py">>
        found   == SelectInSeq(places, LAMBDA place : Exists(files, Script(place)))
    IN  IF applies /\ found # 0
        THEN ReplaceAt(command, 2, Script(places[found])) ELSE command

-------------------------------------------------------------------------------
(* The shell.                                                              *)

IsSafePosixShellChar(c) == c \in Words \cup {"_", "-", ".", "/", ":", "+", ",", "="}

\* An empty argument is left as it is.
BugEmptyNeedsNoQuotes(value) == \E i \in DOMAIN value : ~IsSafePosixShellChar(value[i])

NeedsQuotingPosix(value) ==
    value = <<>> \/ \E i \in DOMAIN value : ~IsSafePosixShellChar(value[i])

QuoteForShellPosix(value) ==
    <<"'">> \o FlattenSeq([i \in DOMAIN value |->
                               IF value[i] = "'" THEN <<"'", "\\", "'", "'">> ELSE <<value[i]>>])
            \o <<"'">>

BuildShellCommand(parts) ==
    Join([i \in DOMAIN parts |->
              IF NeedsQuotingPosix(parts[i]) THEN QuoteForShellPosix(parts[i]) ELSE parts[i]],
         1, " ")
    \o <<" ", "2>&1">>

\* How a POSIX shell reads such a line: quotes, backslashes, blanks and the
\* redirection.  Anything else outside quotes has a meaning to the shell that
\* the caller did not ask for ("other"), and so has = in the first word.
ShellStep(state, c) ==
    LET word == Append(state.word, c)
    IN  CASE state.mode = "quoted" /\ c = "'" -> [state EXCEPT !.mode = "plain"]
          [] state.mode = "quoted" /\ c # "'" -> [state EXCEPT !.word = word]
          [] state.mode = "escaped"           -> [state EXCEPT !.mode = "plain", !.word = word]
          [] state.mode = "plain" /\ c = "'"  -> [state EXCEPT !.mode = "quoted", !.open = TRUE]
          [] state.mode = "plain" /\ c = "\\" -> [state EXCEPT !.mode = "escaped", !.open = TRUE]
          [] state.mode = "plain" /\ c = " " /\ state.open ->
                [state EXCEPT !.words = Append(@, state.word), !.word = <<>>, !.open = FALSE]
          [] state.mode = "plain" /\ c \in {" ", "2>&1"} /\ ~state.open -> state
          [] state.mode = "plain" /\ IsSafePosixShellChar(c) /\ ~(c = "=" /\ state.words = <<>>) ->
                [state EXCEPT !.word = word, !.open = TRUE]
          [] OTHER -> [state EXCEPT !.mode = "other"]

\* What it has read when it has read a line.
ShellAfter(line) ==
    LET state[i \in 0..Len(line)] ==
            IF i = 0 THEN [words |-> <<>>, word |-> <<>>, open |-> FALSE, mode |-> "plain"]
            ELSE ShellStep(state[i - 1], line[i])
    IN  state[Len(line)]

\* The arguments the program receives, its own name first.
ShellReads(line) == ShellAfter(line).words

-------------------------------------------------------------------------------
(* The result.                                                             *)

\* pclose: -1, or a status with the signal in its low 7 bits (127: stopped)
\* and the exit code above the eighth.
DecodeExitCode(raw) ==
    IF raw = -1 THEN -1
    ELSE IF raw % 128 = 0 THEN (raw \div 256) % 256
    ELSE IF raw % 128 # 127 THEN 128 + (raw % 128)
    ELSE -1

\* A backslash in a string does not hide the quote after it.
BugNoEscapes(state, c) ==
    CASE state.inString -> [state EXCEPT !.inString = c # "\""]
      [] ~state.inString /\ c = "\"" -> [state EXCEPT !.inString = TRUE]
      [] ~state.inString /\ c = "{"  -> [state EXCEPT !.depth = @ + 1]
      [] ~state.inString /\ c = "}"  -> [state EXCEPT !.depth = @ - 1]
      [] OTHER -> state

ScanStep(state, c) ==
    CASE state.inString /\ state.escaped -> [state EXCEPT !.escaped = FALSE]
      [] state.inString /\ ~state.escaped ->
            [state EXCEPT !.escaped = c = "\\", !.inString = c # "\""]
      [] ~state.inString /\ c = "\"" -> [state EXCEPT !.inString = TRUE]
      [] ~state.inString /\ c = "{"  -> [state EXCEPT !.depth = @ + 1]
      [] ~state.inString /\ c = "}"  -> [state EXCEPT !.depth = @ - 1]
      [] OTHER -> state

\* The scan of text from the symbol at start to the one at end.
Scanned(text, start, end) ==
    LET state[i \in (start - 1)..end] ==
            IF i = start - 1 THEN [inString |-> FALSE, escaped |-> FALSE, depth |-> 0]
            ELSE ScanStep(state[i - 1], text[i])
    IN  state[end]

\* From the first brace to the first closing one, outside strings, at which
\* as many are closed as opened; the empty text when there is none.
TryExtractFirstJsonObject(text) ==
    LET start == SelectInSeq(text, LAMBDA c : c = "{")
        ends  == {i \in start..Len(text) :
                    text[i] = "}" /\ Scanned(text, start, i).depth = 0
                                  /\ ~Scanned(text, start, i).inString}
    IN  IF start = 0 \/ ends = {} THEN <<>> ELSE SubSeq(text, start, Min(ends))

CompactObjectJson(text) ==
    IF text \in DOMAIN Literals /\ Is("object", Literals[text]) THEN Literals[text]
    ELSE EmptyObject
================================================================================
