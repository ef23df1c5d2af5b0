------------------------------- MODULE JsonValue --------------------------------
(***************************************************************************)
(* JSON values as the program reads them with nlohmann::json: a value is   *)
(* its kind and its contents.  The keys of an object are texts.  Parsing   *)
(* is a table: which texts are JSON, and of which value.                   *)
(***************************************************************************)
EXTENDS Text

CONSTANTS
    Literals,   \* per text that json::parse accepts: its value
    Numbers,    \* per text that is a decimal integer: the integer
    MaxInt,     \* INT_MAX
    NoInt,      \* "not an int"
    Missing,    \* the contents of a file that is not there
    NotJson,    \* the contents of a file that json::parse refuses
    Directories,\* the paths of directories that exist
    JsonValues  \* the values that texts and files are parsed to, and their parts

Null      == <<"null">>
Bool(b)   == <<"bool", b>>
Number(n) == <<"integer", n>>
Str(text) == <<"string", text>>
Arr(seq)  == <<"array", seq>>
Obj(map)  == <<"object", map>>

Is(kind, value)    == value[1] = kind
Contents(value)    == value[2]
Has(value, key)    == Is("object", value) /\ key \in DOMAIN Contents(value)
At(value, key)     == Contents(value)[key]
HasA(kind, value, key) == Has(value, key) /\ Is(kind, At(value, key))
EmptyObject == Obj(<<>>)

\* What each kind of value contains.
IsJson(value) ==
    /\ Is("bool", value)    => Contents(value) \in BOOLEAN
    /\ Is("integer", value) => Contents(value) \in Int
    /\ Is("array", value)   => Contents(value) \in Seq(JsonValues)
    /\ Is("object", value)  => \A key \in DOMAIN Contents(value) : At(value, key) \in JsonValues

\* What has been parsed is JSON, and so is each part of it.
ASSUME JsonAssumption ==
    /\ MaxInt \in Nat
    /\ NoInt \notin Int
    /\ \A value \in JsonValues : IsJson(value)
    /\ \A text \in DOMAIN Literals : Literals[text] \in JsonValues
    /\ \A text \in DOMAIN Numbers : Numbers[text] \in Int

\* The text of an object is made of lexemes: single symbols, which are no
\* quotes, and strings.  A backslash in a string hides the symbol after it,
\* unless it is hidden itself; the first quote that is not hidden ends it.
IsStringLexeme(lexeme) ==
    \E hidden \in SUBSET (3..Len(lexeme)) :
        /\ Len(lexeme) > 1 /\ lexeme[1] = "\""
        /\ \A i \in 3..Len(lexeme) : i \in hidden <=> lexeme[i - 1] = "\\" /\ i - 1 \notin hidden
        /\ \A i \in 2..Len(lexeme) : i = Len(lexeme) <=> lexeme[i] = "\"" /\ i \notin hidden

IsLexeme(lexeme) == IsStringLexeme(lexeme) \/ (Len(lexeme) = 1 /\ lexeme[1] # "\"")

\* How many of the braces opened by the first n lexemes are open.
OpenBraces(lexemes, n) ==
    Cardinality({i \in 1..n : lexemes[i] = <<"{">>}) - Cardinality({i \in 1..n : lexemes[i] = <<"}">>})

\* The first brace is closed by the last.
IsObjectText(lexemes) ==
    /\ \A i \in DOMAIN lexemes : IsLexeme(lexemes[i])
    /\ lexemes # <<>> /\ lexemes[1] = <<"{">>
    /\ \A n \in DOMAIN lexemes : OpenBraces(lexemes, n) = 0 <=> n = Len(lexemes)

\* map[key] = value.
Put(map, key, value) ==
    [k \in DOMAIN map \cup {key} |-> IF k = key THEN value ELSE map[k]]

\* The strings among the entries of an array, in their order.
Texts(entries) ==
    LET places   == {i \in DOMAIN entries : Is("string", entries[i])}
        Place(n) == CHOOSE i \in places : Cardinality(places \cap (1..i)) = n
    IN  [n \in 1..Cardinality(places) |-> Contents(entries[Place(n)])]

\* The files: per path that exists what is in it.
ReadTextFile(files, path) == IF path \in DOMAIN files THEN files[path] ELSE Missing

Exists(files, path) == path \in Directories \/ ReadTextFile(files, path) # Missing

\* A file that ReadTextFile reads and json::parse accepts as an object.
IsObjectFile(file) == file \notin {Missing, NotJson} /\ Is("object", file)

\* get<int>() of a JSON integer, which has 64 bits: the low bits are kept.
Narrow(n) == ((n + MaxInt + 1) % (2 * (MaxInt + 1))) - (MaxInt + 1)

\* operator>> refuses an integer that does not fit.
ParseIntText(text) ==
    LET trimmed == TrimCopy(text)
    IN  IF trimmed \in DOMAIN Numbers /\ Numbers[trimmed] \in (-MaxInt - 1)..MaxInt
        THEN Numbers[trimmed] ELSE NoInt

ParseBoolText(text, default) ==
    LET trimmed == TrimCopy(text)
    IN  CASE trimmed \in {<<"true">>, <<"TRUE">>, <<"1">>}    -> TRUE
          [] trimmed \in {<<"false">>, <<"FALSE">>, <<"0">>} -> FALSE
          [] OTHER                                           -> default

JsonToBool(value, default) ==
    CASE Is("bool", value)    -> Contents(value)
      [] Is("integer", value) -> Narrow(Contents(value)) # 0
      [] Is("string", value)  -> ParseBoolText(Contents(value), default)
      [] OTHER                -> default

JsonToInt(value) ==
    CASE Is("integer", value) -> Narrow(Contents(value))
      [] Is("string", value)  -> ParseIntText(Contents(value))
      [] OTHER                -> NoInt

\* A number where there is one, null where there is none.
IntOrNull(n) == IF n = NoInt THEN Null ELSE Number(n)

\* dump() of a value: the text that json::parse reads as it.
Dump(value) == CHOOSE text \in DOMAIN Literals : Literals[text] = value
================================================================================
