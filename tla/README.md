# A verification of process-interface-cpp

`process-interface-cpp` is the *generic process interface* (GPI): a host
process, `gpi_host`, that lets clients look at and act on applications through
one small JSON protocol. A client sends one request over ZeroMQ and receives
one reply; the host answers `ping`, evaluates status specs, runs the commands
of an action catalog and keeps a record of every job on disk.

This directory holds TLA+ models of that program, the TLC configurations that
check them on small instances, and proofs, checked by TLAPS, of what matters
most. Every definition is a translation of the C++ sources; `PROJECT.json`
names the lines (`map`), the runs, the properties and the hazards they are for.

## 1. The system: inventory

| Component | State it keeps | Operations | What makes it hard |
|---|---|---|---|
| Atomic file replacement `platform/file_replace.cpp` | the file system: a temp file, the target, what was synced | `AtomicReplaceFile` | every system call may fail; the process may die between two; power loss; other writers and readers of the target |
| Host loop `host_runtime/host_runtime.cpp`, `ipc/impl/ZmqIpcServer.cpp` | socket queue, current request | bind, receive, handle, send | one thread for everybody; exceptions leave the handler; clients that are gone |
| Dispatcher `process_interface/host/dispatcher.cpp` | none | seven methods, validated by a table | order of the checks; which errors have effects |
| Control scripts `control_script_runner.cpp`, `action_catalog.cpp`, `action_executor.cpp` | none | `config.get`, `config.set`, `action.list`, `action.invoke`, `action.job.get` | run the command, make the id, store the record, answer: a crash can fall between any two |
| Job records `action_jobs.cpp` | `g_job_counter`, one file per job | `GenerateJobId`, `WriteActionJobRecord`, `ReadActionJobRecord` | ids across restarts; records of other apps |
| Shell runner `platform/process_exec.cpp` | the working directory of the process, detached threads | `RunShellProcess` | the directory is shared by all threads; it may be removed at any time |
| Status `status/*.cpp` | the snapshot file of an app | `CollectAndPublishStatus` | evaluate, publish, answer in that order; errors on the way |
| Process probe `platform/process_probe.cpp` | a temp file in the system's temp directory | `QueryProcessByName` | the name of that file comes from an unseeded `rand()` |
| Port probe `platform/port_probe.cpp` | a non-blocking socket | `CheckPortListening` | EINTR, several addresses, a deadline, sockets to close |
| Client `client/main.cpp`, `ipc/impl/ZmqIpcClient.cpp` | a REQ socket | connect, send, wait | it waits without a limit |
| Examples `examples/talk_*.cpp` | a request counter | a server that stops itself | the last reply races the closing of the socket |
| Status specs `spec_loader.cpp`, `status_expression_parser.cpp`, `status_operation_registry.cpp`, `status_engine.cpp` | the fields evaluated so far | read a spec, parse its lines, evaluate `const` ... `derive`, build the payload | values of any JSON type, integers wider than `int`, fields that depend on fields, probes at different times |
| Catalog commands `action_catalog.cpp`, `action_executor.cpp`, `process_exec.cpp` | none | render a command, quote it, decode its status, find the JSON object in its output | text taken apart and put together again, by this program and by the shell |
| Host profile and paths `host_profile.cpp`, `path_templates.cpp`, `status/paths.cpp` | the profile | `LoadHostProfile`, `RenderTemplate` | a template accepted at the start decides which files requests share |
| Wire format `wire_v0.cpp`, text helpers `text.cpp` | none | parsing and rendering | values that are absent, empty or of another type |

Interactions. A client's request is queued by ZeroMQ in the client's socket,
then in the host's. The host's thread takes one request, calls the handler
(`ParseRequestLine`, `HandleRequest`, a method), sends the reply, and only then
takes the next. `action.invoke` calls the shell runner, which changes the
working directory of the whole process, and stores its record with
`AtomicReplaceFile`; so does `status.get` with the snapshot. Job records and
snapshots are read by other processes. Clients, hosts and the machine fail
independently.

What makes each component correct, in one line each: a replaced file is whole
and stays (file replacement); one request leads to at most one job record, an
accepted one to exactly one that tells the truth (host and job records); every
request in a living host is answered (host loop); a refusal is without effect
(dispatcher); a command runs in its own directory and the host returns to its
own (shell runner); a status that was answered was published (status); a probe
reads its own output (process probe); a probe ends in time with every socket
closed (port probe); a status is complete and of its own time, whatever the spec
says (status specs); a program receives the arguments that were meant and the
reply tells how it ended (catalog commands); no two apps or jobs share a file
(profile and paths).

## 2. Modules

| Module | Models | Kind |
|---|---|---|
| `AtomicFile` | what `AtomicReplaceFile` promises to callers and readers | abstract specification |
| `FileReplace` | `AtomicReplaceFile`, one action per system call | detailed specification, refines `AtomicFile` |
| `FileReplaceProofs` | | proofs: safety, and that it implements `AtomicFile` |
| `JobService` | what `action.invoke` and `action.job.get` promise | abstract specification |
| `Host` | the host with its clients | detailed specification, refines `JobService` |
| `HostProofs` | | proofs: safety, and that it implements `JobService` |
| `ProcessExec` | `ResolveActionCwd` and `RunShellProcess` | specification |
| `ProcessExecProofs` | | proofs |
| `PortProbe` | `CheckPortListening` | specification |
| `PortProbeProofs` | | proofs |
| `ProcessProbe` | `QueryProcessByName` with its shell and its output file | specification |
| `ProcessProbeProofs` | | proofs |
| `Talk` | the talk examples over the REP and REQ sockets | specification |
| `TalkProofs` | | proofs |
| `Text` | `text.cpp`, `path_templates.cpp` | operators |
| `JsonValue` | JSON values and the conversions of the status operations | operators |
| `HostProfile` | `LoadHostProfile` and the paths made of its templates | operators |
| `StatusSpec` | specs, their lines, operations and the payload | operators |
| `CatalogAction` | catalog, command, shell line, exit status, printed object | operators |
| `Wire` | `ParseRequestLine`, `HandleRequest` up to the handler, both forms of a reply | operators |
| `TextProofs` | | proofs about texts, without a state: what a shell reads, which object is found, what a token and a template are rendered to |
| `Requests` | one host from a document to the reply: every method but `action.job.get`, seen from the data | specification over the operators |
| `RequestsProofs` | | proofs: what a status tells, that replies fit, what results tell, what arguments a program receives, which files are whose |
| `MC...` | constants for TLC | |

Operators named `Bug...` are mistakes a later edit of the code could make (a
result not looked at, a missing fsync, a counter that stands still). Each stands
before the definition it would replace, and put in its place it makes a
property fail; they show that the properties depend on what the code does.

### FileReplace

State: per writer where its call is (`pc`), its temp file and contents; per
temp file what a read returns (`file`) and how its call ended (`outcome`); for
the directory the names that exist beside the target (`linked`), the files
renamed to the target so far (`hist`) and how much of that a directory fsync
made durable (`synced`), and whether the directory itself is there (`dir`); per
reader the open file. The actions are the system
calls of the POSIX branch in the order of the code, each with its failure:
`Begin` (create_directories, `BuildTempPath`), `OpenTemp`, `WriteTemp`,
`FlushTemp`, `SyncTemp`, `CloseTemp`, `RenameTemp`, `SyncDir`, `RemoveTemp`.
`ReaderOpen` and `ReaderRead` are `ReadTextFile`. `ProcessDies` and `PowerLoss`
are the environment: a power loss tears what was not fsynced and takes the
directory back to any of its states since it was last synced.

The directory may be missing at first. `Begin` then makes it (`create_directories`)
and it is `fresh`: `SyncParentDirectory` syncs this directory, and nothing syncs the
one that holds its entry. Until the file system writes that entry back of itself
(`DirectoryStays`), a power loss may take the directory away with everything in
it (`DirectoryVanishes`), files included whose writers were told "true". `vanished`
remembers those files, for `SuccessIsDurable` and `ImplementsAtomicFile`, which say
that this is the one way to lose them; `AtomicFile` has it as a directory that is
not yet `kept`.

A temp name is used once (`FreshTemp`): process id, counter, clock tick and
thread id make it so. On a file system whose directories cannot be synced
(`EINVAL`, which the code takes for success) `SuccessIsDurable` is not claimed.

### Host

One action per step of the host's thread: `Receive`; then one of `Reject`,
`Ping`, `ActionList`, `JobGet`, `StatusGet`, `LoadCatalog`; for a command
`DoNotLaunch`, `Launch` and `CommandEnds`; for a file `Install`, then
`WriteSucceeds` or `WriteFails`; then `SendReply`. `Validation` is the order of
checks of `ParseRequestLine`, `HandleRequest` and `ValidateMethodSpec`.
`Conclude` is what the three command methods do with a result: `config.get` and
`config.set` answer at once, `action.invoke` makes an id, fills a record and
stores it. Clients send (`SendRequest`), ZeroMQ delivers (`Deliver`), whoever
started a client may kill it (`KillClient`). `HostDies` may happen at every
step, `StartHost` afterwards; `PowerLoss` undoes installed but not yet durable
files. Files are written as `AtomicFile` promises, on a file system that syncs
directories, into directories of records and snapshots that are there to stay
(what happens in one that was just made is in `FileReplace`).

The job id of an `action.job.get` is the client's text. The dispatcher checks
that it is not empty, and `ResolveActionJobPath` puts it into the path template as
it is. Job ids that hosts make are `JobIds`; every other text is a member of
`JobTexts`, and `LeadsTo` says which path it renders to for each app: the record of
another app (`../<app>/job-...`), a snapshot, or no file of the host's
(`Elsewhere`). `JobGet` reads what is there (`FilesFound`). A record of any app is
answered with ok, because nothing in a record names its app; a snapshot has no job
id and no state and is an internal error; another file is invalid JSON, no object,
without the two fields (`E_INTERNAL`), or looks like a record (`Foreign`); a text may
also name a directory that is not there, which reads as "job not found". So
`JobReportsAreTrue` and `JobService` claim of any text that what is reported
from a host's record is true of the run the record is of; that it is of the app
asked about they claim of job ids only.

Abstractions. A request carries the parameters the methods look at and whether
its `args` are complete; a reply its code, the job id it names and the file it
reports; a file what it says and for which request it was written. The parse of
`args` cannot fail in `RunActionInvoke` because `ParseRequestLine` has refused
everything but an object before. The states `timeout` of a record and
`action_timeout` never occur: the runner does not enforce timeouts. A read of a
record by its job id succeeds if the record exists.

Assumptions about time. The clock does not go back, and a host that starts has a
later millisecond than the host before it: `GenerateJobId` is unique under these
assumptions only (`StoredRecordsAreFinal` fails without them).

### ProcessExec

The working directory `cwd` belongs to the process. One thread makes calls:
`Call` (with `ResolveActionCwd`), `CaptureCwd`, `EnterDirectory`, then
`StartThread` for a detached command or `OpenPipe` and `ReadOutput`, then
`RestoreCwd` on the way out, error paths included. A detached thread runs its
command in `ThreadForks`, whenever it is scheduled. `RemoveDirectory` and
`HostExits` are the environment; a removed directory is not made again.
Empty commands, refused by `RunShellProcess`, never reach it: the catalog loader
drops them.

### PortProbe

`Call` checks the port and clamps the timeout; `Resolve` is `getaddrinfo`; then
for each address `OpenSocket`, `SetNonBlocking`, `Connect`, and while the
connection is in progress `SelectInterrupted`, `SelectReady` or `SelectGivesUp`;
`CheckError` is `getsockopt(SO_ERROR)`; `FreeList` is the return. Every
`continue` is `NextAddress`. The clock is the time since the call and advances
only in `select`: the other calls do not wait, and `getaddrinfo` has no timeout
that could be kept. An interruption takes some time. `getsockopt` itself does
not fail on an open socket. An empty host name returns at once, like an invalid
port.

### ProcessProbe

A member of `Hosts` is one host process. `Query`, `MakeName`, `Launch`,
`SystemReturns`, `ReadOutput`, `RemoveOutput` are the host's thread;
`ShellOpens`, `PgrepLooks`, `PgrepPrints` are the shell and its command, which
are processes of their own and go on when the host dies. The temp directory maps
names to files, so a file that was removed and is still open is not the one a
later call makes under the same name. `std::rand` is never seeded: the n-th name
of every host is the same, and names are numbers. `ProcessesChange` starts and
ends processes at any time; `always` and `ever` remember what ran during the
whole query or at some time of it. With `Concurrent = FALSE` a host starts only
when the hosts before it and their shells have ended.

The name asked for goes to sh between double quotes and to `pgrep -i -x` as a
regular expression, which the kernel's name of a process (15 characters of the
program's) has to match as a whole, in any case. What a name selects is therefore
not the program of that name but a relation: `Selects` gives each of `Names` a set of
`Programs`, which are the kernel's names. A plain name of more than 15 characters selects
nothing, so its program is reported as not running while it runs, and a pattern may
select several programs; `ReportIsOfItsTime` is about the processes a name selects
and says nothing of whether these are the ones somebody meant. The relation
does not change during a run: names with `$`, a backslash or a backquote in which sh
would find a command to run, or with a double quote that ends the quotation and lets
one follow, are not covered.

A query that fails is reported as "not running"; the result has no place for
the failure. pgrep is taken to see all processes at one instant, and to write
them in any order.

### Talk

`Receive`, `Handle`, `SendReply` and `Close` are the server: `Run`, the request
handler and the end of `main`. `SendRequest`, `ReceiveReply` and `WakeUp` are
the clients. A message is in the socket of its sender (`outbox`, `leaving`)
until ZeroMQ moves it to the other socket (`Deliver`, `Transmit`). `Close`
drops what is still in the server's socket, as `ZMQ_LINGER` 0 says.

### Text, JsonValue, HostProfile, StatusSpec, CatalogAction, Wire

Operators, one per function of the code. A text is a sequence of symbols: a
character the code looks at is a symbol of its own (blanks, quotes, braces, `=`,
`:`, `/`), and a run of characters nobody looks into is one symbol. A JSON value
is its kind with its contents; `json::parse` is the table `Literals` from texts
to values, because the library is not part of the program. `int` has few bits
(`MaxInt`), so `get<int>()` of a wide integer (`Narrow`) and `operator>>` of one
(`ParseIntText`) are seen to differ. `ShellReads` is external: it is how a POSIX
shell reads quotes, backslashes and blanks, and it stops being a list of words as
soon as the line holds anything else outside quotes. `DecodeExitCode` works on
the status word of `waitpid`. A document in `Wire` is a JSON value, or no JSON at
all; what is put together as text is a text there too: the details of an error
(`Details`, with `JsonEscape`) are parsed again by `BuildErrorResponse`, as in the
code. Messages of errors are left out.

### Requests

`Start` loads a profile and ends the host on one that is not valid. `Receive`
takes a document: it is refused, or its method's handler runs: `Ping`,
`ActionList`, `StatusGet`, or `Invoke` for the three methods that run a command.
`StatusGet` loads the spec; `Evaluate` is one turn of the loop of `ExecuteStatusSpec`, and
between two turns `ProcessStarts` and `ProcessEnds` may happen, files may be
rewritten and ports open or close (`Seen`: what one operation finds); `Publish`
is the payload with `WriteSnapshotEnvelope`. `Invoke` is everything up to the
launch; `LaunchFails`, `LaunchDetached` and `CommandEnds` are what may become of
it, the last with any ending and any output. `Throw` is an exception that leaves
the handler: nobody catches it and the host terminates. It is reached by a spec
whose field name is not a string (`json::value` throws a type error) and by an
output that is not UTF-8 where it is dumped.

`ran` collects the processes that ran at some time of the request; it is there
for the properties. The trace of a request (spec, values, command line, arguments
received, output) is forgotten with `SendReply`, as the locals of the handler
are. Left out: `action.job.get` and the store of a record, which `Host` has (the
reply of `action.invoke` is the record here); time-outs, which are passed on and
never enforced; bytes of value 0 in an output, at which the
lines `fgets` reads are cut; a program of a command whose name a shell reads
otherwise than as a word: with a `=` in it that is not quoted
(`IsSafePosixShellChar`, `process_exec.cpp`, has `=` among the characters that
need no quotes) it is an assignment, and a word of the shell's grammar (`if`,
`while`) is that.

## 3. Runs

| Run | Instance | Shows |
|---|---|---|
| `file_replace` | 2 writers, 1 reader, 3 temp files, 2 contents; the directory there or not | target whole, readers see whole files, success durable unless a fresh directory is lost, temp files cleaned up, refinement of `AtomicFile` |
| `host_jobs` | 3 clients; requests: invoke, detached invoke, get of the first job id, get of a text that leads to another app's record | accepted jobs are stored and true, at most one record per request, known jobs are found, reports are true, records are never replaced |
| `host_service` | 2 clients, 17 kinds of request over every method and refusal, job ids that lead to another app's record, to a snapshot and out of the host's files among them | types, refusals without effect, reported status published, requests answered, refinement of `JobService` |
| `exec` | 2 commands, 3 directories | commands run where asked, the host returns home, verdicts true, calls return, launched commands start |
| `exec_detached` | as `exec` | **violated**: a detached command may start in another directory |
| `port_probe` | up to 3 addresses; timeouts below, in and above the range of the clamp; ports at both ends of the valid range and outside | no socket or list is left, the report is true, the wait is bounded and ends |
| `process_probe` | 2 hosts one after the other, 2 queries each, 2 programs, a name that selects both and one that is too long to select any | reports are of their time, output files are removed, queries end |
| `process_probe_hosts` | 2 hosts at the same time, 1 query each | **violated**: a host reads an output file that another host has emptied |
| `talk` | 2 clients with 3 requests each, quota 6 | replies match requests, every counted request has one reply, with one client or in the server's hands, the server stops |
| `requests` | 13 profiles, 92 documents, 17 specs, 4 catalogs, 11 argument values, 10 outputs, 4 endings, 2 process ids | statuses are complete and of their own time, arguments arrive whole, results tell what happened, replies fit their documents, no two apps or jobs share a file |
| `talk_last_reply` | 1 client with 2 requests, quota 2 | **violated**: the last reply may be dropped |

Bounds. `FileReplace`: two writers on one target meet in every pair of steps;
the third temp file lets one of them call twice, so a call meets the leftovers
of an earlier one; two contents tell a new file from an old one; the directory is
there from the start or made by the first call. `Host`: clock
up to 3 and counter up to 2 give two hosts in a row (each start takes a
millisecond) with two jobs in one host; three clients are a first job, a second
job that could clash with it and a question about one of them; two apps, one
of them with a detached action, tell records of different apps apart; three texts
that are no job ids are one for each kind of file they can lead to. Bounds
stop the clock and the counter, never the host. `ProcessExec`: a detached
command's thread meets every step of another call; three directories are the
host's, the repository and the one a catalog entry names. `PortProbe`: three
addresses are a first, a middle and a last one; the limits 250, 30000 and 65535
are small numbers of the same order, the code compares and adds them and does
nothing else with them. `ProcessProbe`: the first query of the second host meets
what the first host left under that name; the second query shows that names
move on; the two names select all there is and nothing. `Talk`: the quota is exactly what the clients ask for, the case in
which stopping one request early or late is seen. `Requests`: one profile is
accepted for all apps, one with another order of placeholders, and each of the
others breaks one rule of `LoadHostProfile`; documents are one of every method
for every app that has something of its own to say to it, and for every check of
`ParseRequestLine` and `HandleRequest` one that fails it, with and without an id,
with ids and parameters of other types and names with a quote in them; there is a spec for every operation
and sub-operation and for every way of being refused; integers have four bits,
with some that fit and one that does not; to tell the time before the end of a
process from the time after it takes two pids; arguments are empty, blank, with
blanks, a quote sign, a backslash, a placeholder, shell syntax, a line break, null
and a number; outputs have no object, one, two, one with a brace and an escaped
quote in a string, one nested, one after a brace, bytes that are not UTF-8; a
command ends in every way there is. For these inputs the state space is complete.
Symmetry is used for the safety of interchangeable names, never with liveness.

Fairness. `Host`: weak fairness of the host's thread (it is scheduled), of
`CommandEnds` (commands end; the code waits for them without a limit) and of
`Deliver` (ZeroMQ hands over what can be handed over); strong fairness of
`Receive(c)`, because a REP socket takes the requests of its peers in turn
(fair queueing), so a client whose request keeps waiting is reached. No fairness
for anything that fails, for `StartHost` or for clients: nothing makes a host
start. `ProcessExec`: weak fairness of the calling thread and of every detached
thread, because the operating system schedules runnable threads. `PortProbe`:
weak fairness of the probing thread; `select` returns at its timeout, and
interruptions cannot go on for ever because each takes time. `ProcessProbe`:
weak fairness of each host's thread and of its shell (pgrep ends); none for
dying or for new queries. `Talk`: weak fairness of the server once it is bound,
of the clients and of ZeroMQ between open sockets.

Deadlock is checked in `FileReplace` and `Host`, where something can always
happen, and in the two probes. `ProcessExec` ends when its commands are done and
the host has exited, `Talk` when the server is gone, `Requests` when the host has
exited or terminated.

## 4. What the violated runs show

`exec_detached`: `RunShellProcess` enters the directory asked for, starts a
thread and restores the directory when it returns; the thread runs its command
later, in the host's directory or in that of the next call.

`process_probe_hosts`: two hosts draw the same number for the name of their
pgrep output (`process_probe.cpp:74`). One host's pgrep has written its pids; the
other's shell empties the same file; the first reads it, with exit code 0, and
reports a program as not running that ran all the time. `process_probe` shows
that one host after another is safe, even after a host that was killed.

`talk_last_reply`: the handler stops the server before its last reply is sent;
`zmq_send` only queues the reply, and the socket is closed with linger 0. The
client waits without a limit (`talk` shows that no reply is missing before).

Met while modelling, without a run of its own: `contract-v0.md` asks of a
`config.set` response the fields `changed`, `filePath`, `restartRequired` and
others, which `BuildConfigSetFallbackPayload` (`action_response.cpp:9-28`) does not
have, and a set that failed is answered as an ok response with `ok: false`; a
`config.get` whose command ends with 0 and prints no object is answered with `{}`,
without any of the required fields; a JSON integer wider than `int` is narrowed
silently where the same number as text is refused
(`status_operation_registry.cpp:78-87`); `action.invoke` is "async by contract"
and answers `queued`, but runs its command to the end first
(`control_script_runner.cpp:223`), during which the host answers nobody;
a file that is replaced in a directory which the same call made can vanish with
that directory at a power loss after success was reported, because
`SyncParentDirectory` syncs the directory and not the one above it
(`file_replace.cpp:141-176`, `208-214`): the first job record or the first snapshot of an
app; the job id of `action.job.get` is put unchecked into the path
(`action_jobs.cpp:46-57`, `96`), so a text such as `../<other app>/job-...` is answered
with the record of another app; `pgrep -x` compares the pattern with 15 characters
(`process_probe.cpp:139`), so a program with a longer name is reported as not
running, under its full name, for as long as it runs; a failed job's record carries the
executor's own code (`action_failed`, `unknown_action`, ...), of which the contract's
list, headed "Error Codes (Minimum)", says nothing;
`LoadHostProfile` (`host_profile.cpp:150-165`) accepts a template that runs two
names together, and under `{repoRoot}/{jobId}{appId}` the job `...-1` of an app `2x` and the
job `...-12` of an app `x` have one record; and `RenderTemplate`
(`path_templates.cpp:37-42`) puts one name after the other into the whole text, so
that a name which is itself a placeholder (an app called `{jobId}`) is filled as
well. `PathsAreSeparate` says under which templates and names neither of the last two
happens: it compares paths as texts, for names of apps and for job ids that a host
made, and does not speak of the texts a client may send as one (`Host` has those).

## 5. Proofs

The proofs hold for every value of the constants that satisfies the named
assumptions of the modules: any number of clients, hosts, writers, processes,
addresses, files, contents, commands and documents. Each follows one argument:
an inductive invariant, a lemma that `Init` implies it, a lemma per action (or a
step per action) that it is preserved, and `Spec => []...` by temporal logic.
TLC was asked about the invariants first, as far as it can enumerate what they
quantify over.

The assumptions, and why the code justifies them: `ConstantsAssumption`,
`ExecAssumption`, `TalkAssumption`, `FilesAssumption` keep special values apart
from the others; `ProbeAssumption` puts the default timeout in the range of the
clamp, where `port_probe.cpp` has it; `PgrepAssumption` says that processes are
finitely many, each runs one program, and a name selects a set of these, any set;
`HostAssumption` gives requests and
catalogs their shapes, every text sent as a job id a path it leads to, any path,
and a clock that shows at least one time (a host starts
by reading it). `JsonAssumption` says that what json::parse returns is JSON, all
the way down. `DisplayAssumption` says that "False" and "True" are neither blank
nor the beginning of a number, `WireAssumption` that what `dump()` writes between
the quotes of a string stands for the same between those of another and that an
object put together from it is one. `RequestsAssumption` says that files hold
JSON or none, that pids are positive `int`s and that the names in a document,
which was parsed, can be dumped. `OutputsAssumption` says what "the command prints an
object" means: the object is lexemes, balanced and a string each in one piece, and
`json::parse` of it gives an object or nothing. `CatalogAssumption` says of every
token of a command what it means: texts and names of arguments, spelled with
their braces, and nothing else in it that the pattern would match;
the commands of the files there are consist of such tokens. `ArgumentsAssumption` and
`PathsAssumption` say that arguments, job ids, app names and templates are texts
(sequences of symbols, which every string is). `ShellAssumption` keeps the runs of
plain characters apart from those the shell looks at. `EndingsAssumption` is what
`waitpid` can tell: exit codes to 255, signals to 126, or nothing.

`FileReplaceProofs`. The properties are not inductive: that the target is whole
depends on the order write, fsync, rename. `Inv` adds: a running call owns its
temp file alone (`OwnTemps`); what a call's place says of its temp file, above
all that it is synced from `close` on (`Progress`); everything synced is whole
and everything ever installed is synced (`OnlyWholeFilesInstalled`), which is
why a power loss tears nothing installed; unused names are untouched
(`UnusedTemps`); a successful call's file is in the synced part of the history
or went with a fresh directory (`SuccessIsSynced`); an open reader holds a synced file
(`ReadersHoldWholeFiles`). Proved: `TypeOK`, `TargetIsWhole`,
`ReadersSeeWholeFiles`, `SuccessIsDurable`, `TempsAreCleanedUp`. The refinement
`ImplementsAtomicFile` needs a second invariant, `CallInv`: a temp file serves one
call, a call that has ended is over, and a file about to be renamed holds what
its caller gave and has not been installed. `dir` is mapped to whether the
directory is `kept`, and the loss of a fresh directory to the one step of
`AtomicFile` that empties its log. Then `RenameTemp` is the one step that
is a replacement, a power loss goes back to a version since the last sync, and
every other step leaves the abstract file alone.

`HostProofs`. All safety properties of `Host` from one invariant. Two facts
carry it. A job id is given once: `IdIsUsed` says that every id on disk is at most
the clock, and in the host's own millisecond at most its counter, so the next one is
new; this is where the assumptions about time enter. And a request is acted upon
once: `Ahead(c)` says that the host has yet to act on the request of c, and every
file and reply there is was written for a client that is not (`Settled`), so what
they say of its command (`exec`) can no longer change. `Inv` is made of `Shape` (types,
where a request is, what the thread holds), `ExecIsFresh`, `Disk` (true records, one
per client, durable at once; the draft is for a path without a record), `Answers` (the
reply in the host's hands and the replies clients hold are right, one conjunct per
property), `Knowing`, `ReplyIsFresh`. Two findings on the way: `known` must be told
of clients whose request is well formed, and a clock that cannot tick
(`MaxClock = 0`) has no first host. Proved: `TypeOK`, `AcceptedJobsAreStored`,
`OneRecordPerInvoke`, `KnownJobsAreFound`, `JobReportsAreTrue`,
`ComplaintsHaveNoEffect`, `ReportedStatusIsPublished` and the action property
`StoredRecordsAreFinal`. The last part of the module maps a client to the phase of its call and the
disk to the records, and shows one lemma per action that the step is one of
`JobService` or leaves that picture alone; a record that is replied to is there
because `Answers` and `ReplyIsFresh` say so. What was read by a text that is no job
id takes cases of its own in both (`Fresh`): another app's record, which is true
of its own run, or no record of a host's.

`ProcessExecProofs`. `Inv` adds: one call at a time (`OneCall`); the directory to
return to is the host's own (`KnowsItsWayHome`); the directory entered is the
one chosen (`EntersTarget`); nothing of a command happens before its call
reaches the start, and the verdict tells what happened (`TellsWhatHappened`).
Proved: `TypeOK`, `CommandsRunWhereAsked`, `HostReturnsHome`, `VerdictsAreTrue`.

`PortProbeProofs`, for any number of addresses and any timeouts. `Inv` has two
parts. `Shape` does not speak of time: the call has exactly the socket of the
address it tries (`OneSocket`), the walk stays inside the list while that is
allocated (`InsideList`), and the result is decided by the first address that
accepts (`FollowsAnswer`). `InTime` is the budget: the addresses before the
current one took at most a timeout each, and the current deadline is inside the
next one. The products of the budget are kept out of the first part, where they
would only slow the solver down. Proved: `TypeOK`, `NothingIsLeft`,
`ReportIsTrue`, `WaitIsBounded`.

`ProcessProbeProofs`. `Inv` holds also of hosts that run at the same time: a shell
runs for a host that waits or was killed (`Places`), and a file in the temp
directory belongs to a query under way or to a host that was killed
(`FileOfQuery`). Proved from it: `TypeOK` and `OutputIsRemoved`. `ReportIsOfItsTime`
is stated under `~Concurrent`, which run `process_probe_hosts` shows it needs, and
has an invariant of its own, `InTurn`: one host and its shell at a time (`Alone`); what
`always` and `ever` hold at each place of a query (`Window`); and the file a host is
going to read was emptied by its own shell after the query began, so all that is in
it is what pgrep then saw (`Fresh`), whatever a killed host left under that name.

`TalkProofs`, for any number of clients and requests and any quota. `Inv` has
three parts. `Shape`: types, a server that holds a request only while it works on
it, one message at a time between a client and the server, and as many printed
replies as requests made before the one under way. `Numbering`: no number
that is on its way or printed is beyond the server's count, and no two clients
have the same; a number on its way is newer than all its client has printed; what
is printed grows. `NoneIsLost`: as long as the server is there, each number it gave
away is somewhere. Proved: `TypeOK`, `RepliesAreInOrder`,
`CountedRequestsHaveReplies`.

`RequestsProofs`. The operators of the data modules are long case distinctions,
so most of the work is in lemmas without a state. Every operation that succeeds
makes a value (`OperationIsValue`: a Boolean has a Boolean in it, an integer an
integer, whatever files and literals hold), and a payload made of values is
complete (`PayloadIsComplete`): clients can rely on the types even of a spec that
derives its fields from the wrong things. An operation of a spec that looks at
nothing but processes makes an *honest* value (`OperationIsHonest`): read as a number
it is one of the pids seen, read as a Boolean it is true only if some were seen, one
level down as well; for `running_display` this needs that its texts read as no
number. `StatusInv` then says of the loop: the fields are values, and honest ones if
they all come from probes; what is derived from a probe's field still goes back to
what that probe found (`Found`); what is published is the payload of all of it; and
`ran` has all processes there are. Proved: `StatusIsComplete`, `ReportedPidRan`.
The proof found a flaw in the statement of the latter: that `running` and `pid`
agree was false as it stood of a spec that sets one of the fields again, and no
spec of the run got that far. Now the fields a report is made of are to be set
once, as in the run's specs `bridge` and `twice`. `ReplyInv` says that the request is
what the document says, that nothing but a ping is handled for an app that is not
allowed, and that the reply fits. The refusals are the work: `Validation` names the first
parameter that is missing (`FirstMissing`), and the text of the details is read back
as the name it was made of (`Escaped`, `RefusalFits`). Proved: `TypeOK`,
`RepliesFitDocuments`.

The other three invariants of `RequestsProofs` rest on `TextProofs`. `ResultInv` adds to
`ReplyInv` that a command which is about to run has not ended and printed nothing;
then a command that cannot be launched (`InvokeTells`), a detached one
(`DetachedTells`) and one that ends (`EndTells`) lead to a body that says so
(`SuccessBody`, `FailureBody`), and an object that was printed is the one read back
(`PrintedIsRead`). `ArgsInv` says that at the launch the line is one that the
shell reads as the arguments the action means; between the launch and the reply
`given` holds what was read. `PathsInv` says only that the profile is one that
`LoadHostProfile` accepted: the rest is about its templates. Proved:
`ResultsTellWhatHappened`, `ArgumentsArriveWhole`, `PathsAreSeparate`.

`TextProofs`, for texts of any length over any symbols. What the code does symbol by
symbol is a fold or a recursive function of the model, so every statement about it is
an induction; the library's induction theorems take an operator, which the provers
cannot instantiate, so `Induction` has the same content for a *set* of numbers and
is proved from the least element of its complement (`WFMin`). Four results rest on it.

- `ShellReadsWhatIsBuilt`: of any arguments, what `BuildShellCommand` writes a shell
  reads back as these. The induction is over the arguments and, in one of them, over
  its symbols, with the shell's state after each (`HasRead`); a quote in an argument
  ends the quotation, is escaped and opens it again. The one hypothesis is about a `=`
  in the program's name (see `Requests`).
- `FirstObjectIsFound`: `TryExtractFirstJsonObject` cuts out the first printed object
  whole, whatever braces, quotes and backslashes its strings hold and whatever follows.
  The induction is over the lexemes: after each of them the depth of the scan is the
  number of braces that are open, and it is outside a string. What stands before the
  object must have no brace, which the code needs.
- `TokenIsRendered`: the text of a token is what its pieces spell, so each match of the
  pattern is one of them (`PieceIs`), and the rest is kept. For the program's own
  script, `ScriptIsFound` says that only the argument that names it becomes its path.
- From a path its names can be told. What `Substitute` makes of a text from a place
  on depends on the text from there on alone (`SameSubstitution`); so it can be told by
  how the text begins (`FilledIs`, `FilledStays`), and texts are taken apart symbol by
  symbol (`TemplateInduction`). A template that has a name gives different texts for
  different values of it (`NameTells`: the longer value never makes the shorter path, so equal paths
  are equal at each place where the name stands); of two names, a value
  that ends where a separator begins can be cut off (`CutTells`, `NamesTell`). What was
  put in is not searched for the next name with any effect, because the values have no
  part of a placeholder (`TokenStays`). The proof found that the property had been too
  strong: it had been stated of every accepted template and held in the runs by the
  choice of their names (section 4).

Only model-checked. Liveness (`PendingRequestsAreAnswered`, `CallsReturn`,
`LaunchedCommandsStart`, `ProbesEnd`, `QueriesEnd`, `ServerStops`), which is out of the
prover's reach, as is ENABLED. Every other property of the passing runs, and both
refinements, are theorems.

## 6. Not modelled, and the plan

Not modelled by choice: the Windows branches, `nlohmann/json.hpp`, debug
logging, the build and validation scripts, host configuration files.

Partly modelled: the ZeroMQ transport, whose factory only selects `zmq`.

What is left to do, in the order of its worth:

1. A record store and `action.job.get` in `Requests`, so that what a client reads
   back is the record that was stored, text for text; today `Host` has the store and
   `Requests` the texts.
2. `DecodeExitCode` and `Narrow` over all words of their width, as bit operations;
   the models have the arithmetic of the values that occur.
3. The configuration files of the host and the debug log, which no request changes.
