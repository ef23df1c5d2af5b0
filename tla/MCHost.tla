-------------------------------- MODULE MCHost --------------------------------
(* Two apps, one of whose actions is detached, and two sets of requests: one   *)
(* about jobs, one that exercises every method and every kind of refusal.     *)
(* Three texts that are no job ids lead to the first record of app2, to its    *)
(* snapshot, and to no file of the host's.                                     *)
EXTENDS Host, TLC

CONSTANTS app1, app2, other, act, det, across, status, away

MCLeadsTo == [p \in AllowedApps \X JobTexts |->
                CASE p[2] = across -> <<app2, <<2, 1>>>>
                  [] p[2] = status -> <<app2, SnapshotName>>
                  [] OTHER         -> Elsewhere]

MCCatalog == (app1 :> {act, "config_set_key"}) @@ (app2 :> {det})

Request(method, app, key, action, job) ==
    [wellFormed |-> TRUE, method |-> method, app |-> app, key |-> key,
     action |-> action, complete |-> TRUE, job |-> job]

Invoke(app, action) == Request("action.invoke", app, Absent, action, Absent)
Get(app, job)       == Request("action.job.get", app, Absent, Absent, job)
Set(app)            == Request("config.set", app, "key", Absent, Absent)
ConfigOf(app)       == Request("config.get", app, Absent, Absent, Absent)
StatusOf(app)       == Request("status.get", app, Absent, Absent, Absent)
ListOf(app)         == Request("action.list", app, Absent, Absent, Absent)
Malformed           == [StatusOf(app1) EXCEPT !.wellFormed = FALSE]
Unknown             == Request("events.subscribe", app1, Absent, Absent, Absent)
PingHost            == Request("ping", Absent, Absent, Absent, Absent)

\* A host starts at 2 at the earliest: <<2, 1>> is the first job id of the
\* first host.
JobRequests ==
    {Invoke(app1, act), Invoke(app2, det), Get(app1, <<2, 1>>), Get(app1, across)}

AllMethods ==
    {PingHost, Malformed, Unknown, ListOf(app1), ConfigOf(app2), Set(app1),
     StatusOf(app2), Get(app1, <<2, 1>>),
     Get(app1, across), Get(app1, status), Get(app1, away),
     Invoke(app1, act), Invoke(app2, act), Invoke(app2, det),
     Invoke(other, act), Invoke(app1, Absent),
     [Invoke(app1, act) EXCEPT !.complete = FALSE]}

Symmetry == Permutations(Clients)
================================================================================
