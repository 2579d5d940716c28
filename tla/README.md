# Verification of the Agones gaming demo

TLA+ models, TLC runs and TLAPS proofs for the services of this repository:
game servers on Agones, a service that allocates them, a matchmaker that gives
players of a region a server, a service that scales the fleet by a metric, a
service that exports fleet numbers, and a login service.

## 1. Inventory

| component | state it keeps | operations | talks to | what is hard |
|---|---|---|---|---|
| allocation service (`allocation-service/main.go`) | none of its own; one goroutine per connection | GET `/address`: verb, key, ready check, FleetAllocation, response | Agones API server; called by the matchmaker | status lags, check and create are two calls, `Fatal` in one handler ends all, failures after the effect |
| matchmaker (`MatchMakerController.java`, `AllocationServiceClient.java`) | Datastore: per S2 cell a list of IPs and a list of ports | GET `/allocate/lat/../lon/..`: find the entity, probe its servers, else allocate and record | Datastore, game servers (UDP), allocation service (HTTP) | threads without locks or transactions, stale counts, no timeout on UDP, partial failures, addresses that are used again |
| game server (`gameserver/server.go`) | `playerList`, channel `stop` | NEW, DONE/id, PLIST, PCOUNT, EXIT, UNHEALTHY and four SDK commands; health pings; exporter; signal handler | Agones SDK, Stackdriver, players, matchmaker | goroutines over shared state, lossy network, channel closed twice, every error fatal |
| scaling service (`scaling-service/scale.go`) | `alreadyFasCreated`, `currentBufferSize` (in memory), the FleetAutoscaler (in Kubernetes) | loop: read the resource, read the metric, create, read the version, update | Kubernetes API, Stackdriver | restarts between two writes, two processes in a rollout, version conflicts, empty and summed metrics |
| monitoring service (`monitoring-service/main.go`) | none | loop: read the fleet status, export two numbers | Agones, Stackdriver | failed reads exported as zeros, half-done exports, a start without labels that is never repaired |
| authentication service (`gs_auth_server.py`) | Firebase accounts and user records | register, login, logout, player info, token refresh, activity | Firebase | two stores without a transaction, ten worker threads, keys that collide, two keys for one address, requests that outlive their handler |
| load generators and clients (`locustfiles/*.py`, `gs_auth_client.py`) | none | allocate, NEW, EXIT; the gRPC calls | all of the above | give up after 2 s, never read the answer to NEW |
| Agones, Kubernetes, Datastore, Stackdriver, Firebase | game servers, fleets, entities, series | — | — | external or vendored |

What makes each part correct:

* allocation service: an answer names a server nobody else has; an error names
  none; nothing is spent without anybody knowing, failures aside; calls end.
* matchmaker: players are told servers of their own cell; no server is in two
  places; servers spent on a cell are on record; requests return; servers are
  not filled beyond what the races allow.
* game server: those who play are counted and nobody else; what is exported is
  recent; commands do what they are documented to do; it ends when retired.
* scaling service: the buffer follows the players and never drops below the
  default, whatever happens between two calls.
* monitoring service: what is exported was true, and is true again once the
  faults end.
* authentication service: the record that others are shown says what the last
  completed call said, and belongs to one player; who has a token has a record.

The hazards, each at its line, are in `PROJECT.json`.

## 2. Modules

| module | models | composed with |
|---|---|---|
| `FleetAllocation` | the contract of GET `/address`: a call is asked, then granted a server of its own or refused | — |
| `AllocationService` | the handlers, step by step, with the Agones API server, crashes and restarts | implements `FleetAllocation` (`INSTANCE Fleet`) |
| `Matchmaking` | the contract of the matchmaker: cells own servers, requests are told a server of their cell | — |
| `Matchmaker` | the threads of the controller, Datastore, UDP probes, players | EXTENDS `FleetAllocation` as its allocation service; implements `Matchmaking` (`INSTANCE Contract`) |
| `MatchmakingSystem` | the matchmaker and the allocation service together, calls and answers included | composes `AllocationService` (`S`) and `Matchmaker` (`M`); implements both |
| `GameServer` | one game server process, its clients and the network | PCOUNT is in `Matchmaker` |
| `Scaler` | the scaling loop, the FleetAutoscaler and the metric | — |
| `Monitoring` | the monitoring loop, the fleet status and the two series | — |
| `PlayerSessions` | the contract of the authentication service: a call acts on a session at one moment | — |
| `AuthService` | the handlers of the authentication service over the accounts and the user records | implements `PlayerSessions` (`INSTANCE Sessions`) |
| `FleetAllocationProofs`, `AllocationServiceProofs`, `MatchmakerProofs`, `MatchmakingSystemProofs`, `GameServerProofs`, `ScalerProofs`, `MonitoringProofs`, `AuthServiceProofs` | theorems | extend the module in their name |
| `MC*` | the same on small sets, with symmetry where the run allows it | extend the module in their name |

The chain is: `AllocationService` implements `FleetAllocation`; `Matchmaker`
is built on `FleetAllocation`; `Matchmaker` implements `Matchmaking`. So what
the matchmaker promises rests on the contract of the allocation service and not
on its code. `MatchmakingSystem` closes the chain: with the handlers in place of
the contract, every step of the two is still a step of `Matchmaker`.

Operators whose comment begins with "Mutant" are wrong variants of the
definition that follows them. Each shows that a property notices the bug it is
named for: with the variant in place of the definition, TLC reports a violation.
No specification uses them.

### AllocationService

One record of variables per connection: `pc` is the place in
`getOnly(basicAuth(handleAddress))`, `req` the verb and key it came with, `code`
and `status` the response. `Route` is getOnly and basicAuth, `CheckReady` is
`allocate` up to its first return with `checkReadyReplicas` (an error of the Get
is logged, and the empty Fleet says 0), `Create`, `CreateFails`,
`CreateReturns` are the FleetAllocation call and its outcomes, `Deliver` is the
end of handleAddress. `Crash` is any stop of the process, `log.Fatal` in a
handler included. `gs` and `readyReplicas` belong to Agones: the second is
written by `SyncStatus`, after the fact. `told` and `lost` are history.

### Matchmaker

`entity[c]` is the pair of lists under the key of cell c, as one list of
addresses (the code always writes both). A thread runs through `pc`: `find`
(findBykey), `scan`/`probe` (the loop of findAllocation with getPlayerCount),
`call`/`await` (AllocationServiceClient), `reread`/`write`
(createOrUpdateCellId), `answered`/`failed`. Each step touches one shared store
at most, which is as fine as threads and Datastore can interleave. `net[r]` is
what is under way on the request's socket: the PCOUNT, the count, the ACK. A
server that stopped answers nothing and the probe waits. `ReceiveAck` is the
case in which the ACK is read in place of the count; it needs a network that
reorders or loses. `granted` and `spoiled` are history.

Of the allocation service a thread sees its contract: `CallAllocation` asks,
`ReceiveGrant` is a 200, `ReceiveRefusal` anything else, `CallFails` a
connection that nobody accepts. `AllocationRefuses` takes a set of calls,
because a service that stops answers none of those it has open. `Crash` is a
stop of the matchmaker: its threads are gone, and a call under way goes on
without them.

Tomcat's thread pool, the S2 library and JSON are left out; a location is a cell.

### MatchmakingSystem

`S` is `AllocationService` with `spc` for its `pc`, `M` is `Matchmaker` with its
variables as they are, except `phase` and `grant`: the contract's view of a call
is computed from the place of the handler and the response. A step of one side
is the action of its module, with the variables of the other unchanged. The
steps in which both take part are written here without the guards of the
contract, so that the refinement says something: `CallAllocation`
connects (with the right verb and key), `CallFails` finds the process down,
`ReceiveAnswer` reads the response, by its code, `ConnectionBreaks` is a
connection that ended without one. `kept` is history: the server of an answer
between its reading and its recording, when the service has already forgotten
the call and the contract still counts it as held. `mislaid` is history, too: the
servers that a request had in its hands when it failed, and those that a write of
stale lists took off the record. `NoServerForgotten` excuses these and `lost`
server by server; that a cell had trouble (`spoiled`) excuses nothing there. When the matchmaker stops
during a call, its handler goes on; the next request in this slot starts when
that call is over (`Recycle`). `ServiceFaults` and `MatchmakerFaults` are chosen
apart; calls break (`"http"` of `Matchmaker`) when the service may fail or stop.

### GameServer

`Receive` is one round of readWriteLoop: one datagram, its handler, all its
effects. `health`, `exporter` are the places of the two goroutines. The map is
a set of ids; `Fresh` stands for xid. `seen` is history: the player counts since
the last export. Clients follow the README (NEW, read the id, DONE/id); the one
that stops waiting is the load generator. ACKs are left out because no client
waits for them; where one matters, in the matchmaker's probe, `Matchmaker` has
it. A process that ended stays ended: Agones replaces the whole pod.

### Scaler

One process is the loop of `main`; `pc` names the call it makes next. A
ResourceVersion is only ever compared with the newest, so `latest` holds the
processes whose version is the newest, and every write empties it. Every
`Fatal`, and the panic on a metric without points, is a stop, followed by a
restart. `Align` is the aligned sum Stackdriver returns: every export of a
period counts, so it is `SamplesPerPeriod` times the players. `EditByHand` deletes
the resource or sets its buffer to any value, below the default and zero
included; `byHand` is history and says that the last change was of this kind. The
ready replicas the loop reads are only logged and left out. Whether Agones takes a buffer above
`MaxReplicas` is not in this repository, so `PerformAutoScale` may be accepted
or refused there.

### Monitoring

`Start` is `main` before the loop, with `GetResourceLabels` whose errors the
code drops; `CheckReplicaStatus`, `ExportMetric` and `Wake` are one round. A
failed Get returns an empty Fleet, which reads as zeros; a failed export may
have stored either point. `seen` and `failed` are history: the statuses the
fleet had since the round began and the calls of the round that failed. Two
processes of a rollout export under their own pod names, so one is modelled.

### AuthService

Each thread of the gRPC pool handles one call: `Begin` takes it up (and the
time, which the handlers take before they call Firebase), `RegisterPlayer`,
`LoginPlayer`, `CheckExists` and `GetPlayerInfo` are the first call a handler
makes, `UpdateRecord` and `ReadRecord` the second, `Answer` the response. A call
to Firebase may raise before or after its effect ("firebase"), a client may
give up while its call goes on ("timeout"), the process may end ("crash").
`accounts` is
Firebase Authentication, `record` the part of Firebase Database under `users/`,
with the two fields somebody reads.

An address has two forms. Register, logout and activity go by the address of
the request (:64, :95, :144), login and info by the one that Firebase returns
(:84, :120), which it keeps in lower case. So `KeyOf` is `create_email` of the
first, `AccountKey` of the second, `AccountOf` what Firebase makes of the one, and
`KeyFor` says which a handler takes. `create_email` keeps the name and the first
two labels of the domain; addresses it refuses are refused at once and left out.
`Shown` is the record that GetPlayerInfo reads.

A request to Firebase can also outlive its handler: `RaisesEarly` leaves it in a
slot of `Late`, from which it lands at any later time (`Land`) or never
(`Vanish`), whatever the player has called since. A process that ends while a
request is on the wire is `RaisesEarly` followed by `Crash`.

`told` is history: what a player can conclude about the own session from answers
to calls that no other call or late request of the player overlapped, as `alone`
in each call records. The answers of GetPlayerInfo to a bad token (the handler
goes on and raises on an unbound name) are failures.

`PlayerSessions` has no accounts, no times and no two stores: a call that is
open either acts on the session below its key, whole and at once, or breaks, and
a broken one has acted, has not, or does so later (`BreakEarly`, `ActLate`), but
not twice. The key is that of the returned address or of the typed one, by the
kind of call: that these are one session is not promised, because for an address
with capitals it is not so. `session`, `stage` and `asked` at the end of
`AuthService` are what can be seen of it in the service.

## 3. Runs

All runs end within four minutes on two workers, most of them within one.

| run | question | bounds |
|---|---|---|
| `allocation` | are answers right, is waste only by failures, do calls end, is every step one of the contract? | 2 connections, 3 addresses (1 may stop), every fault |
| `matchmaker_safety` | one home per server, spent servers on record, no more overshoot than the races explain, players told servers of their cell | 2 requests, 2 cells, 2 servers (1 may stop), room for 1, every fault; until a cell has two servers on record or every cell lost one |
| `matchmaking_system` | over the real service: is every step one of the matchmaker over the contract, is every single server accounted for, does every request return? | 2 requests, 2 cells, 1 server, room for 1, every fault but those of datagrams; until an allocated server stops |
| `matchmaker_lost_update` (violation) | does recording a server keep the others? | 2 requests, no fault |
| `matchmaker_dead_server` (violation) | does every request return when a recorded server stopped? | 2 requests, 2 servers |
| `gameserver_lossy` | do players who are in stay in the list? | 2 clients, 3 ids, datagrams lost, repeated, reordered |
| `gameserver_clean` | no ghosts, recent exports, joins end, pings off ends the server | 2 clients, 2 ids, every command, kills and failed calls |
| `scaler_rollout` | below the default by hand only, and not for long; settles when the players do, at the size for the aligned sum | 2 processes, default 2, up to 2 players, 6 exports a minute, a maximum of 4, 1 fault or manual change, to 0 to 3 |
| `scaler_ratio` (violation) | one server for `DefaultReplica` players, as the README of the service says? | 1 process, default 4, up to 3 players, no fault |
| `monitoring` | is what is shown true, and does it become true again? | up to 2 servers, 3 faults |
| `auth_calls` | do answers stand, do tokens find records, do capitals keep a player in, does time only go back by overlap, does a call act at one moment? | 2 players, one with capitals, 3 keys, 2 threads, 1 late request, 3 times, every fault; one player at a time |
| `auth_shared_key` (violation) | do answers stand when two addresses have one key? | 2 players, 2 threads, no fault |

Why the bounds are enough for the cases meant: every race in these services is
between two calls (two connections, two threads of one cell, two processes, two
clients), so two of each produce it. Three addresses let two be taken while one
stays; three ids let a late datagram meet an id of the next visit. A server with
room for one player is full at once and makes requests go on to the next. With a
default of 2 and six exports a minute, no player, one and two ask for the
default, for three servers and for six, which is above the maximum of the run.
Two threads let two calls of one player overlap in every order, and in
`auth_shared_key` of two. Three times are one for the record and one for each of
two calls that overlap; `MaxTime` only stops the clock, so later calls begin at
the same time. One late request is enough to meet the next calls of its player;
what it does to another player's record is excluded by the keys, and in general
by the theorems. For the same reason `OnePlayerAtATime` (in `MCAuthService`)
lets the calls of one player end before another calls: players whose keys differ
share nothing but the clock. The run with shared keys does not have it. A manual
change sets buffers from 0 to `MaxEdit`, one above the default in
`scaler_rollout`.

A server that stops can be recorded over and over, in one cell or in two.
`ShortLists` (in `MCMatchmaker`) therefore bounds the lists: states beyond the bound
are checked, too, but not followed. In `matchmaker_safety` the bound is one, which
still has a second server recorded next to the first, lists replaced by a stale
write, and an address that stands in two cells because its server stopped and was
allocated for the other one. `OneCellUnhurt` ends a behaviour there when every cell
has lost a server: one that has and one that has not are the cases to compare.
What longer lists and more leaks do is in the theorems `RecordedOnce`,
`SpentServersStay` and `OvershootIsBounded`.

In `matchmaking_system` one server is enough for two requests, of one cell or of
two, to compete for it and for one of them to be refused after the ready check
let it pass. With one server the trouble of another one cannot hide anything; that
`NoServerForgotten` tells servers apart is in `NothingForgotten`, for any number.
The run follows a behaviour while `ServersRun` holds: the liveness property
assumes just that, and what a server that comes back at its address does to the
matchmaker is in `matchmaker_safety` and in the theorems.

`MaxFaults` and `MaxTotal` bound `Scaler`, `MaxFaults` and `MaxServers`
`Monitoring`: their liveness asks what happens after the faults, so there must
be a last one.

Deadlock is checked, except for `GameServer`, where a process that ended leaves
nothing to do.

### What the violations show

* `matchmaker_lost_update`: read, append and write of an entity are not one
  transaction; the later of two writes drops the other's server from the
  record for good, while it stays Allocated.
* `matchmaker_dead_server`: `socket.receive` has no timeout.
* `auth_shared_key`: p@mail.example.org and p@mail.example.com have one record,
  so one player's login undoes the logout of the other.
* `scaler_ratio`: the metric is an ALIGN_SUM over 60 s of a gauge exported every
  10 s, so it counts every player six times; three players get five servers,
  where the README of the service divides the players themselves and means four.

What the passing runs say of the code that its documentation does not:

* A server can get more players than the maximum, because the count is read when
  the probe is answered and the player joins later. `OvershootBound` says how
  many: one more for each other request in flight.
* `Unhealthy` in `GameServer`: `close(stop)` runs once per UNHEALTHY, so a second
  one panics. `UnhealthyRetires` holds with that.
* `BufferSettles`: the size that `scaler_ratio` complains of is the one the code
  aims at, and it reaches it after every fault. A peak above the maximum, which
  may stop every round in Fatal while it lasts, does no harm afterwards.
* `DefaultRestored`: a buffer that somebody set below the default is corrected,
  although a round that read it before goes on from the old value.
* `CapitalsStayIn`: contrary to the comment at :91 of `gs_auth_server.py`, a logout
  does not set loggedIn to False for an address with capitals: it writes below the
  typed address, the login below the returned one, and who has logged in once is
  shown as logged in for ever. `AnswersStand` speaks of logouts and registrations
  for addresses without capitals only.
* `SeriesSettles`: the one fault of the monitoring service that never heals by
  itself is a start while the metadata server does not answer.
* `ActsAtOnce`: that the check and the write of logout and of the activity update
  are two calls to Firebase does no harm by itself, because no handler deletes a
  record. What a failed call did, or will still do, is known to nobody, but it is
  all or nothing, and once.
* `AnswersStand`, `OnlyOverlapTurnsBack`: calls of one player that overlap, or meet
  a late request, leave the record in either state, and turn its time back; calls
  that wait for each other, and for what an earlier one left on the wire, do not.

### Fairness

* `AllocationService`: weak fairness of each connection's next step (goroutines
  are scheduled, the API server answers or errs) and of the restart, which the
  Deployment makes. None for clients, for the status controller or for faults.
* `Matchmaker`: weak fairness of each thread, of the answers of the allocation
  service and of a live game server that reads its socket. Nothing makes a
  player join or leave. That calls are answered is not taken on trust: it is
  `EveryCallEnds` of the service, and `matchmaking_system` checks
  `EveryRequestReturns` over the handlers themselves.
* `MatchmakingSystem`: weak fairness of each thread, of each open connection's
  handler and of a live game server. The restart of the service needs none: while
  it is down, calls fail.
* `GameServer`: weak fairness of goroutines, of each client's datagrams (the
  socket queue is first in, first out) and of Agones' health check; strong
  fairness of the `stop` branch of the select in doHealth, because Go picks at
  random among the ready branches, each time.
* `Scaler`: weak fairness of each process and of the metric.
* `Monitoring`: weak fairness of the loop, restart included.
* `AuthService`: none; its properties are safety.

## 4. Proofs

All theorems hold for every number of requests, servers, cells and players and
for every choice of faults; the only assumptions are the named ones of the
modules (`FleetAssumption`, `ServiceAssumption`, `MatchmakerAssumption`,
`SystemAssumption`, `GameServerAssumption`, `ScalerAssumption`, `MonitoringAssumption`,
`AuthAssumption`: the "none" values are not in the sets they stand
outside of; requests, servers and player ids are finite; the default buffer is
not zero), and, where they are named, `KeysDistinct` (no key of one player, typed
or returned, is a key of another), that the clients are
finitely many, and the two `...TakeTurns`.

* `FleetAllocationProofs`: `AllocTyped`, and `AllocExclusive`: under the
  contract no server is held twice. The invariant adds that a granted phase
  and a granted server go together.
* `AllocationServiceProofs`: `ServiceTyped`; `AnswersMatchCodes`;
  `NothingWasted`; `ServiceImplementsFleet`, the refinement. What a response
  says at the end follows from what the connection held on the way, so the
  inductive invariant `AnswerInv` relates `status`, `code` and `pc`
  (`StatusFollowsPc`) and says that a held server is Allocated and held once
  (`HeldOnce`). For the refinement, `OnePhaseChanges` reduces a step to the
  phase of the one connection it moves; a crash is a refusal of all open calls.
* `MatchmakerProofs`: `MatchmakerTyped`, `RecordedOnce`, `SpentServersStay`,
  `OvershootIsBounded`, `MatchmakerKeepsContract`. The inductive invariant
  `Inv` has the parts
  - `Stages`: how `pc`, the phase of the call and the answer of a request agree;
  - `Provenance`: whatever is in an entity, in an iterator or in an answer was
    granted to that cell;
  - `OneOwner`: a server that cannot stop belongs to one cell;
  - `HeldAlone`: a server still in the hands of a call is known to nobody else.
    Without it, the append in `Write` might record a server twice;
  - `ListsDistinct`: no repetition in a list, read or stored;
  - `PlayersFollowGrants`: only a granted server has players.

  `SpentServersOnRecord` and `OvershootBound` are inductive relative to `Inv`.
  In the second, a request that sees room becomes committed, and a player that
  joins was committed before: the sum of the two does not grow.

  Two more theorems say what the races come down to. `TurnsKeepServers`: if the
  requests of a cell take turns between the second reading of its lists and the
  put (`WritesTakeTurns`), no server is ever dropped, which
  `matchmaker_lost_update` refutes without the condition.
  `TurnsPreventOverfilling`: if only one request at a time is between the count
  and the joining of a server (`JoinsTakeTurns`), no server that cannot stop
  gets more players than the maximum. Both conditions allow everything else to
  overlap and fail; they tell what a repair has to provide.
* `MatchmakingSystemProofs`: `SystemImplementsMatchmaker`, the refinement, and
  what follows from it. The inductive invariant `SystemInv` is the agreement of
  the two halves of a call (`Agreement`): a connection is open only for a
  thread that waits or failed, and a thread that has read a 200 keeps the
  server of its answer until it records it. It needs what
  `AllocationServiceProofs` found of the service (`ServiceInv`), which holds here
  because the service acts as it does alone (`ServiceUndisturbed`). Then each
  step of the service is a `Grant`, a `Refuse` or nothing (`ServeStep`,
  `CrashStep`), and each shared step is the thread's step over the contract
  (`CallStep`). `PromisesCarryOver` cites the theorems of `MatchmakerProofs` for
  the system, so they hold over the handlers. `NothingForgotten` accounts for each
  server by itself: a step can take a server out of a list or out of somebody's
  hands only by recording it, losing it or mislaying it (`AccountsStep`), and
  `Write` drops none that `mislaid` does not name (`WriteAccounts`). `SP` and `MP` are the instances
  of the proof modules; `SameService` and `SameMatchmaker` say that their copies
  of the specifications are those of `S` and `M`.
* `GameServerProofs`: `GameServerTyped`, `PlayersStayCounted`,
  `ExportsAreRecent`. That a client who is in stays in the list is not
  inductive: a DONE under way, or a reply not yet read, could name its id. The
  invariant `IdInv` says that a client has an id from the answer to its NEW to
  the end of its DONE (`IdsOfPlayers`), that no two clients have the same one
  (`OwnIds`), that an id in an "added" answer is in the list, nobody else's and
  in no DONE (`Offered`), and that no DONE names the id of a client who is in
  (`Counted`). `Count` is a number because the ids are finite.

  `NoGhostsRemain`: without network faults each visit of a client has at most
  one datagram under way, the one the client waits for (`News`, `Dones`,
  `Answers`); with that every id in the list has an owner (`Owned`).

  `PlayersCountedOnce`, for finitely many clients and under the same condition:
  neither the list nor the exported count is ever larger than the number of
  clients. An owner of an id plays with it or waits for the answer that names
  it, so it owns one only (`OneIdEach`), and the list maps injectively into the
  clients: on such a network PCOUNT is a number of players, as `Matchmaker` has it.
* `ScalerProofs`: `ScalerTyped`, and `BufferAtLeastDefault` for any number of
  processes. `DesiredSize` says that `DesireBufferSize` is the least number, not
  below the default, whose servers hold the players; the invariant carries it
  to the targets, which a process that was overtaken may still write. Manual
  changes set anything, so the theorem says that a buffer below the default is one
  of theirs and that no write of the service came after it. That it is then
  corrected is liveness.
* `MonitoringProofs`: `MonitoringTyped` and `SeriesAreTruthful`. What the
  process holds between the Get and the export is a status of this round
  (`RoundInv`).
* `AuthServiceProofs`: `AuthTyped`; `TokensHaveRecords`; `CallsActAtOnce`; and,
  assuming `KeysDistinct`, `AnswersHold`, `CapitalsShownIn` and
  `TurnsBackByOverlap`. Without the assumption `auth_shared_key` refutes the first
  of these three. Every step is of one of a few kinds (`StepKinds`): a handler goes
  on, leaves a request behind, begins or answers; a thread or a late request
  writes; a late request ends; or the process does. `Found` says that a call past
  its check, late or not, has a record. `SessionInv` has the parts
  - `Alone`: a call or late request that counts as alone has no other of its player
    beside it, except the failed handler that it outlived;
  - `Pending`: nothing is said of a session while a call or a late request may
    change it;
  - `Written`: what a lone call wrote is still there when it answers;
  - `CapitalsIn`: only logins write below the returned address when it is not the
    typed one, so a record there always says logged in.

  `TimeInv` adds that a record below a typed address belongs to an account
  (`Registered`), so that a lone registration finds none (`NewPlayers`), that no
  time is in the future (`Past`), and that a lone call, late or not, began after
  the times in both records of its player (`Later`). `CallsActAtOnce` is the
  refinement of `PlayerSessions`, with or without shared keys and capitals: by
  `Found` what a handler checked still holds when it, or its late request, writes,
  so the write is the whole effect of the call (`ThreadSaves`, `LateActs`), and
  every other step leaves the call open, breaks it, or reads for it
  (`GoingOnActs`, `LeavingBreaks`).

Only model-checked: all liveness properties, since fairness is out of the
prover's reach.

## 5. Not modelled

How Agones turns a buffer into replicas; the exact content of messages, logs and
labels; the bodies of the health routes of the allocation service; the commands
of the game server that only ask; the token refresh of the authentication
service, which changes no store, and the two times nobody reads; a pool of
threads that all wait for Firebase; clocks that go back; the generated gRPC code and the vendored
libraries. Requests that land after their caller has failed are modelled where the
caller's next steps could meet them in the same store, for Firebase; the writes to
Datastore, Kubernetes and Stackdriver take effect before their call fails or not
at all.

## 6. Plan

Done, in this order: `FleetAllocation`, `AllocationService`, `Matchmaking`,
`Matchmaker`, their proofs, `GameServer`, `Scaler`, `GameServerProofs`,
`Monitoring`, `AuthService`, `ScalerProofs`, `MonitoringProofs`,
`AuthServiceProofs`, `MatchmakingSystem` with its proofs, `PlayerSessions`.

Next: an abstract roster of players that `GameServer` implements on a network
without faults, as the contract that PCOUNT in `Matchmaker` stands on.
