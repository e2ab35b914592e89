# stationchat in TLA+

Specifications, model-checking runs and proofs for *stationchat*, the chat
gateway in this repository (`src/src/stationchat`, on top of
`src/src/stationapi`). Game servers connect to it over UDP and forward what
their players do: log in and out, keep friend and ignore lists, enter and run
chat rooms, send mail. A *registrar* in the same program tells a game server
which gateway of a cluster to use. State is kept in memory and, in part, in
MariaDB; a website reads tables that the gateway writes for it.

Paths below are relative to the repository (`src/` is its root here).

## 1. Inventory

| Component | State | Operations | Made correct by |
| --- | --- | --- | --- |
| Chat room (`ChatRoom.cpp`) | members, moderators, bans, invitations as vectors; attributes; row id | enter, leave, kick, add/remove moderator, ban, invitation | lists without duplicates, bans that hold, staff only changed by staff |
| Room service (`ChatRoomService.cpp`) | `rooms_`, `nextRoomId_`; table `room` | load on a SYSTEM login, create, destroy, persist, look up | one room per address, ids that keep their meaning, a row that belongs to one room |
| Avatar service (`ChatAvatarService.cpp`, `ChatAvatar.cpp`) | `avatarCache_`, `onlineAvatars_`; tables `avatar`, `friend`, `ignore` | look up (and load), log in, log out, friends, ignores | flag and list of online avatars agree; memory agrees with tables; friend and ignored exclude each other |
| Request handlers (`protocol/*`) | request and response of the one in progress | one constructor per request type | refusals change and tell nothing; answers are complete, in order, and always given |
| Gateway (`GatewayNode`, `GatewayClient`) | `clientAddressMap_`, clients | dispatch requests, send updates | game servers know which friends are online and who is in a room |
| Mail (`PersistentMessageService.cpp`) | table `persistent_message` | store, read (which marks read), file, file in bulk | what was answered SUCCESS is stored; filing stays |
| Website integration (`WebsiteIntegrationService.cpp`) | columns found at start-up; tables of user links, presence and mail copies | inspect columns, record login, logout, message | the website shows what the game shows, whatever optional columns it has |
| Registrar (`RegistrarNode.cpp`) | weighted list, index, endpoint health | answer a request, report success or failure | shares by weight, preferences, blacklist with penalties |
| Cluster configuration (`StationChatConfig.hpp`, `main.cpp`) | `gatewayCluster` | parse, merge, expand | no line lost, weights kept within bounds |
| Database client (`stationapi/MariaDB.cpp`) | connection, statements with bindings and cursors | prepare, bind, step, reconnect | values go where their names are; no row is missed when a statement starts over; a change is made once |
| Node transport (`Node.hpp`, `NodeClient.cpp`) | clients, two streams each | accept, tick, receive, send | clients of lost connections go; a packet is read on its own |
| Serialization (`Serialization.hpp`, `StringUtils.cpp`) | | read, write, narrow, widen | what was written is read |

**How they interact.** One thread runs everything: `main` ticks the gateway
and the registrar in turn (`StationChatApp::Tick`). A request is read,
dispatched by type (`GatewayClient::OnIncoming`) and handled to its end by the
constructor of a handler class in `protocol/Protocol.cpp`, which calls the
services, sends updates to other game servers, and fills in the response.
`HandleIncomingMessage` turns a `ChatResultException` or `MariaDBException`
into a result code, *without undoing anything*; other exceptions, and null
pointers, kill the process, and with it every connection. systemd restarts it
(`extras/install_stationchat_service.sh`) with empty memory.

**Where it is hard.** Not in threads, but in

* partial failure: memory changes before the statement that may throw;
* lost answers: a statement is carried out and reported as failed;
* crashes: ids, lists and presence vanish, rows stay, the website is not told;
* restarted SELECTs: the client runs a statement again on a new connection and
  hands rows to the reading loop a second time;
* long sequences: `erase(remove_if(...))` of one element, aliases in the cache,
  rooms that come back half-built;
* clusters: several gateways on one database, each with its own memory;
* the outside: packets that end early, columns that are missing, connections
  that are replaced by others at the same address.

`PROJECT.json` lists the hazards one by one with their lines and the
properties aimed at them.

## 2. Modules

| Module | Models | Checked by | Proved in |
| --- | --- | --- | --- |
| `ChatRoom` | one room: its record and the operators its methods perform | through `ChatRoomService` | `ChatRoomService_proofs` |
| `ChatRoomService` | the rooms of one gateway, table `room`, all room requests | `MCChatRoomService` | `ChatRoomService_proofs` |
| `RoomDirectory` | abstract specification of the room service | refined by `ChatRoomService` | `ChatRoomService_proofs` |
| `ChatAvatarService` | avatars, friends, ignores, presence, the website's presence table | `MCChatAvatarService` | `ChatAvatarService_proofs` |
| `PersistentMail` | mail and its copies for the website, from several gateways | `MCPersistentMail` | `PersistentMail_proofs` |
| `ClusterView` | configuration lines to weighted list (pure algorithms) | `MCRegistrarNode` (part `view`), `MCClusterView` | `RegistrarNode_proofs` |
| `RegistrarNode` | the registrar's selection and blacklist | `MCRegistrarNode` (parts `program`, `interface`) | `RegistrarNode_proofs` |
| `Registrar` | the last two side by side, with what each promises | `MCRegistrarNode` | `RegistrarNode_proofs` |
| `MariaDBStatement` | execution of a statement, lost and replaced connections | `MCConnections` (part `statement`) | `MariaDBStatement_proofs` |
| `MariaDBPrepare` | the text of a statement, its parameters and bindings | `MCConnections` (part `text`) | `MariaDBStatement_proofs` |
| `DatabaseClient` | the last two side by side, with what each promises | `MCConnections` | `MariaDBStatement_proofs` |
| `GatewayNode` | connections, `clientAddressMap_`, what game servers hear of a room | `MCGatewayNode`, `MCConnections` (part `updates`) | `GatewayNode_proofs` |
| `Protocol` | every request, its answer and the steps of its handler (data) | through `RequestHandling` | `RequestHandling_proofs` |
| `RequestHandling` | one connection: dispatch, handling, failures, answers | `MCRequestHandling` (part `requests`) | `RequestHandling_proofs` |
| `NodeClient` | the streams of a connection, fields as bytes, width of names | `MCRequestHandling` (part `streams`) | `RequestHandling_proofs` |
| `GatewayClient` | the last two side by side, with what each promises | `MCRequestHandling` | `RequestHandling_proofs` |
| `Cluster` | several gateways over tables `avatar` and `friend` | `MCSharedTables` (part `cluster`), `MCCluster` | `SharedTables_proofs` |
| `WebsiteStatus` | the website's columns, links and statuses | `MCSharedTables` (part `website`) | `SharedTables_proofs` |
| `AvatarAttributes` | the attribute word of an avatar, in memory and stored | `MCSharedTables` (part `attributes`) | `SharedTables_proofs` |
| `SharedTables` | the last three side by side, with what each promises | `MCSharedTables` | `SharedTables_proofs` |

`RequestHandling` extends `Protocol`, and `ChatRoomService` extends `ChatRoom`
and refines `RoomDirectory`. Four modules join what the code joins and what
shares no state: `SharedTables` extends `Cluster` and instances `WebsiteStatus`
and `AvatarAttributes`; `Registrar` extends `RegistrarNode` and instances
`ClusterView`, and `RegistrarNode` once more for its public interface;
`DatabaseClient` extends `MariaDBStatement` and instances `MariaDBPrepare`;
`GatewayClient` extends `RequestHandling` and instances `NodeClient`. They name
what the instances promise, the runs check it and the proofs are about it. The
others stand for themselves: each takes from its neighbours only what it needs,
and names it in its header.

### Conventions

* An action is a whole handler, with every service call it makes. A handler is
  one step where only one gateway is concerned, as the gateway has one thread;
  in `PersistentMail`, where gateways share tables, a step is one statement.
* A request that is refused changes nothing and has no action, nor has a
  request that only reads, in the modules of the services. (One exception:
  looking an avatar up may *load* it, which is `GetAnyAvatar`.) That refusals
  change nothing is itself checked, in `RequestHandling`.
* A database statement may fail, or succeed with its answer lost, wherever the
  code sends one. The process may die at any time (`Crash`), which also stands
  for the requests that kill it.
* Operators introduced by a comment `Mutant:` are plausible mistakes in
  the definition that follows. No specification uses them; they show that
  each property can fail. `PROJECT.json` lists one for each property of a run.
* Some runs join modules that belong together and do not touch each other's
  state. Their MC module holds a variable `part`, chosen at first and kept: the
  modules named by the other values of `part` stay as they begin, so each
  behaviour is one of one module. The properties of an instanced module are
  named where it is instanced, with their statement. Modules that are only
  instanced say what their constants must be in a definition
  (`AttributesConstants`, `WebsiteConstants`, `ClusterViewConstants`,
  `MariaDBPrepareConstants`, `NodeClientConstants`) that the joining module
  assumes of the instance, as `ASSUME` is evaluated where a module is extended.
* A property whose name ends in `Sound`, and a few others (`Consistent`,
  `RefusalsLeaveNoTrace`, `UsesOnlyWhatIsThere`, `ListMeetsReference`,
  `Settles`), is what the runs check of several named properties together: a
  module's type invariant with invariants about the same state, or two halves of
  one promise. Each of the named ones has a comment of its own, and a mutant
  that breaks it.

### ChatRoom and ChatRoomService

A vector is a bag (`Avatar -> Nat`), since its order is never observed but
how often an id occurs in it is: `Erase` removes *one* occurrence, like
`v.erase(std::remove_if(...))`. `May...` is the condition under which a method
does not throw, `With...`/`Without...` the room it leaves.

`rooms` is `rooms_`, `roomTable` the table, `nextDbId` its AUTO_INCREMENT.
Details of the code that the model keeps because they matter:

* `LoadRoomsFromStorage` empties the list of *all* nodes' rooms first, numbers
  rows it then skips, and leaves `roomService_` null in what it loads. Its
  query concatenates with `||`, which MariaDB takes for OR unless the
  `sql_mode` says otherwise: `PipesAsConcat` covers both (the runs take TRUE,
  where something is loaded).
* `PersistNewRoom` hides a failed insert from its caller. Rooms without a row
  id, and rows without a room, result.
* `PersistBanned`, which both `AddModerator` and `AddBanned` call, sends a
  statement MariaDB does not accept: memory changes, the answer is DATABASE. On
  a loaded room the call goes through the null pointer.
* The predicate in `DestroyRoom` reads freed memory once two rooms follow the
  one removed. The value found is taken to be the id of no other room; this
  is the one place where the model does not allow every outcome.

`RoomDirectory` says what the service promises: a map from addresses to rooms
with a roster, in which a locked or private room or a banned avatar is
respected, and which only creation, destruction, reloading and restart change
as a whole. `ImplementsDirectory` is its refinement.

### ChatAvatarService

`cache[a]` lists the objects cached for avatar `a`: one per spelling of the
name that requests use, since MariaDB compares names without case and the
cache compares exactly. `onlineAvatars` refers to objects. `told` is a history
variable: the friends of `a` that its game server was last told are online.
`torn` and `unsettled` record the pairs and avatars about which a game server
was answered DATABASE (or a list was read incompletely, or removing a friend
listed twice left another one twice, `Doubled`); the properties speak
about everything else, because the code undoes nothing when a statement
throws and says so only by that answer.

Table `ignore` is never written or read: its name is a reserved word that the
statements do not quote. The action `AddFriend` of an avatar that is ignored
therefore only ends the ignore. Requests about oneself, SYSTEM avatars,
friend comments and attributes are left out; one game server is connected; a
restarted read delivers a row at most twice.

### PersistentMail

`work[g]` is where the handler of gateway `g` stands between two statements of
a request: after storing a message (the link and the copy are still to be
made) and after reading one that was NEW (it is still to be marked READ).
`Serves` says at which gateways an avatar's requests arrive; anyone may send
mail from any gateway. Checks of the recipient and of its ignore list happen
in memory before the first statement and only refuse. User links that logins
make are left out, and so is the notification sent to the recipient's server.
A statement is assumed to end when its connection does.

### ClusterView and RegistrarNode

`ClusterView` reads configuration lines one by one, merges and expands them.
The loop that merges is a recursive function over the lines (`Accumulated`).
`RegistrarNode` takes any non-empty list (`Weighted`) as given. Time is what
is left of each penalty, in units of a tick. `Next` is the program: the single
request handler. `InterfaceNext` calls the public methods of the node in any
order, which the program does not, because only so the blacklist is ever
used (see *What the checks show*). In `Registrar` that is the instance `Api`, a
second node with a list of its own.

### MariaDBStatement and MariaDBPrepare

`MariaDBStatement` is one statement from `mariadb_prepare` to its end, with
the loop of the service around it (`caller`). `EnsureConnection` lists how a
ping and a reconnection may end; a new handle may lie at the address of the
one that was just freed, which is the only thing `mariadb_step` compares, so a
statement may go on with its old result on a new connection. `Nested` is a
statement that a loop runs between two rows (`LoadFriendList` loads each
friend). The history variables say what was handed out and carried out.

`MariaDBPrepare` scans a text token by token. A token is a quote, a parameter
or anything else, so the texts of the runs are all texts up to a length.

### GatewayNode

`clients` are *places* where a client may lie: `clientAddressMap` is a map to
places, as the code's raw pointers are, and a place that was freed may be used
again by another server's client, which then gets what is meant for the first.
`pipe[c]` is what has been sent and not received; the channel is reliable and
ordered while its connection lasts. The far ends are external: a game server keeps a list of
the room's avatars while one of its own is among them, and drops it when it
logs in anew. `ViewsAgree` speaks of a server that has received all it was
sent; between, its list is behind, which is what `GhostsVanish` is about. The bound
`MaxUnderWay` is on the messages of all connections together, so that one of
them may have a queue while others are idle. `Settles`, which is liveness, is
checked on a smaller instance, without symmetry.

### Protocol and RequestHandling

`Protocol` is data: for each request the fields that are read, always or
depending on a flag; for its handler the paths through its constructor, each
a sequence of steps (find, need, make, check, change, tell, put) with the
objects they dereference and the outcomes they can have; for its answer the
fields that are written in any case and those on SUCCESS. `RequestHandling`
interprets it: `OnIncoming` is the dispatcher, `Perform` one step of a handler,
`Send` the answer after a return or a caught exception. What a refused or
failed handler leaves behind can so be asked of all 32 handlers that have a case at once.

The process can end in two ways. A handler that reads an object it did not find
is found by the model itself (`Dereferences`); every other cause is the outcome
`dies` of the step that meets it: a null contact in a list of friends
(`ChatAvatarService.cpp:451`), which `AddFriend`, `RemoveFriend`, `AddIgnore`,
`FriendStatus` and the updates of a login or a logout walk; a pointer in
`clientAddressMap_` to a client that was freed, which any update may go through
(`Tell`); a null `roomService_`, a failed load of rooms, the predicate in
`DestroyRoom`; and, while a request is read, room for a text whose 32-bit length is
arbitrary or never came (`OnIncoming`). No property says that these do not
happen. Running out of memory elsewhere is left out.

Known and kept: `DESTROYAVATAR` has a handler and no case; a type without a case
is never answered; `AddFriend` drops the comment of the request,
`GetRoomSummaries` its filter and `GetPersistentHeaders` its category;
`ResEnterRoom` never sends the room it announces; refused answers carry ids that were
never given a value.

### NodeClient

Bytes have `Base` values, not 256, and everything else is as in the code:
little-endian integers of up to four bytes (`Weight` is what each byte counts),
16-bit lengths of strings and 32-bit lengths of wide ones, streams that fail and
then give nothing. `Field` lists the types that have a `read` and a `write`. `OnRoutePacket` replaces the
contents and clears the state; nobody tests the stream afterwards, so a short
packet leaves fields `Undefined`. A wide string is given room for its length
before anything tells whether one was read, and the exception of that ends the
process (`Terminate`); a short string's 16 bits always find room. `FromWideString` and `ToWideString` are what
a name goes through on its way to the database and back.

### Cluster

Each gateway has a cache; `avatarTable`, `friendTable` and `nextId` are the
database's. The login of a new avatar is three steps (look up, insert, ask
for the id), as other gateways insert in between; everything else is one.
`writers` records which gateways have changed the friends of an avatar: where
it was one gateway alone, its memory is right; elsewhere nothing refreshes a
cache, which is the finding `NodesInSync`.

### WebsiteStatus

The website owns the tables. `columns` is what they are, `info` what the
constructor saw when the process started; `Migrate` changes one and not the
other. `at` is the statement that comes next, as a login is two of them.
MariaDB is external: columns of numbers are unsigned and not null, the server
is strict. What it makes of NULL in a `TIMESTAMP NOT NULL` is not considered.

### AvatarAttributes

Words of 32 bits, up to twice what an `int` can hold (`IntMax`) and one more, pass
through `int` on their way to the table and through `std::stoi` on their way back. `strict` is the server's mode: it refuses a
negative number or stores 0. `apart` records the gateways whose memory need
not be what is stored: their last change was temporary or failed, or another
gateway has written since.

## 3. Runs

| Run | Instance | States | Question |
| --- | --- | --- | --- |
| `rooms` | 2 avatars, 2 addresses under 2 nodes, ephemeral, private and stored rooms, 2 ids and rows; the region below | 83 thousand (symmetry of avatars) | lists, bans, addresses, ids, rows, reloading, refinement |
| `avatars` | 2 avatars, all faults, one spelling each or two, 2 objects; the region below | 22 thousand | friends, ignores, presence, website, online list with aliases |
| `mail` | 2 gateways, 2 avatars, 2 messages, 2 categories | 13 thousand | what senders and owners can rely on |
| `registrar` | `program`: 7 endpoints, 20 places; `interface`: 3 endpoints, penalties of 2 and 3, where the cap cuts; `view`: up to 3 lines, weights around both caps | 130 thousand | the program's use of the registrar; penalties and the choice among blacklisted endpoints; merging and expanding against a reference |
| `connections` | `statement`: 3 rows, 2 handle addresses, 2 faults; `text`: all texts of up to 4 tokens, 2 names, 2 values; `updates`: 2 servers, 2 avatars, 2 places, 3 messages under way | 257 thousand | rows and changes under lost connections and answers, the end of a reading loop; parameters by name; that game servers see in the end who left, and lost clients go |
| `gateway` | 2 servers, 3 avatars, 3 places, 3 messages under way | 1.04 million (symmetry of places and of two avatars) | who is in a room, as game servers see it |
| `requests` | `requests`: every type with a case and three without, 2 on a connection; `streams`: 9 messages, cut anywhere, one after another | 204 thousand | every path of every handler, order and certainty of answers; what is read from and written to reused streams |
| `shared_tables` | `cluster`: 3 gateways, 2 avatars; `website`: 6 schemas, 4 instants, the fourth beyond `int`; `attributes`: 3 gateways, words of 3 bits | 139 thousand (symmetry of gateways and avatars) | ids and friends across gateways; times, links and refusals for any columns; attributes through `int` and back |
| `website_presence`, `mailboxes_in_sync`, `relative_weights`, `cluster_sync` | minimal | | statements of the documents that the code does not meet |

**Regions.** Two runs do not take a step out of a part of the state space, which
the MC module defines, where the cases that need each other are together and
those that do not are apart. `rooms` has both avatars at one address, or one
of them at both addresses (`OneAddress`, `OneAvatar`): what two avatars do to
each other they do in one room, and what happens to rows and ids needs two
addresses and no second avatar. `avatars` has names of two spellings as long as
no friend is unreadable and no answer lost, or the latter with one spelling
(`NothingTorn`, `OneNameEach`). The properties are not weakened there, and what
happens outside of both regions is covered by the proofs.

**Bounds.** `MaxRoomId`, `MaxDbId`, `MaxMessageId`, `MaxObjects`, `MaxMail` and
`MaxEntries` stop what would grow for ever; each is named in its module and
appears in a guard. They are enough because what can go wrong needs few
things: two rooms at an address, one row and one lost answer, a row delivered
twice, two objects of an avatar, two messages stored by two gateways. Where
the bound is on history (room ids, rows), the runs allow for at least one
create–crash–reload–destroy cycle with a fault in it, and the theorems below do
without any bound. In `RegistrarNode` the constants for penalties stand for 5
and 60 seconds and the largest 16-bit number; in `ClusterView` small caps stand
for 100 and 65535. The finding about weights uses the real 100.

`MaxFaults`, `MaxTokens`, `MaxUnderWay`, `MaxRequests` and `MaxClock` do the same in
the other modules. Two faults are a lost connection and another one, or a lost
answer, under one statement; four tokens hold a parameter twice and one in
between; three messages under way, counted over all connections, are a queue of
three on one, such as an entry and a kick behind the answer to a login, or two
on one and one on the other (a step that would send more waits until some
were received); two requests are one handled or answered and one waiting; `Base` 4 makes
a 16-bit length at most 15, so that a string of 18 units is cut (the proof is
for any even `Base`, of which 256 is one).
`Cluster` has no bound: an id is used up only by an insert, and each login
in progress makes one.

**Symmetry** is used for avatars in `rooms`, and for gateways and avatars in
`shared_tables` and `cluster_sync`, and for places and the two avatars of the
second server in `gateway`; neither the specifications nor the properties
distinguish them. No run with a liveness property uses symmetry.

**Fairness** is assumed where one thread simply goes on:

* `WF_vars(Step)` in `MariaDBStatement`: the service that has prepared a
  statement does nothing else until its loop has ended. (That connections
  stop failing is the bound `MaxFaults`; with a connection lost for ever anew, a
  loop over two rows need not end, and no loop in the code counts.)
* `WF_vars(Tick)` in `GatewayNode` (run `connections`): the main loop (`main.cpp:132`) calls `Tick`
  every millisecond. `WF_vars(Receive(c))`: the channel delivers what was sent
  on a connection that lasts (external).
* `WF_vars(OnIncoming)`, `WF_vars(Perform)`, `WF_vars(Send)` in
  `RequestHandling`: the tick hands over what has arrived, and a handler runs to
  its end. Nothing is assumed of clients.

The other modules promise nothing that takes several requests, and assume
none.

**Deadlock** is checked except in `ClusterView`, where the configuration ends
and the program goes on to other things (`relative_weights`). Where `ClusterView` and `MariaDBPrepare` are
parts of a run, they may stutter when they have ended, and the other parts are
checked for deadlock.

### What the checks show

* Rooms keep one address, one id within a process, and at most one row, under
  every fault considered; the `erase` idiom is safe because no list ever holds
  an avatar twice; and a banned avatar that is out of a room stays out until
  pardoned, the room is destroyed, reloaded, or the process dies.
* Friends in memory are those in the table, nobody is friend and ignored, and
  game servers know who is online, *except* about avatars for which a request
  was answered DATABASE. The exceptions are real: TLC refutes each property
  without them.
* A sender answered SUCCESS finds the message stored and copied under the same
  id; reading never undoes filing, provided an avatar's requests arrive at
  one gateway. With two it can: one gateway deletes the message between the
  two statements of the other.
* As the program uses it, the registrar never blacklists anything: a failure is
  reported only for a preferred endpoint that was not returned, and that takes
  a blacklisted endpoint. The blacklist works (part `interface`), but is not
  reached.
* A statement that starts over on a new connection hands out rows again, once
  per connection, but never misses one of the last execution, and a new handle
  at the old address does no harm: the result was fetched as a whole. Changes
  are carried out at most once, so only an error leaves doubt.
* A game server that has an avatar in a room and has received what it was sent
  lists nobody who is gone, for all the stale pointers in
  `clientAddressMap_`; it lists everybody once it has fetched the room. The
  creator's own server is told nothing of a room it destroys.
* Of all handlers, three use an object that they did not find (`LogoutAvatar`,
  `RemoveIgnore`, `CreateRoom`) and end the process so, none of them after it has
  changed anything or told anybody. Many more can end it in the other
  ways listed with `Protocol`, of which nothing is claimed. Only a logout tells
  others before it may be refused; none changes anything before it refuses for
  a reason other than the database; every request with a case is answered, in
  order, unless the process ends.
* A name or text survives the database only if it is ASCII (or in the last 128
  units of 16 bits); a string of 65536 or more bytes is cut
  but leaves the fields after it readable.
* Gateways agree on ids, however avatars are created; friends are right on the
  gateway that changes them.
* The website's times are never cleared by a login or a logout, and statements
  are refused only for columns that the README requires or that changed while
  the gateway ran, or after 2038. A status shown implies a link.
* A stored attribute word can always be read: the number that would throw is
  never stored, as one with the top bit is refused or becomes 0.
* Four statements of the documents do not hold; `PROJECT.json` gives them
  under `findings`: the website goes on showing players online after a crash,
  its mailboxes do not follow the status of messages, weights of 100 and
  more are all alike, and nodes of a cluster are not in sync about friends.

## 4. Proofs

TLAPS checks every step of the eight proof modules, for all values of the
constants that meet the assumptions below. TLC evaluates the assumptions of the
instances it runs.

| Proof module | Assumes |
| --- | --- |
| `ChatRoomService_proofs` | `ChatRoomServiceAssumption` |
| `ChatAvatarService_proofs` | `ChatAvatarServiceAssumption`: finitely many avatars, as a look-up loads friends of friends until there are no more |
| `PersistentMail_proofs` | `PersistentMailAssumption`; `ReadingIsSafe` also `ServedByOne`, a hypothesis of the theorem |
| `RegistrarNode_proofs` | `RegistrarNodeAssumption`: the list is not empty; `RegistrarAssumption`: so is the list of the second node, the caps and the weights are positive |
| `MariaDBStatement_proofs` | `MariaDBStatementAssumption`: finitely many rows; `DatabaseClientAssumption`: no parameter is named as the other tokens are |
| `GatewayNode_proofs` | `GatewayNodeAssumption`: finitely many servers, as an update goes to one after another |
| `RequestHandling_proofs` | `RequestsAssumption`; `GatewayClientAssumption`: `Base` is even and positive, as `char` is signed, and messages are sequences of fields |
| `SharedTables_proofs` | `SharedTablesAssumption` in the theorems about `AvatarAttributes` and `WebsiteStatus`; nothing in those about `Cluster` |

Each proof has the same outline: a lemma that the initial states satisfy the
inductive invariant, lemmas that the actions keep it, one per action or kind of
action, their combination, and the properties as consequences. What needs
saying is the invariant.

**Induction and recursion.** The induction theorems of the library take an
operator for the statement to be proved, which the provers used here cannot
instantiate. Where a proof goes along a sequence (lines, segments, fields, units,
servers), the statement is a *set* of numbers instead, and a lemma,
`InductionIn`, says that a set of naturals with 0 and with the successor of each
member is `Nat`; it rests on well-foundedness alone (`SmallestIn`). Likewise, what
a recursive function computes is known only if such a function exists:
`RecursionExists` gives one for any first value and any steps between values of
a set, and `FlattenIs` applies it to `FlattenSeq`. These lemmas are about no
specification and stand in each module that uses them, so that no proof module
depends on the constants of another.

**`ChatRoomService_proofs`.** The inductive invariant joins the type invariant,
`NoDuplicates`, `ReloadedUnstaffed`, `UniqueAddress`, `RowOwnership` and
`BookKeeping`, which with the types is `Consistent`. It is the strengthening: ids and row ids are below their
counters and unique, rows have distinct addresses, and only persistent rooms
are stored. Without it a created room could get the id of another
(`RoomIdsStable`), or an insert the id of a row that a room remembers though
it is gone (`RowsOwned`): that such a row id is never given out again is what
makes lost answers harmless. Lemmas about `PushBack` and `Erase` carry the
lists, one lemma per kind of step carries the rest. The action properties
`RoomIdsKeepMeaning`, `RowsGoWithTheirRoom` and `BanKeepsOut` follow from the
same invariant. So does `ImplementsDirectory`, with one more: only kinds of
rooms that were asked for are stored (`StoredKinds`), so that a room which comes
back after a restart is one the directory allows. `UniqueAddress` is what makes
the rooms a function of addresses (`DirShape`); then each step changes the
directory at one address (`BecomeDir`, `EnterDir`, `DepartDir`), or is a
reload, or changes nothing in it.

**`ChatAvatarService_proofs`.** Three layers. `Base`, which is inductive by
itself and holds with aliases too: types, friends have rows (`Tables`), no
contact of a cached object dangles (`Sane`), and the list of online avatars has
one entry per avatar and refers to objects that are flagged (`ListSound`).
`Memory`, on top of it, compares the friends of the one object of each avatar
with the table. `Presence` compares what game servers and the website were told
with flags and lists. The last two are conditional on `Unaliased`, as the
properties are, which a step can only end. Most lemmas are about loading: what
`GetAvatar` adds to the cache is new, offline and without ignores (`Grows`),
whatever it reads on the way. The attempt to prove `FriendsPersisted` found a
case that two avatars do not show: an incomplete read that started over leaves a friend in the list
twice, and the `erase(remove_if(...))` that removes it may then leave the
pointer to a third avatar twice. The pair of that third avatar was not about a
request answered DATABASE; `Doubled` now adds it to `torn`.

**`PersistentMail_proofs`.** The invariant adds to `CopiesAreLinked` and
`AnsweredIsCopied` what a handler remembers between two statements: the message
it works on is of its avatar (`WorksOnOwn`), the link is made before the copy
(`LinksFirst`), a copy names the owner of its message (`CopiesOwned`), and only
a gateway that serves an avatar reads for it (`ServesWhatItReads`). Opening a
message needs a second one, `ReadsNew`: what is about to be marked READ is still
NEW. It holds only if every avatar is served by one gateway, and the run shows
that the hypothesis is needed.

**`RegistrarNode_proofs`.** `NothingBlacklisted` and `PreferenceHonored` are
inductive with the types. `WeightedShare` only speaks of the head of the
list; `WalkServes` strengthens it to every place: an endpoint has been served as
often as it occurs among the places passed. Its step adds one place to a set
and one to its cardinality (`CountNext`). For calls of the public methods in
any order, types and `PenaltyEarned` are inductive, and `AvoidsBlacklisted` is
an action property over them: a walk that passes all places leaves nobody out
(`WalkLeavesOutNobody`), so it finds what is not blacklisted (`HealthyIsFound`).
They are the properties `PenaltySound` and `BlacklistedOnlyIfAll` of `Registrar`.
`ListMeetsReference` holds of every sequence of lines, so the state needs nothing
but its type and the proof is about the algorithms. For merging, induction over
the lines (`AccumulatedMerged`) keeps that the endpoints so far are those asked
for so far, once each, in the order of their first lines, with the saturated sum
of their weights; a line either brings a new endpoint (`MergeNew`) or adds to one
that is there (`MergeSame`). That sums saturate the same whether line by line or
at the end is where the two meet. For expanding, induction over the endpoints
(`ListGrows`) counts the places of each in the list so far.

**`MariaDBStatement_proofs`.** `RowsSound` and `ChangesOnce` need `Stage`: what
is known by where the service stands, above all that a statement that selects
never changes anything and that its result holds no row twice. `Counted` is
the strengthening of the bound on repeats: a row was delivered at most once for
each new connection, and once more only if the result it came from belongs to
the connection there is now. It is a disjunction because a result may outlive
its connection, when a new handle lies at the old address.
`TextSound` compares the query with the text, but the state of the scan are
segments. `TextInv` says that there are places `at` such that segment `s` is the
text from `at[s]` on and a parameter stands between two segments, at the name
its logical index has in `names` (`Laid`); and that the scan is inside a literal
exactly after an odd number of quotes. A step makes the last segment longer
(`CopyStep`) or begins a new one (`PlaceholderStep`). That joining the segments
with the values between them gives the text with its parameters replaced
(`RenderedIsWanted`) is induction over the segments joined.

**`GatewayNode_proofs`.** `ViewsSound` is about servers that have received
everything, which says nothing of what is under way. `Settling` does: with
the messages of its connection applied one after another (`Run`), what a server
believes ends as the room is (`Final`). Sending a message makes a run longer at
its end, receiving one shortens it at its beginning. The properties are the
case of a run over no message. `Sessions` says that a session is where
`clientAddressMap` leads; all other entries may lead anywhere. `Settling` is
indexed by server, and how `OnUpdate` visits one server after another in
`LeaveRoom` and `EnterRoom` is induction over the naturals.

**`RequestHandling_proofs`.** Two parts. `HandlersFit` is about the data of
`Protocol`: each path of each of the 32 handlers is in order (`Orderly`): fields
are read, what follows a change is refused by the database only, and what the
answer writes is put; what follows an update to others is not refused, but
in a logout; and objects are tested right after they are looked up, but in
`LogoutAvatar`, `RemoveIgnore` and `CreateRoom`. Of these three it says instead
that the first change or word uses all that was looked for (`UsedFirst`), so
that it cannot be reached with something missing. That a step may end the process
is part of the data and is not excluded. Paths are concatenations,
so the lemmas are about what is kept when two pieces in order are joined. The
second part is the invariant of a connection: `Working` (what is left to
do in a handler is the end of a path that fits), `Dying` (who used what was not
found is one of the three and has left no trace),
and `Outgoing` (answers sent correspond one to one to the requests with a case
among those read, `NumbersMatch`).
`StreamsSound` is about the bytes below. `ReadsWhatIsThere` is not inductive: it
says what was read, not where the stream is. `StreamInv` adds that the stream
stands where the last field ends, or has failed if the packet ended before
(`StreamAfter`), and that its bytes are those of the message as far as they go
(`Has`). A step reads one field: `FieldRead` says, for each type, that from bytes
that begin with the written field exactly that field is read, and nothing if one
of its bytes is missing. It rests on digits (`NumberOfTwo`, `NumberOfFour`: the
bytes of an integer make the integer again) and, for wide strings, on an
induction over their units (`UnitsRead`). `FieldAt` places the field in the
message, `StringSurvives` is about what `char` being signed does to a name.

**`SharedTables_proofs`.** `Cluster`, for any gateways and any avatars: types,
`OneIdPerAvatar` and `InSyncWhereChanged`. The inductive invariant adds
`HandlerOK` and `Creating` (a gateway between INSERT and its id has neither the
avatar in its cache nor ever changed its friends, and holds the id of the
row), `ForeignKeys` (a friend has a row, so whatever is loaded has one),
`WritersHaveRows`, `UnchangedIsEmpty`, and `InSync`, which speaks of gateways
that nobody *else* has changed: without it, loading the friends of an
unchanged avatar could not be told from loading those someone changed. The
lemma `GetAvatarLoads` is about the closure of friends that a look-up loads.
`AvatarAttributes`: `AttributesSound` is inductive as it stands, for words of any
width. `WebsiteStatus`: `Pending` adds what holds between the two statements of
a login (the link is there before the status is shown) and of rows not written
yet (no time was recorded).

**Only model-checked.**

* Liveness under fairness, which is out of the prover's reach: `LoopEnds`,
  `Served`, and the two halves of `Settles` (`GhostsVanish`,
  `LostClientsDestroyed`).
* The violations: they are counterexamples.

## 5. Plan

Done: the modules above. Next, in this order:

1. The faults of `ChatAvatarService` and `PersistentMail` derived from
   `MariaDBStatement` by refinement instead of assumed.
2. An abstract specification of presence, and its refinement by
   `ChatAvatarService`, as `RoomDirectory` is for rooms.

**Not modelled, and why.**

* Vendored code: `externals/catch/catch.hpp` and `externals/easyloggingpp`, a
  test framework and a logger, are two thirds of the repository's lines.
  `externals/udplibrary` is a stub; its channel is external to `GatewayNode`
  and `RequestHandling`.
* Start-up, command line and options, signals, logging; the characters of a
  `gateway_cluster` entry (`ParseGatewayClusterEndpoint` is taken from the point
  where it has host, port and weight). No behaviour over time.
* `RequestFailureHandling.hpp`, `ChatRoom::AddAdministrator`,
  `UpdateFriendComment`: called by nothing but, the first, a test. That test, and
  those of `ApiVersionNegotiation` and `LoginAvatarAuth`, are not in the list
  of the tests' `CMakeLists.txt`. `readAt`, `writeAt`, `peekAt`: tests alone.
* The fields of messages other than room and friend updates.
* Friend comments, room topics and passwords as text: data that no decision
  depends on.
