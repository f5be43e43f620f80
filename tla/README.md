# Testmmo server: verification project

TLA+ models of the Testmmo game server (Lua services on Skynet), the TLC
instances that check them and TLAPS proofs about them. Every definition is
translated from the source under `src/server`; `PROJECT.json` maps each to its
lines.

## 1. The system

A Skynet service is an actor: it takes the messages of its mailbox one at a
time and runs each in a coroutine. `skynet.call` suspends the coroutine until
the answer arrives, and the service goes on with its mailbox; a whole handler
is therefore *not* atomic, only the segments between two calls are.
`syslog.debugf`, `syslog.notice` and `dump` are calls to the logger in this
code base, so a line of logging can be such a boundary.

| Component | State | Operations | Interacts with | Hard because | Must hold |
|---|---|---|---|---|---|
| game gateway: `gamed.lua`, `gameserver.lua`, `gateserver.lua` | `connection`, `nclient`, `pending_msg`, `pool`, `online_account` | socket open/data/close, `login_handler`, `forward_agent`, `cmd_gamed_close`, `cmd_gamed_kick` | clients, login server, agents | each handler yields several times; takeovers cross drops | one agent per account, idle pool, right frames to right user, logins served |
| agent life cycle: `agent.lua`, `handler.lua` | `user`, `user_fd`, `RPC`, `CMD` | `cmd_agent_open/close/other_login/kick`, client dispatch | gateway, database, chat | open, close and kick of one agent overlap | an agent serves only its user; it is clean when it returns |
| login: `login_server.lua`, `login_slave.lua` | `session_id`, `slave`, `connection`, `saved_session` | handshake, auth, challenge, save session, verify, timers | clients, database, gateway | sessions and connections expire while used | a token is accepted once, for the account that proved its password |
| accounts: `database.lua`, `db/account.lua` | redis hashes | load by name, create, list | login slaves | several redis requests per operation | a name has one account, usable once created |
| chat: `chat_server.lua`, `chat_handler.lua` | `onlineTab` | online, offline, broadcast, private | agents | iterates the table across calls | messages reach the accounts online |
| world and maps: `world.lua`, `map.lua` | `online_character`, map members | enter, leave, kick | agents | enter, kick and leave cross in two services | a character is in one place (not started, see 6) |
| area of interest: `aoi.lua`, `quadtree.lua`, `aoi_handler.lua` | quadtree, neighbour lists, subscriptions | insert, update, remove, subscribe | map, agents | stale neighbours and subscriptions | neighbour relation agrees with positions |
| characters: `character_handler.lua`, `db/character.lua` | a record per character, a list per account, in redis; the character picked | create, pick, delete, save at close | database | read-modify-write over several requests, crashes between them | no character lost, or in the wrong hands |
| friends, labor unions | tables in redis | invite, create, join | agents, database | unfinished: nothing fills their tables | - |
| identifiers: `uuid.lua`, `lua-uuid.c` | timestamp, service, sequence per service; `sid` of the process | gen, lsid | timer, clock, other services | timer against clock, a counter all services share | no identifier twice |
| monitor: `moniter.lua` | registered services | register, heartbeat loop | all services | a hung service | every service is asked again |

`PROJECT.json` lists the components that are not modelled with the reason.

## 2. Modules

| Module | Content |
|---|---|
| `Gamed` | the gateway, and the agent's open, close and kick: 45 actions on 17 variables |
| `MCGamed` | constants of the TLC instances |
| `GamedProofs` | types and identities of `Gamed`, under any discipline |
| `GamedTakeover` | theorems of `Gamed` about takeovers, with the invariant that gives each socket a stage; about frames, with the one that numbers them |
| `SessionTokens` | abstract specification: what the login server promises the gateway about sessions and tokens |
| `LoginServer` | the login server, its slaves, and accounts in redis: 27 actions on 13 variables; `Tokens` is the refinement mapping to `SessionTokens` |
| `MCLoginServer` | constants of the TLC instances |
| `LoginProofs` | inductive invariant and theorems of `LoginServer`; it implements `SessionTokens`; no token admits two logins |
| `Uuid`, `MCUuid`, `UuidProofs` | identifiers, and the counter of service numbers |
| `Chat`, `MCChat`, `ChatProofs` | world chat: the chat server, the agents that go online and offline, and the broadcast |
| `Moniter`, `MCMoniter`, `MoniterProofs` | the service monitor |
| `Aoi`, `MCAoi`, `AoiProofs` | the area of interest of a map, over its quadtree |
| `Character`, `MCCharacter`, `CharacterProofs` | the characters of accounts, in requests to the database |

### 2.1 Gamed

**Coroutines.** A suspended coroutine is a record `Msg`: `at` is where it
continues, the other fields are its local variables (`nfd` and `account` are
the parameters of `forward_agent`, `rec` is the identity of the table `info` in
`login_handler`, `callee` the agent it calls, `ret` the point of the gate that
waits for the agent). It sits in a mailbox (`mbox[Gate]`, `mbox[agent]`), or in
`ext` while a service outside the module works for it. Every step of a service
takes the head of its mailbox and suspends (`Yield`), sends the coroutine on
(`Send`) or ends it (`End`). The interleaving of the handlers is therefore
exactly that of Skynet, message by message.

| Code | Actions |
|---|---|
| `MSG.open` | `Refuse`, `Accept` |
| `dispatch_msg`, `handler.message`, `do_login` | `Redirect`, `Enqueue`, `StartLogin`, `LoginRefused`, `RefusedClose` |
| `login_handler` | `LoginFresh`; `LoginTakeover`, `OtherLoginDone`, `KickDone` |
| `forward_agent` | `ForwardAgent`, `Assign`, `PendingHang`, `Forward` |
| `MSG.close`, `close_fd` | `MsgClose`, `CloseUnknown`, `CloseWithoutAgent`, `CloseWithAgent`, `CloseDone` |
| `cmd_gamed_close` | `CloseForTakeover`, `CloseOffline`, `Recycle` |
| `cmd_gamed_kick` | `Kick`, `KickClose` |
| `cmd_agent_open` | `AgentOpen`, `Opened`, `Register`, `Welcome` |
| `cmd_agent_close` | `AgentClose`, `Closing`, `CloseFinish`, `GamedClosed` |
| `cmd_agent_other_login`, `cmd_agent_kick` | `OtherLogin`, `OtherWrite`; `AgentKick`, `AgentKickSelf` |
| errors in a handler (`agent.lua:293-298`) | `RegisterFailed`, `WelcomeFailed`, `AgentCloseFailed`, `OtherLoginFailed` |
| `my_dispatch` | `MyDispatch` |
| socket thread and clients | `ClientConnect`, `ClientSend`, `ClientDrop`, `SocketClose` |

**Abstractions.**
- Consecutive yields with nothing between them but a repeated nil check are one.
- A frame is its number: the first is the login frame, the others are RPCs.
- The verdict of the login server is a constant of the socket (`BadToken`).
- `my_dispatch` looks up the RPC table when the frame arrives (`agent.lua:110`)
  and runs it after a line of logging. The two are one step: answers of the
  logger come in order, and an agent cannot be recycled and opened again with
  fewer log lines than that one.
- Answers of services outside the module come in any order. The counterexamples
  reported below need no reordering between answers of one service.
- The socket thread answers every `socketdriver.close` with a close event,
  also for a socket that is closed already; Skynet does not reuse socket ids
  before they wrap.
- `user.map` and `user.world` are nil: no message of `msg_define.lua` reaches the
  code that sets them, so that branch of `cmd_agent_close` is left out (section 6).
- The heartbeat is disabled (`HEARTBEAT_TIME_MAX = 0`).

**Environment.** How the clients of an account overlap is a constant, because
the code is right under some disciplines and wrong under others, and the runs
say which:
- `takeover`: a client connects when its account is idle, or while the account's
  only other client is settled, which then stays until it is kicked;
- `reconnect`: the settled one may also drop at that moment;
- `free`: clients connect when they like.

`EarlyDrop` says whether a client may drop before it has its agent; `Speak`
what it waits for before it sends a second frame.

### 2.2 LoginServer

`Gamed` sees the login server as a verdict on a token (`BadToken`); this module
is where the verdict comes from. The two are not composed: the gateway calls
`cmd_server_verify` and waits, and what it may rely on is `SessionTokens`.

A connection is served by one coroutine, `cmd_slave_auth`. `auth[fd].at` is the
segment it runs next, in the slave, in the master, in the slave that saves the
session or in the database; the other fields are its local variables
(`accInfo`, the session, the slave the master chose, the challenge request).

| Code | Actions |
|---|---|
| `login_slave.lua`, `cmd_slave_auth`, `rpc_server_handshake` | `SlaveAuth`, `ReadHandshake`, `ReadFailed`, `Handshake` |
| `db/account.lua`, `cmd_account_load_by_name` | `Exists`, `LoadId`, `LoadSalt`, `LoadVerifier` |
| `rpc_server_auth` | `ReadAuth`, `AuthReply` |
| `db/account.lua`, `cmd_account_create` | `Hsetnx`, `Hmset`, `Sadd` |
| `login_server.lua`, `cmd_server_save_session` | `SaveSession` |
| `cmd_slave_save_session` | `SlaveSave` |
| `rpc_server_challenge`, `cmd_slave_challenge`, `close_fd` | `ReadChallenge`, `SlaveChallenge`, `ChallengeReply` |
| `cmd_server_verify`, `cmd_slave_verify` | `SlaveVerify` |
| `skynet.timeout` of a connection, of a session | `AuthTimeout`, `SessionTimeout` |
| clients, gateway | `Connect`, `SendHandshake`, `SendAuth`, `SendChallenge`, `Drop`, `Ask` |
| a failing redis request | `Fault` |

**Abstractions.**
- Messages between services are unordered: each coroutine has one message in
  flight, and any coroutine may go next. This allows more than Skynet does.
- Identifiers, keys and nonces are fresh values named by who draws them: the
  session key and the new account of connection `fd` are `fd`; challenges and
  tokens of a session are numbered. Encryption with a key is the pair of key and
  text. The salt is there or not; the verifier is the password it was made from,
  and SRP gives both sides one key exactly when the password is the verifier's
  (or the default one, for a name without an account).
- A redis request is one step. `Fault` is a request that fails before it is
  executed; a request whose answer alone is lost leaves what the next request
  failing leaves.
- Time is not measured: a timer may ring at any moment after it is started.
- Length checks of names and passwords are left out, and identifiers are taken to
  be unique (see `Uuid`).

**Environment.** A client sends each message after the answer to the one before.
The user of several connections knows all their sessions and keys, and may
present an old challenge again; the gateway may present any token issued so far,
also one that was used or replaced.

### 2.3 Uuid

An identifier is a second, a service number and a sequence number. Each service
has its own VM with `timestamp`, `service` and `sequence`; `sid`, the counter
behind the service numbers, is a static variable of the C library, and all VMs
of the process share it. `Load` is `require "uuid.core"` (`luaopen` resets the
counter), `SidRead` and `SidWrite` are the two memory accesses of `lsid`, `Gen`
and `GenFailed` are `uuid.gen` below and at the limit of the sequence,
`TimerFire` drops the cached second, `Tick` moves the two clocks.

The code is right under three conditions, each a constant, and wrong without it:
- `Late = FALSE`: every service loads the library before one makes an identifier.
  An agent created later (`gamed` does that when its pool is empty) resets `sid`
  (`lua-uuid.c:24`), and the next service gets a number that is in use.
- `Racing = FALSE`: one worker is in `lsid` at a time. Skynet runs 8 (`config`),
  and nothing protects the static variable (`lua-uuid.c:11`).
- `Slack = 0`: the timer of 100 ticks does not ring before the cached second is
  over. Skynet counts timers from the last tick, and ticks do not begin with the
  seconds of `os.time`; one tick early is enough to use a second twice.

With any one of them changed (`Late = TRUE` or `Racing = TRUE` or `Slack = 1` in
`Uuid_boot.cfg`) TLC finds `UniqueIds`
violated. Not modelled: the mask of `sid` has 16 bits and its field 15, which
matters from the 32768th service on; `harbor` is 0.

### 2.4 Chat

The actions are those of a mailbox, as in `Gamed`, and the log is a service here:
every line is a round trip to a logger that answers in order. Whether the
account of a message (`chat_handler.lua:25`) and the socket of a receiver
(`agent.lua:36`) are still the right ones when they are read depends on how many
lines lie before the read, and on how many an agent writes while it is closed
and opened again; the mutants `RpcDumpLines` and `WriteLines` add lines.

| Code | Actions |
|---|---|
| `forward_agent`, `cmd_gamed_close`, clients | `Login`, `GamedClose`, `Recycle`, `ClientChat`, `Leave` |
| `cmd_agent_open` | `AgentOpen`, `Loaded`, `Opened`, `Register`, `Welcome` |
| `cmd_agent_close` | `AgentClose`, `Closing`, `Saved`, `CloseFinish` |
| `my_dispatch`, `rpc_server_world_chat` | `Rpc`, `RpcDump`, `RpcWorldChat`, `RpcSend`, `RpcRet` |
| `cmd_online`, `cmd_offline` | `Online`, `Offline` |
| `cmd_chat_world_broadcast` | `Broadcast`, `BeginFailed`, `Begin`, `NextKey`, `NextEnd`, `NextFailed` |
| `cmd_chat_world`, `send_request` | `ChatWorld`, `Request`, `Write`, `RequestFailed` |

The broadcast walks over `onlineTab` with `pairs` and calls an agent at each key.
Lua allows a key to be removed meanwhile, and leaves the traversal undefined when
one is added: it then may visit any keys, also twice, and may fail when the key
it has reached is gone (`Insert`). `Reached` is therefore about broadcasts that no
login disturbed; `BroadcastEnds` and `RightUser` are about all. The gateway is
reduced to what `Gamed` shows of it: one agent per account, closed before the
next is opened.

### 2.5 Moniter

`Ring`, `CallService`, `Alive`, `Dead` and `Sleep` are `heartBeatScheduler`, one step
from call to call; `Register` is `cmd register`, which may add a key in the middle
of the walk. `Open`, `Exit`, `Hang` and `HeartBeat` are the services: an exited one is
answered with an error by Skynet, a hung one not at all.

### 2.6 Aoi

The quadtree is the set of its entries, each with the path to its leaf; `LeafOf`
and `Search` are `insert` and `query`, down the boxes of `genChildren`. `Insert` and
`Remove` run without a pause; `aoi.update` writes a line of log after it has
looked its object up, so that `UpdateBegin` and `UpdateOutside`/`UpdateEnd` are two
steps, between which the character may be updated, removed, or inserted again.
Its calls to the agents come after its last access to the tree and the lists.
A leaf is the path of child numbers to it, and `Box` the boxes on that path. The code
goes down by recursive calls; here `LeafOf` is the path that takes the first child
with the point at each level, and `Search` the entries of the leaves all of whose
boxes meet the square, so that no recursive operator stands in the way of proofs.
Coordinates are whole numbers (`MapAssumption`), as `floor` makes the centres.

What the code keeps is what the properties say, and no more:
- `aoi.update` never stores the new leaf in the object (`aoi.lua:77`): later updates
  and the removal look for the entry in the first leaf, and old entries stay.
  `NoGhost` is about characters that never moved (`e.id \notin moved`), and fails
  without that exception, also when an update and a removal cross.
- it changes the list of the character that moved and nobody else's. `ViewList`
  states what `map.lua:30` and `:46` use the list for ("我的视野列表", those in my
  view); add it to `Aoi.cfg` as an invariant and TLC finds it violated.

### 2.7 Character

One step per request to the database (`CreateSave`, `CreateLoad`, `CreateDone`;
`PickCheck`, `PickLoad`, `PickDone`; `DeleteLoad`, `DeleteSave`, `DeleteRecord`), with
the coroutine's identifier and its copy of the list as its local state; each
may fail, and `Crash` may come between any two. `Close` saves the character that
was picked. A list is a Lua table: its entries have keys, which are numbers or
strings. `Packed` is what cjson makes of it: with the keys 1..n an array, with a
gap an object, whose keys come back as strings.

The properties hold with exceptions, which are the schedules where the code
loses characters. All of them can be seen by removing the exception in
`Character.tla`, with the constants given:
- `holed`: a deletion leaves a gap, the list comes back with strings for keys,
  `#` counts none of them, and two later creations take one key (`packer.lua:2`,
  `character_handler.lua:112`; one account, `MaxId = 4`: create twice, delete the
  first, create twice).
- `raced`: two creations of one account that overlap read the same list
  (`character_handler.lua:111`), and the later save wins.
- `nfault = 0`: a failed read of the list is taken for an empty list, and the next
  creation saves a list of one.
- `Bucket <- Together`: `del` removes the whole hash of up to 100 identifiers
  (`db/character.lua:41`), not the character's field (last disjunct of `ListedSaved`).
- `Settled = FALSE`: the handler reads the agent's `user` again after each call.
  When the client leaves in the middle and the agent is recycled, the request
  goes on for another account, and `Owned` without its premise fails.

No name of `msg_define.lua` belongs to these requests today, so that clients cannot
send them until one is added; the run shows what holds then. Listing characters
only reads. The call to the world after a pick is outside.

## 3. Runs

Bounds: `MaxAgent = 3` never blocks the gate in any run with up to 4 sockets
(at most one agent per account is open, and one more during a takeover).
`MaxClose = 2` allows the two close events of a kick that races a drop, the
only way to get two. One pooled agent makes both branches of `forward_agent`
happen. Deadlock is not checked in the
runs, which end when clients and services have all left or the bounds are reached,
but for `character`, which has no end.

| Run | Instance | Shows |
|---|---|---|
| `gamed_takeover` | 3 sockets of alice, 1 of bob, 2 frames, the second one after the greeting, `takeover` | `TypeOK`, `PoolIdle`, `OwnerRecorded`, `KickSameAccount`, `NoMisdelivery`, `ClientCount`: two takeovers in a row and a recycled agent that goes to another account |
| `gamed_liveness` | 2 sockets of alice, 1 of bob, `takeover`, fairness | `LoginServed`, `AgentsReturn` |
| `gamed_reconnect` | 2 + 1 sockets, 3 frames, `reconnect` | `CloseBeforeOpen` and `FramesInOrder`, also when the kick and the drop cross, with two logins of one account (a third login breaks `CloseBeforeOpen`: case 4 below) |
| `gamed_free` | 3 sockets of one account, one with a bad token, `maxclient` 2, `free`, early drops | `Identity`, in spite of everything that goes wrong below |
| `gamed_pipelining` | one client that speaks after the greeting | violates `PendingServed` |
| `login_sessions` | 2 connections of alice, 2 slaves, 2 logins at the gateway, one failing request, fairness | `TypeOK`, `SessionFound`, `TokenOnce`, `TokensSpec` (the refinement of `SessionTokens`); `ConnectionsClosed`, `SessionsExpire` |
| `login_accounts` | 3 connections of one name, two passwords, one failing request, 1 login | `SessionOwner`, `AccountListed` |
| `uuid_boot` | 2 slaves, 1 agent, 4 seconds of 2 ticks, sequence below 3, 3 service numbers | `UniqueIds`, `Increasing`: at the end of a second, of the sequence and of the numbers, with timers that are late |
| `chat` | 3 accounts over 2 agents, 3 logins, 1 message, fairness | `TableExact`, `AuthorNamed`, `Reached`, `RightUser`, `BroadcastEnds`: a broadcast while an agent goes to another account |
| `moniter` | 3 services, of which 1 may hang, fairness | `AlarmExact`, `AskedAgain`, `DeadNoticed` |
| `aoi` | 2 characters, a 5 x 5 map of depth 2, 3 insertions, 2 updates, a position off the map | `QueryExact`, `UnmovedSeeEachOther`, `NoGhost`, `Findable` |
| `character` | 2 accounts that take turns on one agent, 3 characters, 2 requests at once, one failure, any crashes | `Owned`, `ListedSaved`, `NothingLost` |

Bounds of the login runs: a session per connection is the most a connection can
ask for, so `MaxSession = Cardinality(Fd)` blocks nothing. Two slaves make the
choice of the slave matter. Two logins are what it takes to use a token twice;
two connections what it takes to issue a second token for a session, or to
create a name twice; the third connection in `login_accounts` enters the name
while the two others create it. A second failing request stops another
coroutine, and does to it what the first did to its own.

Bounds of the others. `Uuid`: two services are what it takes for two to have one
number, and the seconds, ticks, sequence and numbers are each enough to reach
their limit and start again. `Chat`: the third account is the one an agent is
recycled to while a message is under way to the second; one message, since
messages share nothing but the table. `Moniter`: a service that is called, one
that comes and one that hangs. `Aoi`: lists relate two characters; three
insertions let one come back; of the four positions two share a leaf's border,
one lies in another quadrant, and one is off the map. `Character`: one agent is
enough, as agents share only the database and an account has one at a time, and
both accounts use it in turn; two agents with `MaxId = 2` or `MaxRpc = 1` also pass.
Three characters allow a gap in the middle, at the end, and two creations after
a deletion.

**Fairness.** `FairSpec` of `Gamed` is weak fairness of `ServerStep`, the disjunction of
all steps of the services, of the socket thread and of the answers from outside:
the server does not stop while it has something to do. Skynet's workers serve
every mailbox that is not empty, so the code justifies more (fairness of each
mailbox); the finite number of clients and frames makes the weaker form enough.
Nothing is assumed of the clients. `FairSpec` of `LoginServer` is the same: the
coroutines that can go on do, and the timers of `skynet.timeout` ring. Nothing
is assumed of the clients, nor that redis requests fail or do not; a client that
says nothing is what `ConnectionsClosed` is about. `FairSpec` of `Chat` and of `Moniter`
is weak fairness of the steps of the services again; services need neither open
nor exit, and one that hangs is exempt: `AskedAgain` and `DeadNoticed` say "unless
one hangs" because a hung service does stop the monitor (`moniter.lua:22`).

**Where the code does not do what is said of it.** The run `gamed_pipelining`
shows one case: pending frames are sent by `rawcall` (`gameserver.lua:29`), but the
agent's client dispatch never answers. A client that speaks as soon as it is
greeted (the greeting is sent before the forward) can meet this, against the
comment at line 27. The following have no run of their own, and each is
reproduced with the constants given (those not named as in the run's cfg):
1. `gamed.lua:101`: `login_handler` marks the table it read before two calls;
   if the client before drops meanwhile the record is gone and the new login is
   never served (the comment at line 100 says it is, once the socket has closed).
   `Gamed_liveness.cfg` with `Fd = {f1, f2}`, `MaxFrame = 1`, `Dropping = {f1}`,
   `Discipline = "reconnect"`, property `LoginServed`.
2. `gamed.lua:46`: `forward_agent` yields before it records the account; two first
   logins open two agents, against the close-before-open of `gateserver.lua:96`.
   `Gamed_reconnect.cfg` with `Fd = {f1, f2}`, `MaxFrame = 1`, `Dropping = {}`,
   `Discipline = "free"`, invariant `CloseBeforeOpen`.
3. `gamed.lua:100`: `cmd_agent_kick` goes to the agent looked up before the first
   call, which may serve another account by then. `Gamed_reconnect.cfg` with
   `Fd = {f1, f2, f3}`, `MaxFrame = 1`, `Dropping = {f1, f2}`, invariant
   `KickSameAccount`.
4. `gateserver.lua:75`: when a kick crosses a drop there are two close events, and both
   find the agent and have it closed. The first closes it; the second, whose save
   is answered late, goes on after the agent was recycled and opened for another
   account. It drops that user, and the record with it, so that the next login of
   the account opens a second agent. `Gamed_reconnect.cfg` with
   `Fd = {f1, f2, f3, f4}`, `AccountOf <- ThreeAndOne`, `MaxFrame = 1`,
   `Dropping = {f1}`, invariant `CloseBeforeOpen`.
5. `db/account.lua:40`: an account is loaded by four requests and created by
   three; a login of a name that is just being created gets the identifier and no
   verifier, against the assert of `login_slave.lua:39`. The connection is then
   left to its auth timer. `LoginServer_sessions.cfg` with `Login = {}`,
   `MaxFault = 0`, `SPECIFICATION Spec`, invariant `VerifierLoaded`.
6. Those of sections 2.3, 2.6 and 2.7.

Two more consequences can be seen in the same way.
`LoginServed` also fails under `takeover` when `EarlyDrop` is TRUE: a client that
drops before its agent is forwarded (`gamed.lua:58`) leaves the agent open with
nobody to close it, and the next login of the account waits for ever. `ClientCount`
fails under `reconnect`: a kick that meets a drop gives two close events, and both
`close_fd` pass the test of `connection[fd]` before either takes it away, so
`nclient` is decremented twice (`gateserver.lua:75-91`); it is therefore checked
under `takeover` only.

## 4. Proofs

### 4.1 The gateway

`GamedProofs` proves for all constants that satisfy the assumptions of `Gamed`
(any finite or infinite set of sockets and accounts, any bounds, any discipline):

- `TypeCorrect`: `Spec => []TypeOK`
- `IdentityHolds`: `Spec => []Identity`
- `Inductive`: `Spec => []IInv`

Neither of the first two is inductive: what an agent is told to open travels in
messages and in takeover records, so an induction over the users alone fails at
`Opened`. `IInv` adds `MailInv`: every coroutine in flight is a well-typed
record that *vouches* for its variables (`Vouched`): whoever needs a callee, a
return point or a socket has one, and a socket that is handed over (`nfd`) was
granted to the coroutine's account (`Granted`: a good token of that account).
`RecordInv` says the same of takeover records, `UserInv` of users. The proof has
one lemma per action, over a few lemmas on mailboxes (`TakeOne`, `PutOne`,
`TakeAndPut`), and `TypeOK` and `Identity` follow from `IInv` directly.

`GamedTakeover` proves, for any sockets, accounts, agents and bounds, when
`Discipline = "takeover"` and `EarlyDrop = FALSE`:

- `TakeoverInvariant`: `Spec => []Explained`
- `CloseBeforeOpenHolds`, `KickSameAccountHolds`, `OwnerRecordedHolds`, `PoolIdleHolds`,
  `ClientCountHolds`
- `FramesInOrderHolds`: `Spec => []FramesInOrder`, `NoMisdeliveryHolds`: `Spec => NoMisdelivery`

The two premises are not for the proof's convenience: without either, the properties fail
(cases 1 to 4 of section 3 and what follows them), and the run `gamed_takeover` has the
same premises.

All these properties say that handlers which are suspended somewhere do not get in each
other's way, so that the invariant must say what each one may meet. The idea is that a
socket has one coroutine at a time that has to do with its coming and going (its frames
after the login apart): its login, then the open of its agent, then the close. The
place of that coroutine is the *stage* of the socket; a stage without a coroutine is
one that waits, for a frame (`idle`), for the client before it to go (`waiting`), for
its client to leave (`served`). `Explains(st, ag)` says, of stages `st` and agents `ag`:
- `SockPart`: what each stage implies for `sock`, `connection`, `forwarded`, `pending_msg`;
- `AgPart`, `UserPart`, `RecPart`: whose agent, whose user and whose record is
  where, and that the pool has no agent of a socket;
- `PairPart`: which stages two sockets of one account are in at a time (`Before`):
  while the second asks for the first one's agent the first is `served`, when it
  waits the first is being closed, and so on, never three at a time;
- `FlyPart`: every coroutine in flight is that of its socket's stage, and there is one;
- `FirstPart`, `KickPart`: where the order in a mailbox matters. The login frame is ahead
  of the others; the answer to a kick is ahead of the close of the agent it kicked.

`st` and `ag` are no variables, and the discipline is what makes them a function of the
state: `Explained` says that some exist. The lemma on an action names those after
the step; most move one socket to the next stage (`Onward`, `StepOpens`,
`Advance`) and share what is left to show (`SockKept`, `AgKept`, ... `FlyKept`).
`ClientCount` adds `CountInv`: a socket that is forgotten was connected, and one that
is accepted was not, as their stages say.

The two results on frames add `FrameInv`, which the stages leave out: a frame after the
login is one of many coroutines of its socket. It has two parts:
- `Counts(x, y, fd)`: of the frames after the login, x have left the mailbox of the gate
  and y have been sent to the agent. So the gate's mailbox has the numbers x + 2 to
  `nsent`, each once and in order (`Lined`), `pending_msg` has 2 to x + 1, the agent's
  mailbox has those after the served ones, up to y + 1, and what is served is 2, 3, ...
  without a gap. While there is an agent forwarded, x = y; before, y is 0, or 1
  after the first pending frame was sent and its answer never came.
- `Orders`: what keeps a frame from meeting another user. A frame in the mailbox of an
  agent finds its own client there, the close of a socket stands behind all its frames,
  first at the gate and then at the agent, and no frame is ever suspended in another
  service (the mutant `RedirectAfterLog` is one that is). So none is left when
  the agent drops its user.

`Undisturbed` says what a step may not touch for the counts of a socket to stay
(`CountKept`), and most steps touch none (`PlainMoves`); only seven change the
numbers or where a frame is (`ClientSend`, `StartLogin`, `Enqueue`, `Redirect`, `PendingHang`,
`Forward`, `MyDispatch`). TLC checked `Explains` and `FrameInv`, with the stages
read off the coroutines, on instances with two clients of alice and one of bob before
they were proved.

The theorems of both modules rest on `FdAssumption`, `BoundAssumption`, `ClientAssumption` and
`NilAssumption` (nil is none of the other values), which TLC evaluates in the runs.

Every safety property of the runs of `Gamed` is a theorem, those of `gamed_reconnect` under the
premises of `takeover` only: for the larger discipline they are model-checked, with two
logins of an account (with a third `CloseBeforeOpen` is false: case 4 of section 3). Only model-checked: the liveness properties, which are out of TLAPS's
reach here.

### 4.2 The login server

`LoginProofs` proves, for any set of connections, names, passwords and logins, any number of slaves and any bounds:

- `TypeCorrect`: `Spec => []TypeOK`
- `OwnerHolds`: `Spec => []SessionOwner`
- `SessionFoundHolds`: `Spec => []SessionFound`
- `AccountsListed`: `Spec => []AccountListed`
- `Refinement`: `Spec => TokensSpec`
- `TokenOnceHolds`: `Spec => []TokenOnce`

All safety properties of the two passing safety runs are theorems. None but
`TypeOK` says enough of the coroutines to be inductive. `IInv` adds, for each
coroutine, what it has established at the place where it is:
- `CoHash`: from `hsetnx` on, redis has the account under the client's name, from
  `hmset` on (or since the password was verified) also the client's password; and
  `Kept`, which every write satisfies, says that neither is ever replaced. That
  is `Owner`, and sessions carry it (`SavedInv`), logins too (`LoginInv`);
- `CoSession` and `Apart`: a session that is being saved has a number below the
  counter, is not saved yet, and is saved by one coroutine only. Without them two
  coroutines could save one session, and a timer of one would delete that of the
  other (`TimerInv`), or a session could be opened twice in `SessionTokens`;
- `CoClient`: a challenge is about a session its client was told of.

`Sessions`, `Written` and `Quiet` state what is left to be shown by a step that
changes a session, redis, or neither; every action is an instance of one of them.
The refinement maps `SlaveSave` to `Open`, `SlaveChallenge` to `Issue`,
`SlaveVerify` to `Admit` (when it succeeds), `SessionTimeout` to `Expire` and
everything else to a stutter. `TokenOnce` then follows from an invariant of
`SessionTokens` alone (`TokenInv`): a token that was spent was issued for its
session and is not the one that admits now.

The theorems rest on the assumptions `ClientAssumption`, `BoundAssumption`,
`NilAssumption` and `MappingAssumption` (nil is none of the records), which TLC
evaluates in the runs. Only model-checked: `ConnectionsClosed` and
`SessionsExpire` (liveness).

### 4.3 Chat

`ChatProofs` proves all safety properties of `Chat`, for any accounts, agents, logins and
messages: `TypeHolds`, `TableExactHolds`, `AuthorNamedHolds`, `RightUserHolds` (an action
property) and `ReachedHolds`. What they say hangs on the order of messages, so the
proof is about sets of coroutines in queues: every step takes one coroutine out of a
mailbox or `ext` (`Takes`), puts one in (`Gives`), or both (`Hop`), and the lemmas on
these say what becomes of "none of `B` is in flight" (`Out`), "at most one" (`Single`)
and "`X` is ahead of `Y` in this queue" (`Ahead`). The invariant is built in layers;
each is inductive together with the layers before it.

1. `ShapeInv`: types, mail where it belongs, and for a coroutine at work on a message,
   that the message has been sent and has a sender to answer.
2. `LifeInv`: of the coroutines that open and close an agent there is at most one, and
   its place tells what the gateway, the agent and the table know of the agent
   (`Phase`); without one the agent is idle or serves its account (`Still`). Agents in
   use have different accounts, agents in the pool are idle and listed once.
   `TableExact` follows.
3. `OrderInv`: the crux. The gateway closes an agent after the last frame of its
   client, and takes it again later; `Behind` says for each place of the life-cycle
   coroutine (`Stage`) which frames and calls of the agent are gone from which mailbox
   by then, and behind which the coroutine still is in the mailbox they share. It is
   inductive because the logger answers in order and because closing and opening an agent
   write no fewer lines than a frame or a call: with more of these (the mutants
   `RpcDumpLines` and `WriteLines`) `Behind` breaks, and so do the properties.
4. `NameInv`: a frame in flight is of the user its agent's handler holds, a call in
   flight is for the user its agent has, or the agent has none. `AuthorNamed` and
   `RightUser` follow.
5. `WayInv`: a broadcast under way has one coroutine, and its state says of which kind.
   `AimInv`: who has been online since the broadcast began has an agent in the table
   that is not being closed, and the agent that is called is the one in the table, or
   the account has left. `ReachInv` counts: an account is still to be visited, or is
   being called, or has got the message, once. `Reached` follows at the end of the
   traversal. `Kinds` sorts all steps by what they do to broadcasts.

`AimInv` and `ReachInv` were checked by TLC (two messages, two logins; and the instance of
the run) before they were proved.

### 4.4 Area of interest

`AoiProofs` proves all properties of `Aoi`, for any map with whole coordinates, any
depth, radius, positions and characters: `TypeHolds`, `QueryExactHolds`,
`UnmovedSeeEachOtherHolds`, `NoGhostHolds`, `FindableHolds`.
The quadtree comes first. A point of the map lies in some child of each box that holds
it, so the first child exists, and by induction on the depth the path to its leaf does
(`SetInduction`: over a set of numbers, by the least element of its complement, since an
induction theorem that takes an operator cannot be cited). A point inside a square
and inside a box shows that the two meet, so a query skips no entry of its square.
`AoiInv` then adds to the types what the lists are inductive on: entries and objects of
characters that never moved agree (`SightInv`), each character's last position has an
entry (`Findable`).

### 4.5 Identifiers, characters, the monitor

`UuidProofs` proves, for any services, limits and clocks:
- `TypeHolds`: `Spec => []TypeOK`, with no condition on loading, workers and timers.
- `OrderHolds`, `IncreasingHolds`: the identifiers of a service increase, when no
  timer rings early (`Slack = 0`), whatever happens to the counter. `UniqueIds` and
  `Increasing` say nothing of what comes next; `OrderInv` adds `TimeInv` (a cached
  second is not in the future, and its timer outlives it: as long as the second
  has not passed the timer is due after it), `IssuedInv` (an identifier comes
  before whatever its service may return next) and `OnceInv`.
- `UniqueHolds`: no identifier is returned twice, with `~ Late` and `~ Racing` too.
  `SidInv` says that the numbers of the services are different and at most `sid`.

`CharacterProofs` proves all properties of `Character`, for any accounts, agents,
hashes, numbers of requests at once, failures and crashes:
- `OwnedHolds`: a list that was read is written back requests later, so `OwnInv` says of
  every coroutine (`Vouched`) that its copy of the list holds ids of its agent's present
  user only, and, once an id was checked or made, that it is that user's; with
  `Settled` the user stays as long as a coroutine runs. `PackedIds` is what it takes to
  know of JSON.
- `TypeHolds`: that a list has one entry per key and per id is the hard part. The key
  that `table.insert` takes is free and within bounds because there are no more entries
  than ids, and the id of a creation under way is in no table yet (`ShapeInv`).
- `ListedSavedHolds`, `NothingLostHolds`: under `Settled`, like `Owned`; the run that checks
  them has `Settled = TRUE`. `KeptInv` says what a request under way relies on (`Ready`):
  while an account's requests come one at a time, what its one coroutine has read is
  what is stored, a creation has saved its record before it lists it, and a deletion
  has unlisted its character before it removes the record.

`MoniterProofs` proves `TypeCorrect` and `AlarmHolds`, `Spec => []AlarmExact`, for any
services (the types of this module are left to the proof, no run checks them). `MInv`
adds that a service asks once to be registered (`LifeInv`), and that the one that
is called stays in the table until it is answered (`CallInv`).

They rest on `LimitAssumption`, `BuildAssumption`, `BoundAssumption`, `MapAssumption` and the
`ConstantAssumption` of each module. That of `Chat` says that the pool lists no agent twice:
`gamed.lua` fills it with agents it has just created. Only model-checked: the
liveness properties (`BroadcastEnds`, `AskedAgain`, `DeadNoticed`).

## 5. Plan

Done: the gateway, login with its refinement and accounts, identifiers, chat, the
monitor, the area of interest, characters; all safety properties are theorems.
Next would be:
1. `FramesInOrder` under the discipline `reconnect`, where a drop and a kick may cross:
   the frames need less of `Explains` than the takeovers do.
2. The subscriptions of `aoi_handler.lua`, over `Aoi`.
3. The world and maps, when the program starts them (section 6).

## 6. Not modelled

- **World and maps** (`world.lua`, `map.lua`, `map_handler.lua`, `world_handler.lua`,
  `move_handler.lua`): `CMD.open` of `gamed` does not start the world, and no entry of
  `msg_define.lua` names the requests that reach it, so that the program has no
  behaviour there. Read for what a model would have to show: a leave sent late
  removes the entry of a character that has entered again; `online_character` is
  set before `world_enter` is answered, so that an entry can outlive its agent and
  later kick a user who has nothing to do with it; `cmd_map_enter` may reach an
  agent that is closed or recycled.
- **The subscriptions of `aoi_handler.lua`, combat and attributes**: reached from a map
  only.
- **Friends**: `cmd_online` of `friend_server.lua` is the only place that fills its table,
  and its call in `agent.lua:191` is commented out; every other request stops at the
  assertion that the account is known.
- **Labor unions**: `CMD.create` uses a table as a key of `members`, which cjson does not
  encode; it always fails, so no union exists.
- **Start-up, static data, HTTP front end, logger, packing of messages**: no state that
  behaves, or formatting only; frames are numbers in `Gamed`.
- **Cryptography**: bindings of OpenSSL; `LoginServer` models what their results are
  compared for.
- **Vendored code** (`src/3rd`: cjson and the headers of OpenSSL) is most of
  the lines of the repository and none of its logic. Where its behaviour matters it is
  modelled from its use: `Packed` and `Dense` of `Character` for cjson's sparse arrays,
  `Insert` of `Chat` for `next` of Lua.
