# Verification of XMS

TLA+ models, TLC runs and TLAPS proofs for XMS, a micro-service framework in C++
(communication library, registry, configuration, authentication and log services, an
API gateway). Paths are relative to `src/src/`. `PROJECT.json` maps every definition to
the lines it models.

## 1. The system

Every XMS process links `xplatform`. A connection is an `XComTask` (libevent
bufferevent), an `XMsgEvent` on top of it frames protocol-buffer messages and calls a
callback per message type, and a pool thread with its own `event_base` runs it. Services
derive from `XService`/`XServiceHandle`, clients from `XServiceClient`.

```
 client --- XRouterHandle --+                        +-- service instance
                            | XServiceProxy          |
 client --- XRouterHandle --+-- XServiceProxyClient -+-- service instance
                   gateway  |
                            +-- XRegisterClient --- XRegisterHandle   registry
                            +-- XConfigClient ----- XConfigHandle     configuration

 any process --- XLogClient ------------------------ XLogHandle        log
```

| Component | State | Operations | What is hard | What makes it correct |
|---|---|---|---|---|
| Thread pool (`XThreadPool`, `XThread`) | per thread: task list, pipe, `event_base`; the last thread chosen | `Init`, `Dispatch` (AddTask, Activate), `Main`, `Notify`, `ExitAllThread` | hand-over in two steps; a full pipe; a thread whose `Setup` failed | no wake-up lost, first in first out, exactly once, fair round robin |
| Framing (`XMsgEvent`, `XMsg`) | `head_`, `msg_`, `pb_head_`, the input buffer | `SendMsg`, `ReadCB`, `RecvMsg`, `GetMsg`, `Clear`, `Close` | frames cut anywhere, resumed reads, stale headers, two senders, reconnects in mid-frame | a channel of whole messages, in order; nothing complete left waiting |
| Connection (`XComTask`, `XServiceClient`) | bufferevent, two flags, timers, `auto_delete_` | `StartConnect`, `Init`, `Connect`, `EventCB`, `Close`, timers | flags read without the mutex, `Connect` from several threads, deletion | flags follow the bufferevent; a client survives and reconnects |
| Gateway (`XRouterHandle`, `XServiceProxy`, `XServiceProxyClient`) | instances per service, the index used last, `callbacks_`, `callback_task_` | forward, reply, register, clean up, add instances | routers and proxies on different threads, four mutexes inside each other, deletion while a reply comes, instances going down | replies find their router, entries are cleaned, load is balanced, no thread waits for ever |
| Token cache (`XAuthProxy`) | tokens with expiry, in memory | `CheckToken`, expiry thread, login replies | expiry against use, the cache against the answer it is relayed with | what passes was granted, or just refused, and is hardly expired; what was granted passes until it expires |
| Registry (`XRegisterHandle`) | `service_map`, in memory | register, discover | concurrent handles, a map serialised outside its mutex, restart | addresses once; all known again after a restart |
| Registry client (`XRegisterClient`) | map in memory, cache file | register at each connect, requests, `GetServcies` | answers for one and for all mixed, file against memory, timeouts | memory only gets newer; file and memory agree |
| Configuration server (`XConfigHandle`, `ConfigDao`) | a table by address and port, a mutex per process | save, load, delete, list | two statements per save, several handles and servers | one row per address |
| Configuration client (`XConfigClient`, `XConfigManager`) | configurations in memory, own one in a file | periodic load, blocking requests | replies after their timeout, a file rewritten in place, a connection closed under way | a list is not older than its request; the service comes to hold its configuration |
| Authentication (`XAuthHandle`, `XAuthDao`, `XAuthClient`) | users and tokens in tables; at the client the answers by user and the one in use | login, check, add user, change password | expiry, answers that come late or never | a login returns its own answer, also used in the heads that follow |
| Log client (`XLogClient`) | list of logs, without a bound | `AddLog`, timer, send | threads against the timer, sending while disconnected | each thread's order, nothing twice, nothing lost without a fault |
| Log server (`XLogHandle`, `XLogDao`) | a table | insert | handles of an old and a new connection | a row per log |
| Listening (`XService`) | - | a handle per accept | - | each is one `Dispatch` |
| Watchdog, tools, TLS, MySQL wrapper, Qt interface, generated code | - | - | outside the program's own logic | - |

The hazards, each at its line, with the properties that cover them, are in
`PROJECT.json`.

## 2. The modules

### `XThreadPool`: handing a connection to a thread

One pool with one owner thread (the listening thread, or the thread that calls
`StartConnect`). `StartThread` is a round of the loop in `CXThreadPool::Init`; the two
things in `Setup` that can fail (the pipe, then the `event_base`) are
`SetupOutcomes`, and, as in the code, nobody looks at them. `Dispatch`, `AddTask` and
`Activate` are the three steps of `CXThreadPool::Dispatch`; `Loop`, `PopTask` and
`InitTask` those of `Main` and `Notify`. `assigned` and `inits` are history.

### `XMsgEvent` and `MsgChannel`: framing

`MsgChannel` is the promise: messages come out whole and in order, a break of the
connection loses what is under way. `XMsgEvent` models the bytes. `WriteSize`,
`WriteHead`, `WriteBody` are the three `Write`s of `SendMsg`; `Arrive(n)` hands the
first n bytes under way to the reader and calls `ReadCB`; `RecvSize`, `RecvHead`,
`RecvBody` are the stages of `RecvMsg`; `Dispatch` and `WaitForMore` the two outcomes
of `GetMsg`. A byte is a record that says which byte of which frame it is, so no
property depends on what garbage would parse to: a reader that takes bytes for what
they are not is `"lost"`. `ImplementsChannel` is the refinement; `pending` maps to the
part of `sent` that is not consumed yet and `delivered` to the callbacks made.

Any number of threads send (`SenderOf`), each `Write` under the mutex and the frame not;
chunks end anywhere; and `Reconnect` looks at nothing but the connection, as the
auto-connect timer does, so that the rest of a frame can go out on the next connection.
The framing has no defence against three things, and `torn` notes when the first of them
happens on a connection: a chunk that ends in the size or the header of a frame
(`WholeHeader`; the first frame a task ever receives may be cut between size and end of
header), a `Write` of another sender inside a frame, and a frame begun on an earlier
connection (both are a `Write` whose sender is not the `owner` of the frame under way).
All properties hold on a connection until it is torn and again on the next one, so they
say that nothing else loses or mixes up a message: not a cut body, not a body that is
missing, not an unregistered type, not a break in mid-frame, not a second sender whose
frames do not mix. That the cuts do happen in the code is run `msgevent_split`, which
checks the sentence of the comment above `GetMsg` as it stands (`CompleteOrNull`).

### `XComTask`: the life of a client connection

The pool thread (`Loop`) runs `Init`, events and timers; the threads in `Outside` test
the two flags and call `Connect` (`XServiceProxy::Main`, `XConfigManager`). `Connect` is
cut where other threads can see a difference: at its mutex, at the socket, at the flag.
`Connected` sets the flags without the mutex, as the code does. `Close` includes its
trailing part: timers and the object go with `auto_delete_`. `KeepClient` is the
`set_auto_delete(false)` that comes after `Dispatch`. libevent is external:
`bufferevent_socket_connect` either starts and an event tells the outcome, or fails by
its return value and changes nothing.

### `Gateway`: routing requests and replies

`AddInstance` is the part of `XServiceProxy::Main` that adds a proxy, `ProxyConnected`
its `EventCB`, `CloseProxy` and `ProxyClosed` the two ends of `XComTask::Close`. A request
q goes through `Receive` (the router's thread enters `SendMsg`), `LockMap`, `Choose` (one
turn of the loop over the instances), `LockCallbacks`, `RegEvent` and `Send`, or `Refuse`;
the service's `Answer` is external; `Find` and `Relay` are the two unlocked steps of the
proxy's `ReadCB`. `XRouterHandle::Close` is `Close`, `DelEvent` (of `XServiceProxy`),
`DelEventAt` and `Erase` (of the proxy) and `DeleteRouter`. `turns` is history for the
balance.

Four kinds of mutex are variables: `client_map_mutex_` and `callbacks_mutex_`, both held
until `SendMsg` returns; `callback_task_mutex_` of each proxy; and `mux_` of each proxy,
which its `Close` holds and every `Write` needs. Where a mutex is taken and given back
with nothing in between but its own assignment, taking it is a guard of that step. The
mutex of a router as a task is only ever taken last and held for no other, and is left out.

### `Register`: registry and clients

`RegisterReq` and `SetService` are the two halves of adding an entry under the mutex;
the split matters because `GetServiceAll` lets go of the mutex with a pointer to the map
and `SendAll` serialises it later: it may send an entry without address (`Blank`).
`GetServiceOne` copies under the mutex. On the client `GetServiceRes` refreshes the
memory and opens (and so empties) the file, `Saved` writes it; `RestartClient` may come
between. `GetServcies`, `Ask`, `Look`, `GiveUp` and `TimeOut` are the blocking call.
Because `RegisterServer` loads the file before anything asks for services, the map of a
client is never null afterwards; the branches of the code for a null map are not
reachable and not modelled. What a lost connection leaves unread at its handle is lost:
to read it later would be the same as reading it before the loss, since a registration
that repeats itself changes nothing.

### `Auth`: login, tokens and the gateway's cache

The client's `LoginReq` sends and waits; `LoginReturns` and `LoginTimesOut` are the ends
of `GetLoginInfo`. `Ask` is a request that needs a token (`SetHead` adds it); `ReadCB` is
the router, which lets logins pass and asks `CheckToken` for the rest. `Login`, `AddUser`
and `ChangePassword` are the operations of `XAuthDao`, one step each because `auth_mutex`
is held throughout; each statement of theirs may fail (`Fault`), and `LoginRefused`,
`LoginNotInserted`, `LoginNotRead` and `LoginGranted` are the ends a login comes to. The
answer to a login goes through `Cache` (`XAuthProxy::ReadCB`) and then to the client
(`LoginRes`). `Expire` is a round of the expiry thread, which comes at least every
`MaxLate` seconds (`Tick`). A token is the record of the login that made it. A `Refusal`
is what `LoginReq` of the service answers to every login that failed: the same text for a
token, and the user's name if it failed after the password was found right. It is cached
by that text like a token, and a client that stored one puts it into its heads;
`CheckToken` looks at nothing that would tell it from a token. `granted`, `fresh` and
`timedOut` are history. The steps of routing are those of `Gateway`; here messages
overtake each other freely. A lost connection (`Break`) is made again, as the clients set
their server before they start. The model is one life of the gateway: when a gateway
starts its cache is empty, and clients have to log in again. `ChangePasswordReq`, alone of
the requests, sends the password without hashing it (`Request`), so the new one is not one
that the same client can log in with; no property depends on it.

### `Config`: the configuration centre

The table is a set of rows with an id of their own, since nothing but `SaveConfig` keeps
an address unique; a configuration is the number of the change that wrote it, a list the
number of the last change before it. `SelectRow` and `WriteRow` are the two statements of
`SaveConfig`. A manager's caller goes through `Change` (save or delete, without waiting),
`Refresh` (the interface closes its connection and lists anew), `GetAllConfig`, `SendList`
or `NotConnected`, and `Returns`; its event thread through `Receive` and `LoadAllConfigRes`, which may still
run after `Refresh`. The lists asked for before a `Refresh` stay with the servers
(`Forsaken`): they are answered, and the gateway drops the answer. The service learns its server once (`ConfTimer`), asks at each
`TimerCB`, and rewrites its file in `OpenFile` and `WriteFile`; `Restart` may come
between, which is why a file can stay empty. A lost connection is not made again: see the
finding on `xcom_task.cpp:439`. `asked` and `late` are history.

### `XLog`: logging

`Stamp` and `Push` are the two halves of `AddLog`, before and under `logs_mutex_`;
`TimerCB`, `TakeLog` and `SendLog` are the call of the timer and a turn of its loop.
Sending takes the log into the buffer of the bufferevent unless there is none; `Flush`
(libevent) puts it on the wire of the connection, `Close` drops the buffer. Each
connection has a handle at the server, so that an old one may still insert (`AddLogReq`)
when the new one does, or end with what it has not read (`HandleEnds`).

### Proofs

`XThreadPoolProofs`, `XMsgEventProofs`, `XComTaskProofs`, `GatewayProofs`,
`RegisterProofs`, `AuthProofs`, `ConfigProofs` and `XLogProofs` each EXTEND the module
they are about. `MC*` modules only name model values and give the functions of the
constants.

## 3. The runs

| Run | What it asks | Result |
|---|---|---|
| `threadpool` | is a task ever lost, repeated, reordered or stuck? | holds |
| `msgevent` | is the framing a channel of whole messages, and what are the only ways to lose it? | holds |
| `msgevent_split` | does `GetMsg` return complete packets only, whatever a chunk ends in? | violated: previous header dispatched again |
| `comtask` | does a client reconnect under every interleaving, with true flags? | holds |
| `comtask_deleted` | does a client without early `auto_delete_` = false survive? | violated |
| `gateway` | do replies find their router, are entries cleaned, is the load even? | holds |
| `gateway_ends` | does any thread wait for ever for another? | holds |
| `gateway_stale` | does any entry point to a deleted router? | violated |
| `register` | are addresses unique, caches newer and newer, faults recovered from? | holds |
| `auth` | does the gateway pass what was granted, and nothing else? does a login return its own answer? | holds |
| `config` | one row per address? lists as new as their request? does a service get its configuration? | holds |
| `xlog` | are logs kept in order, once, and all without a fault? | holds |

What a violated run says of the code, with the sentence of the code or its documents it
contradicts, is under `findings` in `PROJECT.json`. The other findings there have no run:
they were made while reading, or follow from a model by a variation that is described
with them (a second configuration server, a late list, a client without its server's
address).

What the passing runs exclude, property by property:

- `WakeupPerTask`: a byte too few or too many for the tasks queued, between any two
  steps. `FifoExactlyOnce`: done, in hand, queued and being added are together what was
  assigned. `RoundRobin`: lengths differ by one at most, at the place of the index.
  `DispatchedIsInitialised`, `DispatchReturns`: on a thread that was set up nothing
  sleeps and a blocked `write` ends.
- `Aligned`, `HandledWhole`: bytes taken for others, or a header with another's body, on a
  connection on which no later header was cut and no `Write` crossed a frame.
  `QuietMeansHandled`: `ReadCB` returns with a whole frame in the buffer.
  `ImplementsChannel`: a message lost, repeated or out of order. `SentIsConsumed`: what was
  sent stays undispatched on a connection that stays up. Each until the connection is torn.
- `ConnectedHasBev`, `Reconnects`: no flag survives the connection it spoke of.
  `ClientSurvives`: the object stays. `TimerPerBev`: exactly how the timers grow.
  `ComesUp`: connected again and again while others call `Connect`.
- `ReplyFindsRouter`: registration comes before the request and outlives other routers
  and other instances. `LastProxyCleaned`: what `DelEvent` does guarantee. `Balanced`:
  no instance two requests ahead. `CallsReturn`: threads that wait for each other's
  mutexes (its mutant searches the list of instances while it cleans up, which is enough), a
  router that is never deleted, a reply that is never looked at. It assumes no answers.
- `RegisteredOnce`, `DiskIsMemory`, `CacheGrows`, `AllKnown`: see the module.
- `PassedWasGranted`: a request passes on a token that nobody granted, or that expired
  longer ago than a round of the expiry thread. The exceptions are a token whose answer was
  so late that the thread has not met it, and the text of a refusal that was cached since
  its last round: the run fails without the second one too. `GrantedIsAccepted`: the client has its token
  before the cache has, or the cache loses it early. `AnswerIsOfAttempt`: `Login` returns
  another attempt's answer although none timed out, or later heads carry another token.
- `OneRow`: two saves that both find no row. `ListIsNotOlder`: a list from before the
  call, other than one an earlier call gave up on. `Converges`: a service that stays with
  an old configuration.
- `InOrder`: two logs of a thread change places between list, buffer and wire, or one is
  inserted twice, or inserted and still on its way. `NothingLostWhileUp`: a log vanishes
  with no connection lost and no insert failed. `Arrives`: a log stays in the list.

### Bounds

- Pool: 2 threads, 4 tasks, a pipe of 1 byte. Each thread gets two tasks, so a list with
  more than one entry, a blocked `write` and a wrapped index all happen.
- Framing: sizes of 2 bytes, headers of 2, one body of 2; three messages, one with a body,
  one without, one of an unregistered type; two senders (`s1` sends two of the messages),
  one break. Two bytes are the least that can be cut; a sender inside another's frame, a
  frame that goes on after a reconnect and a clean connection after a torn one all happen.
  `msgevent_split` has one sender and no break, so that only a cut is left.
- Connection: three closes (`MaxCloses`), two outside threads.
- Gateway: two routers, three requests, two instances. The first router's two requests
  go over different instances, which is what stale entries need. `gateway_ends` has one
  request for each router: liveness is about the threads of two routers and two proxies and
  the mutexes between them.
- Registry: one poller and caller, two instances of one service, one restart
  (`MaxRestarts`), one lost connection or restarted process (`MaxBreaks`), one message
  in each queue (`MaxQueue`); with the one in the handle that is three under way, and
  answers for one and for all still overtake changes of the map. Safety was also run with
  queues of two.
- Login: two clients, two users, two passwords, three logins (two of one client, so that
  one can be late for the other), one added user or changed password, one lost connection
  or failed statement (`MaxFaults`). Tokens live one second, the expiry thread may be one
  second late, and three seconds pass: a token is granted, expires, stays for the round and
  goes, and another is granted. In the code a token lives 1800 seconds; only the order of
  expiry, round and use matters.
- Configuration: the interface with two operations and the command line tool with one,
  two addresses, one server, one fault of the service. Two saves at the same time, a save
  against a delete, and a list given up on all happen. With two servers `OneRow` fails:
  that is a finding.
- Logging: two threads with two logs, two faults, hence up to three connections.

The terminal states of these bounded models are real stops (all tasks handled, all
closes used up), hence `CHECK_DEADLOCK FALSE`.

### Fairness

Threads that can go on do (weak fairness of their steps); nobody has to call `Dispatch`,
`SendMsg`, `Close` or fail. Beyond that:

- A mutex is taken in the end by a thread that waits for it (strong fairness of
  `ConnectBegin`, the steps of `SendMsg`, `ReadCB` and `CloseRouter` in `Gateway`, the
  registry's `Handle`): POSIX mutexes held for a few
  instructions, taken by threads that run at most every few milliseconds.
- `Connected \/ Close` is strong: an outside `Connect` can start the connect afresh, but
  the callers come every three seconds and the event loop between them.
- `ConnectSocket(Loop)` is strong: a connect that is tried for ever starts some time.
  It says nothing about success.
- `ReadCB` in `Gateway` is strong also because several replies share the thread of a
  proxy. `ProxyClosed` is weak: a `Close` that began runs to its end. Nothing is assumed of
  services, clients and the network: no request need be answered, no instance come up, and
  the gateway has no time limit that would end a request without an answer.
- In `XMsgEvent` a `SendMsg` that began runs on, what was written arrives some time in
  chunks of any size, and `ReadCB` runs, all weak. Nothing makes a connection come back.
- In `XLog`, `Connected` and `Flush` are strong: the event loop alternates between its
  timer and its sockets, so each is possible again and again while logs keep coming.
- In `Config` all fairness is weak: the service's timer and thread, its handle, and a
  handle that holds the mutex; and `ConfTimer`, that is the registry knows the
  configuration server in the end (`AllKnown` of `Register`). Managers need do nothing.
- `Auth` has no liveness property and assumes nothing.
- `Poll` is strong: the gateway polls every three seconds, and between two polls the
  registry makes room in the queue.

## 4. The proofs

`XThreadPoolProofs` holds for any set of tasks, any number of threads above 0 and any pipe
size above 0 (`ConstantsAssumption`; TLC evaluates it in each run):

- `TypeCorrect`: `Spec => []TypeOK`. Its only hard part is that the index computed by
  `Dispatch` is one of `threads_` (`NextIndex`).
- `WakeupsMatchTasks`: `Spec => []WakeupPerTask`. `WakeupPerTask` is not inductive: that
  `Activate` really adds a byte needs `base_[t] => notify_[t]`, and that a thread starts
  with nothing needs to know that threads not yet created are untouched and that
  `Dispatch` runs only when all exist. `PoolInv` adds those three; `PoolInvHolds` has one
  step per action.
- `NotifyFindsTask`: the early return of `Notify` on an empty list is dead code.
- `RoundRobinHolds`: `RoundRobin` is inductive with `TypeOK`; the arithmetic is
  `RoundStep`, over the two cases of `NextIndex`.
- `FifoExactlyOnceHolds`: the concatenation is the same before and after every step
  except `Dispatch`, which appends to both sides; `AppendAtEnd`, `HeadInHand`,
  `OutOfHand` are the three lemmas on sequences. `PoolInv` is needed once: a thread that
  is created has nothing in hand.

`XMsgEventProofs` is about any messages, any number of senders, any lengths above 0 of size
and header, any lengths of bodies and any number of breaks, with nothing assumed of
senders, chunks and reconnects; the run has lengths up to 2.

- The invariant is `UntilTorn`: `StreamInv` as long as the connection is not torn. `Break`
  restores it whatever was before (`BreakMends`), and no step but `Break` takes `torn` back
  (`TornStays`). Its heart is `Stream(S, q, x, w)`: the bytes q on their way
  are frames of the messages S, from the byte x that the reader reads next (`Cursor`) to
  the byte w that is written next (`Writer`); each byte leads to the one after it
  (`Leads`), a part that begins in q ends in q (`Runs`), and no byte is there twice.
  `Advance` (the reader takes bytes of one part), `Extend` (a part is written) and
  `NewFrame` (a message is begun) are the three lemmas about it; they are about sequences
  only, and each action uses one of them.
- `ReaderInv` says what `head_`, `msg_` and `pb_head_` hold at each stage of `RecvMsg`,
  `SendInv` that what is still to be written of the frame under way (`Under`) is not on its
  way yet, whatever other threads have left of frames of earlier connections, and `CutInv` that what has arrived does not
  end in a size or a header, but for the first header.
  `RecvSize` and `RecvHead` need it: without it a short read is taken for a whole size,
  and `GetMsg` sees the header of the frame before.
- `AlignedHolds`, `HandledWholeHolds` and `QuietMeansHandledHolds` follow from
  `StreamInv`. `ImplementsChannelHolds` is the refinement: `WriteSize` is `Send`,
  `Dispatch` is `Deliver` of `sent[done + 1]`, which is what `pb_head_` holds by then,
  `Break` is `Break`, a step that tears or follows it is `Astray`, and every other step is a
  stutter.

The others hold for any sets of threads, routers, proxies, requests, processes,
services, clients, users and managers, and for any bound; the `ConstantsAssumption` of a
module only gives the constants their types (bounds are natural numbers, callers are
among the instances) and keeps the values for "nobody" apart from the real ones.

- `XComTaskProofs`. `ConnectedHasBev` needs that nothing connects before `Init` has run
  (`NotYet`): `is_connecting_` is true from construction on and keeps the outside threads
  away. `ClientSurvives` and `TimerPerBev` are proved for `KeepFirst` (`Kept`); without it
  run `comtask_deleted` violates them.
- `GatewayProofs`. `RoutingInv` adds to `ReplyFindsRouter` and `LastProxyCleaned` that a
  router does not close while its thread is inside `SendMsg` (`InsideIsOpen`): without it a
  closed router could be registered again. `OnlyRequestsStep` serves all steps that move
  only a request; `LockCallbacksStep`, `RegEventStep` and, in `RoutingStep`, `Erase` are the
  ones that touch the registration.
  `BalancedHolds` needs to know which instance comes next: `RoundInv` says that in the
  order of the round (`Sooner`) turns never fall and rise by one at most; `ChooseRound`
  is the step that moves the end of that order, `NextPosition` its arithmetic.
- `RegisterProofs`. `RegisteredOnce` is not inductive: `Adding` says that the entry
  without address is the last of its list and the one of the handle that holds the mutex,
  and that this handle's own address is not in the list. `AddEntry` and `CompleteEntry` are
  the two list lemmas. Types need `Busy`: a handle in the middle of a request still has it
  at the head of its queue. `DiskIsMemory` is inductive. `CacheGrowsHolds` is an action
  property, from `AgeInv`: the memory of a client, the answers to it in their order and
  `service_map` each keep what the one before has (`Keeps`), and a file that is being
  written is empty, so that a restart cannot bring back a list out of that order.
- `AuthProofs`. `PassedWasGrantedHolds` rests on `CacheInv`: every token in the cache or in
  an answer is a granted one or a refusal, a refusal in the cache came since the last round
  of the thread, and an entry that the expiry
  thread has met is not expired for longer than the seconds since its last round.
  `GrantedIsAcceptedHolds` rests on `AcceptInv`: an answer on its way from the cache to the
  client, or at the client, is in the cache until it expires; the order of `Cache` and
  `LoginRes` is what makes that inductive. Both are proved for any lifetime of a token and
  any delay of the thread, the values the run can only sample. `AnswerIsOfAttemptHolds`:
  a login is in at most one of four places, with the client's connection, with the
  service, with the gateway or answered, and only while the client waits with nothing
  stored (`AttemptInv`); `LinkInv` keeps the messages of earlier connections apart.
- `ConfigProofs`. The types need that `CHOOSE` of a least number finds one, from the
  well-foundedness of the naturals (`LeastNumber`). `ListIsNotOlderHolds`: while a call
  waits one list at most is under way for it, in one of five places from the output buffer
  to the memory (`Awaited`), and otherwise none is (`Free`), unless a call gave up on one
  (`ListInv`); `AskInv` adds that nothing is asked of the future. `Refresh` is the step
  that empties the places. `OneRowHolds` assumes one server (`OneServer`). `RowInv` adds that a call
  between its two statements is alone in the mutex and that one that found no row still
  has none to find; `WriteStep` has a step for the update and one for the insert.
- `XLogProofs`, for any number of threads, logs and faults. Types need `ConnInv`: a new
  connection comes after a fault, so connections do not run out of numbers, and without a
  fault there is one. `NothingLostWhileUpHolds`: a log is `Somewhere` or with its thread
  (`LostInv`); `KeptStep` has one step per action. `InOrderHolds` rests on four
  invariants: what a thread is about to add is its newest log and nowhere else (`NewInv`),
  each place and each pair of places of the newest connection is in order (`LineInv`), a
  log is in one place (`OnceInv`), and without a fault the table comes before all places
  (`TableInv`). They speak of which logs a sequence holds (`In`, `Before`), not of
  positions: moving a log then needs only what `Head`, `Tail` and `\o` do to `In`, and
  `OrderedConcat` puts the places together at the end.

Only model-checked: every liveness property (fairness and ENABLED are out of TLAPS's
reach), that is `DispatchedIsInitialised`, `DispatchReturns`, `SentIsConsumed`,
`Reconnects`, `ComesUp`, `CallsReturn`, `AllKnown`, `Converges` and `Arrives`. Every
invariant, and every action property but liveness, of a passing run is also a theorem. No
module uses a RECURSIVE operator.

## 5. Not modelled, and assumptions

- Data races: inside libevent, which has no locks here, on `bev_` and on `client_map_`.
  `Close` of a task by a thread other than its own (the Qt interface does it) is in
  `Config` with its effect on messages, not in `XComTask`.
- The reuse of a router's address for a new router: a hazard with a note.
- A new life of the gateway: its caches are empty then, and its clients connect and log in
  again.
- Statements of the database do not fail in `Config`, nor do requests fail to parse: that
  would only leave the table as it is.
- The fields of a configuration, protocol files (`LoadProto`), pages of a list, and
  configurations of other addresses a service asks for (`GetConfig` reads only).
- The service's own `CheckToken`, which changes nothing and answers nobody.
- The copies of a log on the screen and in a local file; logs below the level, which
  `AddLog` drops at once.
- Garbage bytes and sizes above the limit; malformed protocol buffers.
- TLS: same life cycle with a handshake before `Connected`.
- The library calls themselves: libevent, protobuf, MySQL, OpenSSL are external. So are
  their headers and the generated protocol-buffer code, which are most of the lines of
  the repository.
- Watchdog, `XMutex` and the coding tools, the Qt dialogs: no state that a second step
  reads.

## 6. Plan

Done: `XThreadPool`, `XMsgEvent` over `MsgChannel`, `XComTask`, `Gateway`, `Register`,
`Auth`, `Config` and `XLog`, each with proofs of its invariants.

Left, in this order:

1. Abstract specifications of the thread pool (a queue of connections for each thread)
   and of logging (a channel that loses a log only with a fault), and proofs that
   `XThreadPool` and `XLog` implement them.
2. `Close` from outside in `XComTask`; the reuse of a router's address in `Gateway`.
