# A formal model of SnapEmu

SnapEmu is an IoT platform. One process, `devices_manager`, is a LoRaWAN
network server with an MQTT broker embedded in it; another, `snap_api`, is the
web API that manages users, devices, groups and queries. They share a database,
a redis server and a gRPC interface. This directory holds TLA+ modules of the
parts whose correctness depends on the order in which concurrent tasks run,
the TLC configurations that check them on small instances, and TLAPS proofs of
what holds for every instance.

    tlc -workers 2 -config lora_uplink.cfg MCLoRaServer.tla      model-check
    tlapm LoRaServer_proofs.tla                                  prove

## 1. The system

### Components

| Component | State it keeps | Operations | Talks to |
|---|---|---|---|
| LoRaWAN uplink (`service/lorawan_node.rs`) | `DATA_QUEUE`: one buffered frame per address; redis hash `info:node:<addr>` (session keys, both counters, gateway); `lora_node` row | `node_data`: read the device, try a pending session, check the MIC, store the counter, gather copies for 200 ms, hand the best one over | gateways (UDP), redis, database, downlinks, event stream, MQTT |
| LoRaWAN join (`lorawan_node.rs`, `man/lora.rs`) | `REQUEST_QUEUE`; `lora:otaa:<addr>`, the session not used yet | `request_warp`, `new_otaa_node` | redis, database, gateways |
| LoRaWAN downlink (`man/lora.rs`, `man/data.rs`) | `GLOBAL_DOWNLOAD`: queue per device; the downlink counter in redis | `dispatch_task_now`, `pull_task` | gRPC and MQTT requests, uplink tasks |
| Gateway configuration calls (`event/mod.rs`, `man/mqtt.rs`) | `CONFIG_CACHE`: gateway -> key -> oneshot sender, under one mutex | `config`, `update_config`, `process_gateway` | gRPC, MQTT |
| Forwarded responses (`man/mqtt.rs`, `man/data.rs`) | `GLOBAL_DOWNLOAD_RESPONSE`: device -> oneshot sender | `process_downlink`, the hand-over in `decode_payload` | MQTT, uplink tasks |
| Device registry (`device_info`, `snap_api/service/lorawan`) | redis record and EUI index, `devices` and `lora_node` rows | register, load, update, unregister | redis, database |
| MQTT broker (`protocol/mqtt/server/router.rs`, `scheduler.rs`, `log.rs`, `iobufs.rs`, `graveyard.rs`) | connections (slab), subscription map, ready queue, per-filter commit logs with waiters and retained messages, ack logs, inflight buffers, saved sessions (graveyard) | connect, disconnect, publish, subscribe, unsubscribe, acknowledgements, scheduling | one router thread; one link task per connection, through a channel and two shared buffers |
| MQTT connection (`network.rs`, `link.rs`, `server.rs`) and codecs (`protocol/mqtt/version`) | read and write buffer of a socket | version detection, the admission of a Connect, `read`, `readv`, `writev`; `len`, `read`, `write` of every packet of MQTT 3.1, 3.1.1 and 5 | socket, router |
| Gateway UDP (`protocol/lora/source`), gateway registry | last address, version, timestamp of a gateway | decode datagrams, acknowledge | gateways |
| Frame building (`protocol/lora/data.rs`) | none | window, frequency, data rate of a downlink | - |
| Snap devices and custom gateway | redis record | the vendor's radio protocol | MQTT |
| Decoding (`decode.rs`), event stream (`event/mod.rs`) | none; a broadcast channel | JavaScript decoders; log records | gRPC subscribers |
| `snap_api`: devices, groups, users, tokens, e-mail limits, scripts, broker accounts, queries | Postgres rows with keys in redis beside them (device records, cached group lists, sessions, codes, counters) | the REST API | Postgres, redis, gRPC to devices_manager |

The project's own README names EMQX as the broker; the code starts the
embedded one.

### Interactions

A datagram of a gateway becomes one tokio task per packet (`node_data`). All
tasks of a device work on the same redis record, the same pending session, the
same buffer entry and the same downlink queue, and none holds a lock across an
await: whatever a task read may be old when it is used. Downlink requests come
from gRPC and MQTT and either go out at once (class C) or wait in memory for the
next uplink. Configuration calls and forwards park a oneshot sender in a global
map, send a message out, and race an answer against a timeout.

In the broker everything that decides is one thread: it takes an event from a
channel (connect, disconnect, data, ready) or polls a connection from its ready
queue, which reads the logs of that connection's subscriptions. A link task
exchanges two buffers with it and posts an event when it has put something in or
taken something out. Requests of `snap_api` are independent tasks; what orders
them is row locks and unique indexes in Postgres, and what they write to redis
takes effect at once, whether their transaction commits or not.

### Where it is hard

- several gateways hear one frame, so several tasks judge it by records read at
  different times; copies are late and overtaken by newer frames;
- the frame carries 16 of 32 counter bits;
- a join creates a session the device may or may not hear of; the old one must
  work until the new one is used;
- ten second timers remove by key whatever is there when they fire;
- database, redis and socket calls fail one by one; a restart loses tasks,
  buffers and queues but not redis;
- maps are checked and changed under two separate locks;
- a connection that is not in the ready queue is served only if the right event
  comes, and its requests move between a tracker, the logs and the router's hands;
- a client's old connection may still be there when its new one comes, and ids of
  connections are reused;
- packets come in pieces, several at a time, and a waiting read is dropped
  whenever there is something to write;
- a handler may fail, be aborted, deadlock or lose its redis keys at any await,
  and redis is not rolled back.

### What makes each part correct

- uplink: a frame is reported once; the best copy is the one reported; the
  counter kept can always authenticate the next frame; an accepted frame is
  reported.
- join: a session is used by the server only once the device has used it; a
  session the device accepted is not lost.
- downlink: a queued request goes out once; counters are never reused.
- configuration calls: a call that waits can be answered; nothing stays
  registered; every call ends; no call breaks the cache for the others.
- forwards: a waiting forward can be answered by the next uplink; the registry
  is freed.
- broker: a subscription is handed everything after its place in the log, in
  order; a saved session resumes at the first message not acknowledged; no
  connection waits that could be served.
- wire: what one end sent is what the other reads, however it is cut, and nothing
  complete is left lying.
- registry and management: redis and Postgres agree on which device has an
  address; no half of a device is left; a user has one default group.

The hazards found while reading, each at its line and with the properties that
cover it, are in `PROJECT.json` under `hazards`.

## 2. The modules

| Module | Models |
|---|---|
| `FrameCounter` | counter arithmetic of `decode_node_payload` and `payload_decode` |
| `LoRaState` | state of one end device: records, buffers, tasks, air |
| `LoRaUplink` | the uplink task |
| `LoRaJoin` | join requests |
| `LoRaDownlink` | `pull_task`, `dispatch_task_now` |
| `LoRaServer` | the three composed, restarts, fairness, properties |
| `MCLoRaServer` | instances: kinds of frames, symmetry |
| `GatewayConfig`, `MCGatewayConfig` | configuration calls |
| `ForwardResponse` | forwarded downlinks of one device |
| `CommitLog` | the segmented log of one filter |
| `MqttState` | state of the broker, scheduler, waiters, inflight messages |
| `MqttRouter` | the router thread: events, packets, polls |
| `MqttLink` | link tasks and the clients behind them |
| `PubSub` | what the broker promises a subscription (abstract) |
| `MqttBroker`, `MCMqttBroker` | router and links composed, refinement, properties; instances |
| `MqttBytes` | fixed header, lengths, strings, integers as bytes |
| `MqttProperties`, `MqttV5`, `MqttV4`, `MqttV3` | the codecs |
| `MqttWire`, `MCMqttWire` | one connection over its bytes; scenarios |
| `ApiStore` | tables, redis keys, transactions, locks, handlers in progress |
| `ApiDevice`, `ApiGroup`, `ApiUser` | the handlers, one action per await |
| `SnapApi`, `MCSnapApi` | routes, arrivals, expiry, properties; requests |
| `LoRaServer_proofs` | theorems about LoRaServer: types, sessions, frames, buffer, downlinks |
| `GatewayConfig_proofs`, `ForwardResponse_proofs` | theorems about those two |
| `MqttTypes_proofs`, `MqttBroker_proofs`, `MqttRequests_proofs` | theorems about the log and the broker's types, the broker, its data requests |
| `SnapInvariant_proofs`, `SnapApi_proofs` | the inductive invariant of SnapApi and what each kind of step keeps of it; the actions and the theorems |

### LoRaServer

The model is of one end device. Nothing in this part of the code is shared
between devices, every key being an address or an EUI, so one device is the
general case; gateways, copies, joins and requests are sets of any size.

| Variable | Code |
|---|---|
| `device`, `air` | the end device and what it has transmitted (external) |
| `stored` | hash `info:node:<addr>`; keys are a session number |
| `dbSess` | session keys in the `lora_node` row |
| `pending` | `lora:otaa:<addr>` |
| `up[u]` | the task of one reception: program counter, `node.info` (`snap`), the pending session taken, the entry it went to, the copy and the request it took |
| `slot`, `timers`, `dropped` | the `DATA_QUEUE` entry, the removal timers, what a timer or restart threw out |
| `join[j]`, `joinSlot`, `joinTimers`, `sessions` | join tasks, the `REQUEST_QUEUE` entry, its timers, sessions created |
| `queue`, `req[r]` | `GLOBAL_DOWNLOAD` entry, `dispatch_task_now` tasks |
| `rewound` | history: which field of the redis record was ever set back |

A task's program counter names the call it makes next; one action is one redis
or database call, or one critical section of a mutex, with the computation up to
the next await. Two exceptions: `Load` and `JoinLoad` read redis and, when it has
no record, the database in one step, and `WriteRegistered` is the SET of the EUI's
key together with the HSET. `Decode` is `decode_node_payload` with `payload_decode`: drop a
repetition, or store the reconstructed counter, or store the bare one and go on
to `reset_down_count`, or reject. `Insert` is `DataCache::insert`; the task that
opened the entry sleeps, the others end. `Wake` takes the entry after 200 ms.
`Deliver`, the actions of `LoRaDownlink` and `Report` are `decode_payload`.

A MIC fits when session and full counter are the frame's (`MicOk`); frames are
otherwise opaque. `UplinkFails`, `JoinFails` and `DispatchFails` are an error
from any call the task may be in; an error after the uplink event leaves the
frame reported and is no failure here. Writes of `active_time` and the gateway's
`tmst`, decoding, and the log are left out: no decision reads them back.
`dispatch_task`, `get_node`, `otaa_active`, `repetition_task` and `commit` have
no caller.

Timing. Sleeps are actions without clocks. Two assumptions tie them down: a ten
second timer does not fire while the task that opened the entry it belongs to is
in its 200 ms sleep, and a copy reaches the server before `MaxReorder + 1` later
frames are sent and while its own task is that recent. A timer may fire during
the sleep of any other task, which is the race worth checking.

### GatewayConfig

Per gateway `cache` holds the set of calls whose sender is registered, or
`Absent` when the gateway has no map at all: the difference matters, as
`contains_key` followed by `get_mut().unwrap()` shows. One action per critical
section: `Check`, `InsertKnown` or `InsertNew`, then `Publish`, `Resolve` or
`Timeout`, `FinishRead` (which removes the gateway's whole map) or
`FinishUpdate`. `Elapse` lets five seconds pass, `Cleanup` is the removal task,
`Cancel` drops a handler when its client leaves. A panic under the mutex poisons
it, and every later lock panics. Answers may be repeated or come late.

### ForwardResponse

`entry` is the sender registered for the device. `Check` and `Register` are the
two critical sections of `add`; `GiveUp` and `Remove` are the end of the ten
seconds and the removal after it; `Take` and `Send` are an uplink's hand-over.

### MqttBroker

| Variable | Code |
|---|---|
| `slab`, `free`, `conn` | `connections`, `ibufs`, `obufs`, `ackslog` and the scheduler's trackers, which share the ids of one slab; `conn` is kept per link, and cleared when the router forgets it |
| `submap`, `routes`, `data`, `retain` | `subscription_map`; `DataLog`: `publish_filters`, a `Data` per filter with `CommitLog` and waiters, `retained_publishes` |
| `ready`, `grave` | `readyqueue`, `graveyard` |
| `chan`, `phase`, `task` | the channel into the router, where `run_inner` is between draining and polling, the event or poll in hand |
| `link`, `inbuf`, `outbuf` | the link's task and the buffers it shares |
| `owes`, `npub`, `nctl`, `owed` | the client: answers it has yet to send, what it has sent, and a history of what it was handed and has not acknowledged |

The router takes one action per event, one per packet of a batch
(`PublishPacket`, `SubscribePacket`, `AckPacket`, ...), one to end the batch
(`EndPayload`, which wakes, acknowledges and disconnects as
`handle_device_payload` does), and one per request of a poll (`Serve`). Links
run in between. `HandleConnect`, `DropDuplicate`, `Refuse` and `Admit` are
`handle_new_connection`. An id outlives its connection in `ready`
(`PollStale`) and in `chan`, as in the code; a `Ready` for a removed id ends in
`task.step = "panicked"`, where the thread stays.

`PubSub` is the abstract specification: who is connected, logs, a place per
subscription, what was handed over. `MqttBroker!PS` maps it onto the broker: the place is the cursor of
the one request a subscription has, wherever that is, and of a client that is
gone, in the graveyard.

### MqttWire

Packets are records; the codecs map them to sequences of bytes and back, with
the lengths the code computes beforehand (`MqttV5!ConnAckLen` and its like) kept
apart from the bytes it writes, since that is where they may disagree. A reader
returns a packet, the bytes still missing, `bad`, or `panic`. A state of
`MqttWire` is a connection: `wire` (sent, not yet arrived), `read` (the buffer),
`need` (what the read in progress waits for), `queue` (the buffer shared with
the router), `got` (what the router took), `out` (what was written back).
`Exchange` drops the read in progress, as `select!` does. Names are bytes too,
so that the prefix of the user (`pack_topic`) is what it is in the code.

### SnapApi

| Variable | Code |
|---|---|
| `db` | committed rows of all tables, each with its table in `t` and the columns handlers look at |
| `redis` | device records, EUI index, gateway and Snap keys, group lists, sessions, e-mail codes and counters |
| `req[p]` | a request in progress: the statements it has left (`steps`), the rows its transaction added and replaced, what it has read |
| `waits` | the requests whose locks it waits for |
| `todo` | requests clients have still to send |
| `bare` | history: addresses a Bluetooth update registered without a row lock |

`SnapApi!Handler` gives a request the list of its steps, one for each await that
reads or writes shared state; an action of `ApiDevice`, `ApiGroup` or `ApiUser` is
what such a step does. Postgres is external: READ COMMITTED, a statement that
meets a row or a unique key of an open transaction waits for it, and a cycle of
waits ends with one transaction aborted. Ids come from sequences: what request
`no` draws is `no + Stride * k` for k = 1, 2, ..., so that no two ever draw the
same one and none is in the tables at the start. `Abort` ends a handler before any
statement: the client left, or the database or redis answered with an error.
`Expire` drops a redis key. There is no external user manager and no directory of
predefined devices in the model; a user's login name and e-mail address are one
name; a device set up over Bluetooth joins by ABP.

## 3. The runs

| Run | Instance | Properties |
|---|---|---|
| `lora_uplink` | 3 copies of 2 frames, modulus 16, device at counter 15 and rolling over, one counter reset, two signal strengths | `AtMostOnce`, `BestCopyKept`, `Resynchronises` |
| `lora_otaa` | 2 uplink tasks, 2 join tasks, 2 join attempts, 2 frames, redis with and without the record, every call may fail, a copy may be overtaken by the next frame | `TypeOK`, `SessionConfirmed`, `SessionKept` |
| `lora_downlink` | 2 confirmed uplinks, 2 requests, class A and C, failures, a restart | `RequestAccounted`, `DownCounterFresh` |
| `lora_live` | 3 copies of 2 frames, fair tasks | `AcceptedIsReported` |
| `lora_reset` | 2 copies of 2 frames, no reset of the device | `ResetMeansDeviceReset` (violated) |
| `gateway_config` | 2 reads, 1 update, 1 gateway, 1 answer, fair calls | `TypeOK`, `NothingLeftBehind`, `WaiterReachable`, `PoisonedByRead`, `EveryRequestEnds` |
| `config_unwrap` | 2 reads, 1 gateway | `UnwrapHolds` (violated) |
| `forward_response` | 3 waiting forwards, 1 long one, 2 uplinks, fair forwards | `EntryHasOwner`, `AloneIsReachable`, `ShortForwardLeaves` |
| `mqtt_broker` | a local publisher, a persistent subscriber with 2 connections that subscribes, pings or disconnects, 3 messages, the last retained, QoS 1, 2 segments of 1 message | `TypeOK`, `OneRequest`, `ParkedIsCaughtUp`, `NoLostWakeup`, `InflightDistinct`, `ImplementsPubSub` |
| `mqtt_live` | a publisher at QoS 2, a subscriber that subscribes and unsubscribes 2 filters at QoS 0 or 2, the broker's own client, 2 slots for the three, 1 iteration per turn and 1 poll per round, fair router and links | `RoutesComplete`, `CatchesUp` |
| `mqtt_wire` | 288 scenarios, chunks of 1, 7 and 200 bytes, 2 packets per buffer | `TypeOK`, `InOrder`, `NothingWithheld`, `RepliesReadable`, `AllDelivered` |
| `snap_api` | every pair of 42 requests and 9 triples, 2 slots, 2 addresses, 2 mails | `TypeOK`, `RecordOwned`, `StoredWhole`, `OneDefault` |

What they show:

- `AtMostOnce`: as long as the counter was never set back, a frame is reported
  twice only if its counter is 0 or 1, which the code exempts, or if one of the
  copies was judged by a counter another task had meanwhile replaced. The
  exceptions are the code's, not the model's: TLC finds each of them when it is
  taken out of the formula.
- `BestCopyKept`: no copy gathered since the entry was opened beats the one it
  holds, in the order the code compares by. That order compares the 16
  transmitted bits, so at a rollover "best" is the older frame.
- `Resynchronises`: whatever the copies under way do to the counter, the next
  frame of the device is authenticated, by the reconstruction or by its bare
  bits. It needs the device to be fewer than half the modulus ahead.
- `SessionConfirmed`: no session is stored before the device has used it.
- `SessionKept`: a session the device accepted is in use or pending, unless one
  of three things the code does not prevent happened: a low-counter frame that is
  not one of its first (of another session, or of the same one after a rollover)
  consumed it, another join replaced it, or an older session was
  written back by a registration or activation that read it before. Under
  failures, the task that took the session from redis may be the one that failed.
- `RequestAccounted`: a queued request is in the queue or was taken by one uplink,
  which has sent it, is about to, or has failed. `pull_task` pops the request
  before the HINCRBY and the transmission (`lora.rs:230`) and an error of either
  (`:240`, `:248`) drops it, as a restart does; nothing else loses one.
- `DownCounterFresh`: a downlink never carries the counter of one that was over
  when its task read the record, unless the counter was set back. Tasks that
  overlap do send two downlinks with one counter: the frame uses the record
  read, not the result of HINCRBY.
- `AcceptedIsReported`: an accepted copy, or one gathered with it that it does
  not beat, is handed over, unless a timer of an older entry removed it.
- `lora_reset`: a late copy is taken for a reset of the device.
- `NothingLeftBehind`, `EveryRequestEnds`: no registration and no call outlives
  its five seconds.
- `WaiterReachable`: only a successful config call or an overlapping first
  registration, for the same gateway, takes away the sender of a waiting call.
- `PoisonedByRead`, `config_unwrap`: the unwrap can panic, but only after a
  config call has succeeded.
- `EntryHasOwner`, `AloneIsReachable`, `ShortForwardLeaves`: a registered sender
  has a task that removes it unless its forward has a long timeout; a forward
  that overlaps no other can be answered; one that waits frees the device.
- `OneRequest`: a subscription has exactly one request, be it tracked, parked on a
  log, or in the router's hands. It fails for a client that publishes to its own
  filter and unsubscribes it in one batch: the publication takes the parked
  request out, and the unsubscription no longer finds it (`router.rs:1058`). No
  client of the runs does both.
- `ParkedIsCaughtUp`: a request waits on a log only with everything in it read.
  Messages with an expiry interval would break it: a poll whose messages have all
  expired parks at once. The run has none.
- `NoLostWakeup`, `CatchesUp`: no connection sleeps with something to do, and one
  that is behind catches up, for every reason the scheduler pauses it, unless the
  router has panicked or stays `Blocked`: an id without tracker at the front of the
  queue makes `consume` return None, and when this is the first call of a round
  (the polls of the last one having stopped just before the id), the router waits
  for an event although connections behind it are ready. `mqtt_live` reaches that
  with one poll per round, the code's 100 need as many entries before the id; only
  if no event ever comes again does the property except it. The local link is excepted in the last clause of
  `NoLostWakeup`: `LinkRx::next` hands the Unschedule on to `MessageProcessor`,
  which drops it (`man/mqtt.rs:103`), and nobody calls `ready()`. Once the buffer
  of the broker's own subscription to `#` has reached the limit, it sleeps for good.
- `RoutesComplete`: a filter created after a topic was first published gets the
  topic's messages too.
- `InflightDistinct`: identifiers that start over do not meet those in use.
- `ImplementsPubSub`: in order, without gaps except those retention makes, not
  twice on one connection, and after an interruption from the first message
  not acknowledged. A place may go back only in the step that ends the connection
  of its client, and nothing is handed over without one.
- `InOrder`, `NothingWithheld`, `AllDelivered`: what a client sent is handed to
  the router, unchanged, once and in full, as soon as it is there. After a packet
  that is refused, what was complete before it in the same read is never
  announced (`link.rs:133`), so `AllDelivered` is about clients that keep the rules.
- `RepliesReadable`: every packet the server writes is read back as it was meant by
  a reader of that version, a short Disconnect of version 5 excepted (see below).
- `RecordOwned`: the record at the address of a device in Postgres is that device's
  (or missing, or a fragment that `HSET` made of a deleted one), in spite of
  aborted transactions. It rests on the lock of the new row's unique key being
  held while redis is written. A Bluetooth update that changes nothing holds no
  such lock; the addresses it writes are in `bare` and excepted. Without the
  exception TLC finds a node whose record is another device's.
- `StoredWhole`: a device has the row of its type and its owner's authority, and a
  node or gateway row its device, whichever of two deletions the database aborts.
  Rows of Snap and MQTT devices may be left over and are not forbidden.
- `OneDefault`: deletions of groups, cached lists and sign-ups keep the default
  group unique, and no cached list names a default that is not in the table.

The deletion of a user takes locks in the opposite order to the deletion of a device
of the user, and to taking it out of a group: Postgres cancels one of the two, and
`StoredWhole` is checked of what that leaves. That every request is answered in the
end rests on Postgres and the clients and on nothing in the handlers, hence no
property says so.

Every property has a mutant in `PROJECT.json`: a change to one definition, like
a bug in the code it models, that makes TLC report a violation. The mutated
definitions stand before the originals and are named "Mutant of".

### Bounds

`Modulus = 16` stands for 2^16; the arithmetic depends on the modulus only
through its half (and is proved for every even one). Two frames and three copies
are the least that let a window be reopened, a copy be late and the best copy
come second; `MaxReorder = 1` lets a copy be overtaken by one later frame. Two
joins and two attempts let a join be answered twice and an accept arrive late.
`LowCount` is 2 instead of 5 where joins are modelled, below which a pending
session is looked for, so that two frames reach past it. Two requests are the
least that a queue can confuse. For `GatewayConfig` two reads and one update
give every pair of calls and a bystander; calls to different gateways share only
the mutex, whose poisoning one gateway shows.

In `mqtt_broker` three messages over two segments of one let a slow reader be
overtaken by retention twice; two connections of one client let one take over from
the other and a session resume; two slots, packet ids and reads per poll are the
least that fill up and wrap; a channel of one makes links wait for the router. In
`mqtt_live` two slots let a connection be ready behind the id of one that has
gone, with one poll per round and one iteration per turn so that rounds end there;
a third client lets one be refused. All bounds of the
code (`MAX_INFLIGHT`, `MAX_SCHEDULE_ITERATIONS`, the 500 events and 100 polls of
`run_inner`) are constants, set to 1 or 2 so that each is reached.

`mqtt_wire` has every property of every packet alone and all together, payloads
on both sides of the two-byte length, every reason and rule; chunks of one byte put
a cut at each position, 200 puts whole conversations into one read. A buffer of two
packets is the least at which `readv` stops early.

The 42 requests of `snap_api` are one or two of each route, chosen to meet on the
same device, address, group or user; the starting rows have a device of each type,
a second group and an account. Two requests at a time are what the deadlock
detection of the model looks at (`TwoSlots` says so; the proofs do not use it); the triples are the cases where
a third has to come after the first has read and the second has finished. A
user has at most `MaxCount = 2` mails. `Stride = 100` is above every id at the start
and every request's number.

Symmetry is used in safety runs only,
over sets whose members the specification does not tell apart.

Deadlock is not checked: every run ends when the bounded inputs are used up, as
the program does when nothing arrives.

### Fairness

`LoRaServer!Fairness` is weak fairness of each uplink task: tokio polls a ready
task, and redis, the database and the 200 ms sleep answer when no fault is
allowed (`Faults = FALSE` there). Receptions, transmissions and timers are not
fair: nothing has to arrive, and a timer that never fires does no harm.
`GatewayConfig` adds weak fairness of the five second timers and of an answer
already taken. `ForwardResponse` has weak fairness of the forward tasks only: no
uplink has to come.

`MqttBroker!Fairness` is weak fairness of `Running`: the router thread, the link
tasks, and clients that answer what they are sent. That is one condition over all
of them and weaker than one for each: it says that the broker does not stop while
something can go on, which suffices as all of these steps consume something. Dialling,
publishing and failing are not fair. `MqttWire!FairSpec` has weak fairness of the
socket's deliveries, of the reads and of the router. In both the enabling
condition of the larger actions is written out (`Runnable`, `need = 0`), which spares
TLC the evaluation and was checked against `ENABLED` over the whole state space.
SnapApi has safety properties only.

### Disagreements with the code's own words

- `lorawan_node.rs:449` calls the last branch of `payload_decode` "ABP device
  reset". It is taken by late copies too (`lora_reset`): the older counter is
  stored, the downlink counter is zeroed, and the frame is reported again.
- `event/mod.rs:159` unwraps a map that may be gone (`config_unwrap`), holding
  the mutex; all configuration calls and gateway answers panic from then on.

### Seen while modelling

Behaviour that a maintainer may want to know of and that the models reproduce,
without a run that reports it. Paths are under `src/devices_manager/src` and
`src/snap_api/src`.

Broker:

- A `Ready` event for a connection removed meanwhile makes `reschedule` unwrap a
  missing tracker (`scheduler.rs:62`): the router thread ends. `RouterLives` states
  the opposite and does not hold; `CatchesUp` excepts it.
- The router may block on its channel behind the id of a removed connection
  (`scheduler.rs:37`) with ready connections in the queue. The comment at
  `router.rs:272` says "Block on incoming events if there are no ready connections
  for consumption". Without its last disjunct `CatchesUp` fails so.
- When the ConnAck cannot be written (`link.rs:108`), `remote` returns without a
  `Disconnect` (`server.rs:287`): the connection keeps its id and slot until its
  client comes again (`MqttLink!GreetFails`).
- A late `Disconnect` names an id that may belong to another connection by then
  (`server.rs:300`); `DisconnectIsOwn` does not hold.
- A restored session is not entered into `subscription_map` (`router.rs:385`), so
  its UNSUBSCRIBE is neither obeyed nor acknowledged.

Wire:

- The writers of versions 3.1 and 3.1.1 panic on a message a version 5 client
  published with properties (`version/v4/mod.rs:362`).
- A version 5 Disconnect with a reason and no properties announces one byte and
  has two (`disconnect.rs:21`, `:84`).
- The user's prefix is put before the client identifier before it is tested for
  being empty (`server.rs:262`), so unnamed clients of a user share one.
- A subscription identifier moves the reader's cursor twice (`publish.rs:189`,
  `subscribe.rs:200`): properties behind it are cut short.

Management:

- `app_skey` is written to the field of the application key (`device.rs:978`), and
  Snap rows are deleted by the ids of LoRa nodes (`device.rs:387`); MQTT rows, Snap
  rows and gateway accounts outlive their device or user.
- Deleting a user deletes sessions under keys without their prefix: a session
  survives its user, and may make a default group for a user that is gone.
- A Bluetooth update links the device and inserts its owner's authority once more,
  and leaves the keys of the old address in redis.
- `default_group.group_id == default_group.id` (`device.rs:576`) compares a link row
  with itself; the record is updated under `device.eui` but stored under `dev_eui`.
- A group list is taken out of the cache before the change commits and may be stored
  again from the old rows; deleting a group leaves its links.
- `valid_code` asks whether the code's key exists, not for its value.
- A script can be assigned to a device between the count and the deletion.

## 4. The proofs

| Theorem | Statement | Module |
|---|---|---|
| `TypeCorrect` | `Spec => []TypeOK` for LoRaServer | `LoRaServer_proofs` |
| `SessionConfirmedAlways`, `SessionKeptAlways`, `BestCopyKeptAlways`, `AtMostOnceAlways`, `RequestAccountedAlways`, `DownCounterFreshAlways` | the invariants of that name, for LoRaServer | `LoRaServer_proofs` |
| `ResynchronisesAlways` | `Spec => []Resynchronises`, if the device sends fewer frames than half the modulus | `LoRaServer_proofs` |
| `ReconstructExact` | the reconstructed counter is the device's below half the modulus | `LoRaServer_proofs` |
| `ConfigTypeCorrect`, `NothingLeftBehindAlways`, `PoisonedByReadAlways`, `WaiterReachableAlways` | the invariants of that name, for GatewayConfig | `GatewayConfig_proofs` |
| `EntryHasOwnerAlways`, `AloneIsReachableAlways` | the same, for ForwardResponse | `ForwardResponse_proofs` |
| `AppendKeepsLog`, `ReachedIsLeft` | a log stays in order when it is appended to; a position once handed out stays one that reading can start from | `MqttTypes_proofs` |
| `ReadVReads` | what `readv` returns, for every log, position and length | `MqttTypes_proofs` |
| `BrokerTypeInvariant`, `BrokerTypeCorrect` | `Spec => []BrokerType`, `Spec => []TypeOK` for MqttBroker | `MqttTypes_proofs` |
| `RoutesCorrect`, `InflightCorrect` | `Spec => []RoutesComplete`, `Spec => []InflightDistinct` | `MqttBroker_proofs` |
| `ParkedCorrect` | `Spec => []ParkedIsCaughtUp`, if no message expires | `MqttBroker_proofs` |
| `WakeupCorrect` | `Spec => []NoLostWakeup` | `MqttBroker_proofs` |
| `RequestsCorrect` | `Spec => []OneRequest`, if who unsubscribes does not publish | `MqttRequests_proofs` |
| `TypeCorrect`, `RecordsOwned`, `DevicesWhole`, `DefaultUnique` | `Spec => []TypeOK`, `[]RecordOwned`, `[]StoredWhole`, `[]OneDefault` for SnapApi | `SnapApi_proofs` |

Assumptions are the named ASSUMEs of the modules: a positive even modulus,
distinct constants, natural bounds, and uplink tasks told apart from requests
(`Copies \cap Requests = {}`). Sets need not be finite, but for the filters and
topics of the broker (the code iterates over maps of them) and the rows SnapApi
starts with.

For SnapApi they also say what a database and a client's request are.
`StartAssumption`: the rows at the start are what the handlers leave behind, that is
ids and unique keys are unique (primary keys and indexes of the migration), a
device has the row of its type and an authority, gateway and Snap rows repeat their
device's EUI, and a user has one default group. `ScenarioAssumption`: a request
names its kind of device and carries the addresses the handler's decoding insists
on, and each request has a number of its own. The scenarios may be of any number
and size, and so may the requests in progress.

- `TypeOK` of LoRaServer is not inductive: the counters are written into a
  record that must be there. `WellFounded` adds that a task past its first steps
  has a record in redis (nothing here deletes one), works for a frame that was
  sent, and takes sessions that were created.
- `SessionConfirmed` is not inductive either: tasks carry a session between the
  step that finds it and the step that writes it. `SessionInv` says that every
  session so carried (an activation past its MIC check, a row read for a
  registration) has been used by the device. The step that matters is `DelOtaa`,
  where the MIC is the evidence.
- `SessionKept` says what may become of the session in use; `KeptInv` says the same of
  the sessions the device may still accept, since it accepts one at any time. It needs
  the age of sessions, which the model numbers as they are created: what is on the air
  is not newer than what the device uses, a task's session not newer than what waits
  (`AgeInv`), and an answer the device still takes is newer than what it uses
  (`JoinInv`). So what a registration or an activation writes is never newer, and the
  DEL of `DelOtaa` hits the session the task took, or a newer one than that.
- `Resynchronises` rests on `NearInv`: until a join or a reset, the counter kept is the
  one of the start or that of a frame sent, hence behind the device's by at most the
  frames sent; afterwards the device counts from zero and the bare bits are its
  counter. A device that loses half a modulus of frames in a row cannot be followed,
  hence the hypothesis.
- `BestCopyKept` rests on `BufferInv`: a copy enters the buffer once and leaves it
  once, to one task. The rest is that `Beats` is an order, so the winner of the
  winner beats both.
- `AtMostOnce` rests on `DedupInv`: the counter in redis is at least that of every
  frame accepted, and of two accepted receptions of one frame the second was
  judged by a counter that has since been replaced, or is of the exempt counters.
  That a counter goes back only where `rewound` says so is `RecordGrows`, a lemma
  over all actions, which `DownCounterFresh` uses too.
- `RequestAccounted` rests on `QueueInv`: a request enters the queue once, and an
  uplink that has not looked into the queue has none. `AccountedStep` follows the
  taker from the pop to the transmission or the failure.
- `DownCounterFresh` rests on `DownInv`: the counter a task has read is not ahead
  of the record, is behind it once the task has counted, and is ahead of the
  counters of those that were over when it was read. The step that matters is
  the reading: whoever is over has counted, so the record is past it.
- `ReconstructExact` reduces the forward distance of the low bits to the
  distance of the counters (`ForwardExact`), from the uniqueness of residues.
- `ConfigInv` joins the three properties with `Progress` (who may have a timer,
  a gateway, a sender) and `KnownMap`: the map `contains_key` saw is there until
  a config call succeeds. `KnownMap` is what `PoisonedByRead` needs. `WaiterInv`
  adds that an answer in hand belongs to a call whose command is out.
- `ForwardInv` adds to the two properties of ForwardResponse that a sender is in
  one place (`SenderOnce`) and that without an overlap at most one forward runs
  (`OneRuns`).
- `LogOK` says that the segments of a log follow each other without a gap, and
  `Position` that a place is in a segment that is left or before all of them.
  `AppendKeepsLog` holds for every append, with or without retention, and every
  position: a cursor in the hands of a slow reader, a waiter or a saved session.

- `ReadVReads` is an induction over the segments that `readv` walks through: each
  closed segment appends a run of entries that continues the one before (`Loops`).
  The library's induction theorems take an operator; `NatInduct`, `SeqInduct` and
  `Recursion` are theirs for sets and functions, from the least element of a
  nonempty set of naturals. `FlattenType` and `SetToSeqLists` follow in the same way.
- `TypeOK` of the broker says little by itself and is far from inductive: a step
  that serves a request reads a log at its cursor, and writes to the tracker of the
  id it holds. `BrokerType` adds that every cursor, in a tracker, parked, in flight,
  in a saved session, being served or noted for waking, is a position of its
  filter's log (which `AppendKeepsLog` preserves whatever retention drops); that
  the id and link of the task in hand and of a waiter are those of the slab; that
  what a link is sent begins with its ConnAck (`GreetingOK`); that while a connection is being admitted no other of its client is
  left; and what the links may hold in each step. A slot of the slab is reused,
  so an id in the ready queue or the channel is deliberately *not* in it.
- `RoutesComplete` follows from what each kind of step does to `data` and `routes`
  (`DataSteps`): they change by a publication, which remembers all filters that
  match, or by a subscription that creates a filter and joins it to all topics it
  matches.
- `ParkedIsCaughtUp` rests on `Serve`, where a reading that is done ends at the end
  of the log (`ReadVReads`), and on a publication taking all waiters of the logs it
  appends to. A reading that is not done has read something, but what it read may have
  expired, and `fs = <<>>` parks it: hence the hypothesis.
- `InflightDistinct` rests on `AllNumbered`: identifiers in flight are consecutive
  modulo `MAX_INFLIGHT`, the last being the one given last. Acknowledgements take
  from the front, in order, which keeps them so; a session's are dropped with it.
- `NoLostWakeup` is stated between two tasks of the router, and needs an invariant of
  every step, in three parts. `SleepOK`: whoever is ready is queued, and whoever has
  its turn is at the back, which is what `Unqueued` takes off; a connection that has
  caught up may have acknowledgements to send only in the batch that will wake it
  (`force`) or end it; one out of slots may have nothing in flight only in the batch
  that will end it. `LinkOK`: a link is connected once, and the id it has been told,
  or will be by the ConnAck that is first in its buffer, is that of its slot; an
  id that was given out again is not one that an older link still uses. `BusyOK`:
  the notice to a busy connection is in its link's buffer or, with the id of
  `LinkOK`, in the channel. What a packet does to all three is said once, by
  `Effect`. The link task in the step between taking the notice and posting the
  event (`wake`), and the local link, are the exceptions the property names.
- `OneRequest` says that a subscription has a request; `RequestsOK` counts them.
  `CountOK`: what a connection has for a filter in its tracker, parked on the log,
  about to be tracked again and being served is 1 for a filter it has subscribed to
  and 0 for any other, where the counts are those of `Waiting` and `Asked`, with
  lemmas for appending, taking from the front and removing. `SavedOK` says it of the
  sessions in the graveyard, which hold one request for every subscription: that is
  what `Disconnect` collects from the tracker and the logs. The one step that
  breaks the count is an unsubscription while a request of its sender is in
  `notes`, put there by a publication of the same batch; `SendersOK` follows packets
  from the client through buffer, batch and record, and excludes it when no client
  does both (`Apart`).
- The four invariants of SnapApi share one inductive invariant, `Inv` in
  `SnapInvariant_proofs`; none is inductive without the rest.
  - `StoreInv`, `NumberInv`: the types, and that requests in progress or still to come
    have different numbers.
  - `ProgramInv`: what a handler has left is in the order of the steps' levels and of
    its own kind (`Program`), and what it has written and read fits what it has left
    (`Shape`): a creation past its INSERT has the device's row in its transaction,
    a deletion past its type row has read it.
  - `ApartInv`: an id that is still to be drawn from a sequence is in no row, list, session or
    request, and one that an open transaction has drawn in no other's. This is what
    makes a device another handler looks up by id the one it saw.
  - `IdInv`, `KeyInv`: ids and unique keys are unique in the tables, in each
    transaction, and across transactions: what two transactions replace or add is
    disjoint, which is the locks of `Statement`.
  - `CompatInv`: rows with one id agree, wherever they are (tables, transactions, what
    a handler has read, cached lists), in the columns no UPDATE touches, so a row
    read long ago still tells the type and owner of its device.
  - `OwnedInv`: `RecordOwned`, and the same of the rows a transaction has added, unless
    the handler has still to write the key. The commit is then immediate; what matters is
    that a SET of redis hits an address whose unique index the transaction holds.
  - `JointInv`: `StoredWhole`, and that a transaction removes a device with its rows.
    The steps that matter are `DeleteRows` and `DropDevices`, whose lists were read by
    earlier statements: locks and `CompatInv` make them those of the moment, except
    that a user's deletion may leave rows of type Snap or MQTT, which
    `StoredWhole` does not forbid.
  - `DefaultInv`: everything anybody has read that says it is a user's default group is the
    one row in the table, and only the deletion of the user removes it.

  An action is then of one of three kinds. It leaves the tables and the transactions alone
  (*quiet*), is a *statement* of a transaction or outside one, or a *commit*; for each kind
  a lemma per conjunct says what it keeps and under which conditions on the rows
  written, and each action is shown to be of its kind and to meet them.

Only model-checked:

- liveness (`AcceptedIsReported`, `EveryRequestEnds`, `ShortForwardLeaves`,
  `CatchesUp`, `AllDelivered`), which is outside the prover's reach, as
  is `ENABLED`;
- the codecs and `MqttWire`, whose operators are RECURSIVE;
- the refinement `ImplementsPubSub` of the broker. Nothing stands in its way but work;
  see the plan.

## 5. Not modelled, and the plan

Not modelled:

- Semtech UDP framing, the gateway registry, the vendor's radio protocol, JavaScript
  decoders, the event log stream: no state, or state no decision here reads back.
- Downlink frame building (`protocol/lora/data.rs`): a pure function of a record and a
  received packet, with tables of frequencies.
- Of the broker: shared groups, which no client can ask for since `network.rs` puts a
  prefix before every filter; wills, which are stored and never published; topic
  aliases, meters and alerts; the publishes `append_to_commitlog` refuses, which end
  the connection as a Disconnect packet does; the expiry of retained messages; the
  order in which parked requests of one log are woken, and the further parked
  requests of an id in one log, of which an UNSUBSCRIBE removes the first only
  (`log.rs:165`; there are none but in the batch described under `OneRequest`); the
  tokens a link is woken by (PubRels that follow the ConnAck in its batch go out with
  the next one).
- Of the connection: TLS, the login, UTF-8 checks; a packet that trickles in past
  the keep-alive (`Silence` is only of an empty wire).
- Of `snap_api`: queries over the time series, maps, downlink templates, the admin
  pages, pictures, contacts, the external user manager, and reads that only fill an
  answer. Of the schema, what those use.
- Configuration, translations and macros.

Hazards that are real and not in the list of `PROJECT.json`, for lack of a property:
an error in a downlink ends `decode_payload` before the uplink event
(`lorawan_node.rs:190`); the uplink that answers a forward may be older than the
forward's downlink (`lorawan_node.rs:185`).

Next:

1. `ForwardResponse` composed with LoRaServer: which uplink answers a forward.
2. LoRaServer's record composed with the API's: a device deleted or given a new
   address while its frames are being judged.
3. Proofs: each step of the broker as a step or a stutter of PubSub, from
   `RequestsOK`, with which the place of a subscription is determined.
4. Windows and frequencies of a downlink, per region.
