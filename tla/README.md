# Local Chat server: a verification development

The repository is a chat and device server for a small local network: one
FastAPI application (`src/server/app`), one SQLite database, browser clients,
edge nodes and ESP32 modules that talk to it. This directory holds TLA+
modules that model its core, TLC configurations that check them on small
instances, and proofs of their main properties for every value of the
constants, checked by the TLA+ proof system.

Contents: (1) the system, part by part; (2) the modules and the code they
model; (3) the runs; (4) the proofs; (5) what the checks found; (6) what is
not modelled.

## 1. The system

### How it runs

`systemd/local-chat-server.service` starts one process with one uvicorn
worker, and restarts it whenever it ends. `main.py` applies the migrations,
creates the services and the default chat, and then serves. Every handler is an
`async def` on one event loop and calls the services synchronously, each
opening its own SQLite connection. Two consequences shape all the models:

- **A handler runs undisturbed between two awaits.** Most HTTP handlers await
  nothing, so a request is one atomic step. The exceptions are
  `ChatRealtimeBroker.publish`, the WebSocket handler and the uploads.
- **A handler is not one transaction.** A service method commits on its own
  (`with connection`, which rolls back on an exception). A crash may come
  between the transactions of one request; within a migration script it may come
  between two statements.

What survives a crash is the database and the files; the broker's tables, the
rate limiter's windows and every socket are lost.

### Components

| Component | State | Operations | What makes it hard | What makes it correct |
|---|---|---|---|---|
| Realtime broker and handler (`realtime/broker.py`, `api/realtime.py`) | sockets per chat, user per socket, locals of each `publish` | connect, disconnect, publish; frames `ping`, `chat.history`, `chat.send` | `publish` awaits every send, and joins, departures and other publications come in between; dead sockets; restarts | roster exact, limit held, no message missed, stored twice or stored without access, every send ends |
| Chat store and rooms (`services/chat.py`, `chat_limits.py`, `api/chat.py`, `api/chat_private.py`) | chats, members, messages | create, join, add, configure, direct rooms, delete, reset | the owner is stored twice; foreign keys change both tables when accounts go; code and private flag change apart | tables agree, list agrees with access, codes guard, limit holds |
| Accounts, sessions, mode (`services/auth.py`, `registration.py`, `admin_users.py`, `mode.py`) | users, restrictions, sessions, blacklist, mode | login, session checks, registration, guests, ban, block, role, delete, mode | long sequences by several administrators; blocks that run out; a unique index lost in a migration | restrictions hold until lifted by others or by time, references intact, an administrator remains after a deletion |
| Device pairing, catalog (`api/devices.py`, `services/devices.py`) | pairings, profiles, ownership flags | pair, unpair, device session, publish, own | pairing writes without foreign keys | pairings and profiles name existing accounts |
| RFID cards (`services/rfid.py`, `api/rfid.py`, the gate in `main.py`) | cards, events, mode | enroll, activate, delete, verify, switch the mode | a gate that is asked before other requests come in; events outlive cards | the log explains every door that opened |
| Edge synchronisation (`services/sync_queue.py`, `api/sync.py`) | events by key and status | push, pull, ack, conflict, expiry, duplicates | responses get lost, pushes and acks repeat, a pull is many transactions | at most one delivery, conflicts explain themselves, nothing pending for ever |
| Migrations and startup (`db/migrate.py`, `db/bootstrap.py`, `main.py`) | schema, applied versions | start, run, record, upgrade | `executescript` commits; a crash inside a script | what serves has its schema, accounts survive |
| Device combos (`services/device_combos.py`) | hash, failures, lock of an account and device | set, verify, reset | a counter that outlives its lock, a clock set back | a burst of guesses, then one for every wait |
| Support, applications, blog (`services/support.py`, `applications.py`, `blog.py`) | tickets, messages, applications, posts | open, answer, set the status, list, submit, review, post, clean up | two routers for each service, roles that change, deletions with foreign keys and without | references intact, own tickets only, status moved by whom it should be |
| Profiles, media (`services/account.py`, `media.py`) | rows and files | upload, replace, attach, download, delete | rows and files change in two places, crashes in between, rows left behind | every row has its file, files reach only those they were shared with |
| Backups, incidents, shutdown (`services/backup.py`, `incidents.py`, `shutdown.py`) | files, history, incident and run rows | copy, dry run, check, report, resolve | file before row, names from the wall clock | what is called completed can be restored |
| Module registry, edge nodes (`module_registry.py`, `edge_nodes.py`) | module states, deployments | enable, disable, deploy, stop | one table's count limits another table | the limit refuses no module for nothing |
| Device runtime (`device_runtime.py`) | type, status and merged metadata of a node | register, heartbeat, telemetry | reports of an earlier type stay | the row agrees with its metadata |
| Rate limiter, brute-force guard (`security/`) | queues, failures, blocks | check, record | windows slide, blocks run out inside them, restarts forget half | bounded requests and guesses in any window |
| Network control, health, activity log, configuration, web client | - | - | I/O, plain reads and inserts | - |

### How they interact

`api/chat.py` and `api/realtime.py` both store through `ChatService.send_message`
and both publish through the one broker. Every handler goes through
`AuthService.get_session`, which may lift a block as a side effect. Account
deletion reaches rooms, sessions, pairings, the blacklist, tickets, media, combos,
cards, deployments, backups and profiles by foreign keys, which restrict, cascade or
set to null. The card reader's gate and the edge limit read the module registry.
Nobody tells the broker of a ban or a change of membership. The edge nodes talk
to the sync queue only. The rest share the database and nothing else.

## 2. The modules

### Realtime

The broker, the WebSocket handler, the posting HTTP handler and the part of
`send_message` they share. A *task* is a WebSocket connection or a posting
request; `pc[t]` says at which await its handler stands:

| `pc` | The handler is |
|---|---|
| `new` | before the accept, or a request not yet started |
| `hello` | registered, in the await of the greeting |
| `loop` | in `receive_json` |
| `publishing` | in `broker.publish`, in or between two `send_json` |
| `ack` | in the await of `chat.ack` |
| `done`, `refused`, `leaked`, `killed` | over: normally or answered; refused; over without unregistering; killed with the process |

`rooms` and `wsUser` are the broker's two dictionaries, an empty set standing for
a missing key. `pub[t]` holds the locals of `publish`: the message, the snapshot
of targets, and who was reached or found dead. `sock` is what a send meets, set by
the environment action `ClientGone`. `log` is `chat_messages`. The lock of the
broker never suspends, because no critical section awaits; this is why
`connect`, the snapshot and the pruning are single steps. The targets are tried
in any order, since the code iterates over a set. `access` is what the store's
access rule says of a user and a chat; other handlers change it at any time
(`ChangeAccess`), whatever the reason.

`FramesReadable` says whether `receive_json(max_size=65536)` returns frames. The
Starlette that the requirements allow has no such parameter, so the value of the
code as it stands is FALSE, and `realtime_frames` shows what follows: no frame is ever served.
The other realtime runs and the proofs cover the handler for a library that
accepts the parameter, the only way its code after the first line can run. The
proofs hold for both values, and posting over HTTP does not depend on it.

### Rooms

The tables `chats` and `chat_members`: creation and its limit, direct rooms,
members, codes, deletion, reset, and what deleting accounts does to them
(`OwnersLeave`, the foreign keys). A request is one step. `pair` and `made` are no
columns: they remember for the properties how a room was created. Room codes are
model values: two codes are the same or not; their hash is not modelled. A step
whose deletion a foreign key refuses is a refused request and leaves no trace.
`Suspend`, `Release`, `SetRole` and `Appear` over-approximate the account handlers,
whose own rules are module Access's. Titles, descriptions and avatars are left out.

### Access

Accounts, restrictions, sessions, pairings, the blacklist and the mode. A token
stands for a session; time is two actions, `BlockEnds` and `SessionExpires`.
Each request first authenticates, which may lift a block (`ActorLifted`), then
acts. Deletions are refused while `Referenced`: the foreign keys of pairings
and of the blacklist. `overdue` marks a step that refused a device session to a
user whose block had run out. Passwords are left out: a login is one with the right
password.

### Outbox, SyncQueue

`Outbox` is the promise: the first content accepted under a key is the only one,
and it is received at most once. `SyncQueue` is the code: rows with status,
resolution and expiry, and a network (`wire`) that delays, loses and reorders
responses. `PullCutShort` is a crash between the transactions of a pull.
`Promise` is the refinement mapping: `Fate` computes where an event is from its
status, the wire and what the node has. `latest` remembers the last push for
one property.

### MigrationFiles, Migrations

`MigrationFiles` transcribes five scripts of `server/migrations` statement by
statement: what each needs, what makes it fail, what it adds and drops.
`Migrations` runs them as `apply_sql_migrations` does, with crashes, restarts and
upgrades. The other sixteen scripts consist of `CREATE ... IF NOT EXISTS` and
behave as 0001 and 0020 do (0005 adds columns as 0003 does).

### Desk

Tickets, their messages, applications and blog posts, each reached by the routes of
its own router and by those of the administrators' panel, which check the role
differently: one action per route (`RouteStatus`, `PanelStatus`, ...) around one
action per service method. `UsersGo` is what the deletion of accounts does by
foreign keys, `ClearSupport` and `ClearBlog` the clean-up routes. `seen` remembers
what a listing showed to accounts that were no administrators; `by` is whose request the last step
was; both exist for the properties. Texts, categories and order are left out.

### Media

Rows of attachments, messages of chats and tickets, avatars and the files.
`Upload` writes the file and then the row; `SetAvatar` unlinks the old file before
its transaction commits; `UploadCut` and `SetAvatarCut` are the crashes in between.
`disk` says of every name whether it has been written and unlinked; `torn`
remembers whose change of avatar was cut short. `reads` is who may read in a chat or a
ticket, changed by `ChangeReaders` as other handlers do. Messages go one by one, by range, by
chat, by account; `ClearSupport` deletes without foreign keys and leaves attachment
rows behind. `MayDownload` is `_can_access_attachment`, letting a reader in
if any row the query might pick would.

### Site and its parts

`Site` composes modules over the accounts of `People`, which keeps a role and a
status and over-approximates the handlers of Access (`ImplementsPeople`):

| Module | Code | Worth knowing |
|---|---|---|
| `Combos`, `Ration` | `device_combos.py` | `Ration` promises a burst of guesses and one more per wait; `R` maps the counter and lock to it; the lock runs out, and back, by `ClockMoves` |
| `Registry` | `module_registry.py` | states of the default modules; `EdgeLimit` and `IsModuleEnabled` are what others ask |
| `Cards` | `rfid.py`, the gate | `Enter` is the gate, `Handle` the request behind it, with other steps between; `EventsWithout` is the foreign key of the log |
| `Nodes` | `edge_nodes.py` | `Deployable` compares deployments with `EdgeLimit` |
| `Runtime` | `device_runtime.py` | `told`, `beat`, `snap` are the types that the merged metadata holds |
| `Ops` | `backup.py`, `incidents.py`, `shutdown.py` | names are readings of a clock that goes back; `BackupCut` is a crash after the copy; `data` counts changes of the database, and stands for its checksum |
| `Catalog` | `devices.py` | profiles and ownership |
| `Limits` | `security/`, the middleware, the login handler | a request past the middleware waits in `waiting`; one clock stands for the limiter's monotonic and the guard's wall clock, which is not set back here |

`DeleteUser` is the one step that all tables take part in: those whose key
restricts must release the account, the others forget it. `Restart` loses the requests past the gate
and the limiter's queues, and keeps what is in the database.

### How the modules are split

The components share the database but not one table that two modules both write,
with these exceptions: accounts, which all other modules over-approximate by the moves
of `People` (an account appears, is suspended or released, gets a role, leaves), shown by
`ImplementsPeople` to be all that the handlers of Access do to an account; access rights, which Realtime and Media
over-approximate by `ChangeAccess` and `ChangeReaders`; messages of chats and tickets,
of which Rooms keeps nothing, Realtime the log, Desk the tickets' and Media the
attachments; and the mode. The over-approximation makes each module checkable and provable
alone, and sound for safety: what holds whatever the others do holds with them.
`MC` modules give the constants that a configuration cannot spell. Proofs are in
modules of their own.

## 3. The runs

Each run's configuration names its bounds; `PROJECT.json` lists the runs, and
for each property a mutant of the code (an operator beside the definition it
replaces) that breaks it.

| Run | Instance | Shows |
|---|---|---|
| `realtime_limit` | 3 sockets, 2 rooms, 1 post, 1 message per room, limit 2 | `ConnectionLimit`, `RosterMatchesRooms`, `ServedIsRegistered`, `DeadIsPruned`; under fairness `SendsFinish` |
| `realtime_messages` | 2 sockets, 1 post, 1 room, 2 messages, 1 client id, 1 retry, 1 restart | `NoGap`, `OneRowPerClientId`, `AuthorHasAccess` |
| `realtime_frames` | 2 sockets, the library's own `receive_json` | violated: `FramesAreServed` |
| `rooms` | 1 administrator, 1 account that comes and goes, 3 room ids, limit 1, 1 code | `OwnersAgree`, `ListMatchesAccess`, `CodeGuards`, `RoomLimit` |
| `rooms_direct` | the same with a third account | violated: `DirectIsForTwo` |
| `access` | 2 administrators, 1 account, 2 sessions, 1 device | `BlockedHasDeadline`, `OneAccountPerDevice`, `ReferencesIntact`, `NoSelfRelease`, `DeletionKeepsAdmin`, `ImplementsPeople` |
| `access_ban` | as `access` | violated: `BanEndsSessions` |
| `sync_queue` | 3 keys, 2 contents for 2 nodes, pull limit 2 | `HandedOnce`, `ConflictHasResolution`, `ImplementsOutbox`; under fairness `PendingLeaves` |
| `migrations` | 5 scripts, any first release, any upgrades, 3 crashes | `ServesItsSchema`, `AccountsSurvive`, `OnlyCrashesBreak` |
| `desk` | 1 administrator, 1 account that comes and goes and changes roles, 2 tickets, 2 messages, 1 application, 1 post | `ReferencesIntact`, `OwnTicketsOnly`, `TicketsFollowStaff` |
| `media` | 1 administrator, 1 account, the common chat, 1 ticket, 2 file names, 2 messages of each kind, 1 attachment each | `DownloadsAreShared`, `FilesExist` |
| `site` | 1 administrator, 1 account, 1 combo, 2 cards, 2 edge modules, 1 node, 2 clock readings, 1 profile, 2 addresses, 2 logins | `TypeOK`, `GrantsAreExplained`, `CapacityReachable`, `BackupsRestore`, `LimitsHold`, `ImplementsRation` |

`TypeOK` of each module is checked in the first run of that module, except those of
Access, Desk and Media, which are only typing and are proved. `TypeOK` of Site says more: that no
row of any part names an account that is gone, and that a node's row agrees with its
metadata.

**Why these bounds.** *Realtime:* the races are between one publication and
another, a departure, and an arrival. Three sockets and a limit of two let one be
refused and admitted later while a publication is under way; two rooms separate
the limit of all rooms from the size of one. Two messages let one overtake the
other, and one retry and one restart meet every interleaving with them. *Rooms:* two free
ids allow two rooms of one owner over a limit of one, and a room that goes while
another stays; ids are never reused, so the bound ends every behaviour's growth
and nothing else. *Access:* two administrators can act on each other and on an
account without powers, and two sessions can belong to one account or to two.
*Sync:* three keys and a limit of two make a pull leave an event behind; contents
differ in target and mark. *Migrations:* three crashes hit three scripts or one
script three times. *Desk:* two tickets can have one owner or two, two messages are
a question and an answer or two questions, and a role comes and goes around
any of them. *Media:* a name for an avatar and one for an upload, or two of a kind; two ids
let a message be deleted and another follow. *Site:* a behaviour uses
one part beside the accounts (`part` in `MCSite`): the parts share the accounts and the
registry, which is free wherever cards or nodes are used, and nothing else, so that
behaviours of two parts interleave without meeting; the proofs do not have this restriction.
Cards are a part twice: with three events while accounts come and go, which let a card be enrolled,
turned off and asked, and with four while accounts stay (`keeper`), which let it be enrolled,
deleted, enrolled again and asked. Two failures lock a combo and four are counted; two edge modules are all that `DEFAULT_MODULES` has; two
readings of the clock let the second backup take the name of the first; a limit of two and a window of
two instants fill, slide and pass a block. The proofs below remove these bounds for every
safety property; they remain for the two liveness properties.

**Deadlock** is checked except in `realtime_frames`, where all sockets may close
for good. In the other runs some action is always enabled (access can change, an account can
be suspended, nodes can poll, a server can stop or start again).

**Fairness.** `realtime_limit` assumes weak fairness of the handlers' own steps:
asyncio runs every ready task, and a send either completes or is made to raise
by the ping time-out of the WebSocket server (`ClientGone` needs no fairness of its
own: whichever of the two happens, the send ends). Nothing is assumed of clients:
they need not arrive, send or leave. `sync_queue` assumes weak fairness of each
node's `Pull`, the edge agents' polling loop; weak is enough, because a pull is
always enabled. Delivery, acknowledgement and expiry are not assumed.

**Symmetry** is used in runs without liveness properties only, over sockets, accounts,
devices, tokens, cards, modules, clock readings or addresses of which no definition
singles out one; `ImplementsRation` is a safety property without fairness.

## 4. The proofs

All theorems are about the modules the runs check, with no bound on the number of
sockets, rooms, accounts, keys or messages beyond the modules' named
assumptions (finiteness where something is counted, default values outside the
sets, positive limits).

- **RealtimeProofs.** The inductive invariant is `TypeOK`, `RosterMatchesRooms`,
  `NewIsAbsent` (a task that has not started is nowhere), `SnapshotsSound` (what a
  publication found dead is among its targets, which belong to its room, and is
  not open), `ServedIsRegistered` and `DeadIsPruned`. The
  roster alone is not inductive: pruning needs that the dead of a snapshot belong
  to the room of their publication, and that a dead socket never opens again. On it
  rest `NoGap` (a new message is in a publication whose snapshot contains every
  served socket, because they are registered), `OneRowPerClientId` and
  `AuthorHasAccess`. `ConnectionLimit` is proved by counting: the set of
  registrations is finite, grows by one only where `Full` was false, and otherwise shrinks.
- **RoomsProofs.** The invariant adds to `OwnersAgree` that rooms that are gone have
  no members and that owners, also of direct rooms, are members. The first is
  needed for a new room to start empty; the second gives `ListMatchesAccess`.
  `CodeGuards` is inductive with the types. `RoomLimit` counts: only
  `create_custom_chat` adds to the rooms it counts, and all of these are among
  those the guard counts.
- **AccessProofs.** The invariant is `TypeOK`, `BlockedHasDeadline`,
  `AbsentIsBlank` (a deleted account leaves no device behind),
  `OneAccountPerDevice` and `ReferencesIntact`. The two action properties follow from it step by step:
  `NoSelfRelease` because only `unban_user` makes a restricted account active before its time, and it
  reads an accepted session of staff, which the account itself cannot have while it is restricted; `DeletionKeepsAdmin` because the actor of a
  deletion is an administrator who stays.
- **SyncQueueProofs.** The invariant is `TypeOK`, `WireSound` (a response on the wire
  carries the content stored), `RowsHaveContent` (exactly the rows that exist have one) and `HandedOnce`.
  `ImplementsOutbox` is proved as a refinement: initial states map to initial
  states, and each step to `Accept`, `Dispatch`, `Receive` or a stutter. Without
  `HandedOnce` a delivery could map to a second reception, which `Outbox` lacks.

- **DeskProofs.** Every step is one of a few changes of the tables (`Change`), and each
  invariant is kept change by change. `OwnTicketsOnly` needs `Ahead` and `SeenOwn`: a
  ticket that was shown has an id at or below the counter, AUTOINCREMENT gives none
  twice, and so a ticket shown to its owner is never later somebody else's.
  `ReferencesIntact` is inductive with the types, with the opening message of each
  ticket among its parts. `TicketsFollowStaff` follows step by step.
- **MediaProofs.** `FilesExist` needs `Kept`: a name is used once, for an upload or for
  one account's avatar, so that unlinking an old avatar takes nobody else's file.
  `DownloadsAreShared` needs `Rows`: a row that outlived its message is at or below the
  counter, so that no later message has its id, and a row at a message is its author's file.
- **SiteProofs**, about all of `Site.Next`. `ImplementsRation` maps each request about
  combos to a guess, a wait, a delay or a renewal, and the deletion of an account to a renewal of
  all its combos. `BackupsRestore` needs that no file is newer than the database.
  `CapacityReachable` counts: active deployments are on different modules, so if
  one module is detected, not deployed, and every deployed one is detected, the
  deployments are fewer than the limit.
  `GrantsAreExplained` needs that a card that would
  open is explained by the log so far, and that ids are given once; both tables lose
  references when cards and accounts go (`Forgets`), which keeps what is explained
  explained, because a lost reference is lost by all events of its card.
  `LimitsHold` has two halves. For the middleware, a request that passed within the last window
  still has its entry in the queue: `Counted` gives the requests of one bucket and
  address different places of the queue behind what `LeadingOld` drops, so there are at most as many
  as the queue is long, and the queue never exceeds the limit. For the guard, `Held` picks
  out of the failures those that each started a block: two of one address are at least `Block`
  apart, because a blocked address is refused, so that a window has at most `Blocks` of them; the
  other failures in the window stay one below the limit, because the one that would reach it
  starts a block. A restart empties the queue and what it stood for together, and keeps
  the blocks. `TypeOK` goes part by part (`ComboPart`,
  `NodesPart`, `CardsPart` and so on): `DeleteUser` is the only step that takes an account
  away, and for each table it either is refused or removes or clears every row that
  names the account (`StayBut`); all other steps keep accounts (`Stay`), so that
  what they write names one that stays.
- **MigrationsProofs.** None of the properties is inductive alone. `MigrationInv` adds that the
  scripts are recorded in order, and that the schema is on the way of the next one
  (`Recorded`): without a crash exactly what its first statements have made, and after one
  among those that a repeated run can meet at its statement (`At`). A repeated script of
  `CREATE ... IF NOT EXISTS` goes through; one that adds columns never gets past its first
  statement again once that had taken effect; 0021 repeats as a whole until the copy exists. `After` is a
  recursive function; its value at each number of scripts is had by unfolding it once per
  script, from a function shown to satisfy its equation. That needs no induction, because
  the scripts are fixed data. Crashes and upgrades are unbounded.

**Accounts between modules.** `PeopleCorrect` in AccessProofs proves `ImplementsPeople`: seen one account
at a time, Access starts where People starts and each of its steps is one step of People
or none, with banned and blocked both seen as off. One at a time, because a request
may change several: the actor whose block runs out and the target, or all accounts of a
reset. It needs the types only. It is also why People, Desk and Media let
an account appear as a guest, whatever roles staff grants.

**Only model-checked.** The liveness properties `SendsFinish` and `PendingLeaves`:
liveness under fairness needs ENABLED, which the prover does not handle. Every safety
and action property of the passing runs is proved.
RECURSIVE operators, which cost the prover its SMT backend, are not used anywhere.

## 5. What the checks found

Where the code and its own documentation or comments disagree, a run shows
the shortest behaviour:

- `realtime_frames`: the first frame of any client ends its connection, because
  `receive_json` has no `max_size` parameter; `server/README.md:110` lists the supported events.
- `rooms_direct`: `get_or_create_dm` takes any private room that two accounts share for
  their direct chat, a group with others too, against its comment (`services/chat.py:809`).
- `access_ban`: a ban does not revoke sessions; the revocation calls a method
  that `AuthService` lacks, and the exception is swallowed. The restriction itself still
  holds, since every request checks the status (`NoSelfRelease`).

Seen while modelling, not the subject of a run:

- `executescript` commits the transaction that the migration runner opened, so that
  a crash inside 0003, 0005, 0008 or 0021 leaves a database on which no later start
  succeeds, although no account is lost (`AccountsSurvive`). Module Migrations states
  the opposite as `ScriptsAreAtomic`.
- A device session does not lift a block that has run out, against
  `server/README.md:208` (`ExpiredBlockIsLifted` in Access).
- A later push under a key is dropped, where the docstring of `sync_queue.py` says that
  the latest stays (`LatestIsKept` in SyncQueue).
- The owner of a ticket closes it (`services/support.py:290`), where `server/README.md:154` and
  `:160` say that the status is changed by administrators (`StatusChangedByAdmin` in Desk).
  `TicketsFollowStaff` states what the code's own refusals say instead, and holds.
- The row of a failed backup is rolled back with the exception that follows it.
- A request past the reader's gate is served although the reader has been disabled since.
- No caller records a successful login, so that only time clears failures.
- A node registered again under another type keeps its earlier reports (`RuntimeOK` says nothing of
  them).
- A deployment on a module that has been disabled goes on counting against the limit, and may keep
  a free module from being deployed: `CapacityReachable` assumes that deployed modules are detected.
- The old avatar is unlinked before the commit: a crash leaves a row without its file, until the
  next change. `FilesExist` leaves out the accounts to which this has happened (`torn`).
- The log does not tell whether a card was enrolled active: `enroll_card` writes no reason, as
  `set_card_active` does. Module Cards keeps the difference for `GrantsAreExplained`.
- Direct rooms ask neither the room limit nor the role of their creator, against
  `server/README.md:129` and `:131`.
- The last administrator can be demoted, though not deleted.
- `full_reset` and `delete_all_users` fail as a whole once another account has a
  pairing; `delete_user` fails for an account whose media are attached to messages.
- `media._can_access_attachment` looks at one chat of those an attachment was sent to.

The first four are violated within a few steps when they are put in the
configuration of their module's run; none is kept there.

## 6. What is not modelled

`PROJECT.json` gives every component a status. Left out, and why:

- **Network control and uplink** (`network_service.py`, `http_proxy.py`): runs system
  commands and forwards HTTP; what happens is decided outside the repository.
- **Health, configuration, logging, storage layout:** reads of the operating system
  and of the environment, once or without effect.
- **Activity log and audit log:** rows are appended and nothing decides by them.
- **Web client** (`static/`): the browser's side of the protocols is the environment
  of the modules: it may send anything in any order.
- **Moderation:** `AutoModeratorService` is created nowhere and the moderation routes
  are in no application; `attach_to_chat` and `attach_to_support` of `media.py` are called by
  nothing.
- **Profile texts:** `update_profile` sets fields that nothing decides by.
- **Password reset** (`api/admin/users.py:358`): commits the new password and then calls the
  same missing method as a ban, without swallowing the failure; it would add nothing to
  `BanEndsSessions`.
- **Sixteen migration scripts** that consist of `CREATE ... IF NOT EXISTS`.
- **Sizes and content checks** of uploads, hashes, codes and texts: two values are the
  same or they are not.
- **Clocks set back under the brute-force guard.** Its windows and blocks then mean
  nothing, and the module assumes that the clock goes forward.

What a later extension could add: Rooms with Access instead of its
over-approximation, and Realtime with Rooms, so that `access` is computed and
`AuthorHasAccess` speaks of members.
