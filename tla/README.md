# CrystalBridge: a verification development

CrystalBridge (`lsb/ffxi_bridge.py`) stands between a retail FFXI client that
signs in through PlayOnline (POL) and a LandSandBoat server (LSB). POL has sold
the player a few *Content IDs* and lets the client play a character only under
one of them; LSB knows nothing of Content IDs and mints a *charid* of its own
for every character. The bridge relays the lobby traffic of both, and pairs the
two kinds of id as it passes. A Content ID cannot be re-issued and the client
files a character's settings under it, so a pairing that is doubled, swapped or
handed to another player is damage nobody sees until much later.

This directory holds TLA+ models of that program, the configurations TLC checks
them with, and theorems about them checked by TLAPS.

## 1. Inventory

| Part | Code | State | Operations |
|---|---|---|---|
| Content ID map | `ffxi_bridge.py:285-692` | `_idmap`, `_released_ids`, `_charnames`, `_worldfields`, `_charfields`, `FFXI_IDMAP_FILE` | `content_id_for`, `release_charid`, the three `note_*`, `save_idmap`, `load_idmap`, `charid_for` |
| Lobby relay | `1423-1737`, `1910-1991` | `_pending_create`, `_create_pending`, `_swallow_charlist`, two pump threads per connection | `rewrite_c2s`, `rewrite_s2c`, `request_charlist_refresh`, `should_swallow_charlist`, `handle_client` |
| Data companion | `1740-1907` | `_DATA_COMPANIONS`, `_ACCT_IDS`, `_VIEW_SOCKETS` | `ensure_data_companion`, `data_companion_reader` |
| Framing | `1204-1250`, `1331-1420` | byte buffers of a pump | `wait_first_bytes`, `take_packet`, `inject_hash` |
| Member attribution | `744-935`, `1171-1328` | `_claimed_sids`, POL's session table (read) | `resolve_pol_member`, `get_session`, `peek_pol_session`, `member_for_sid` |
| LSB accounts | `966-1108` | `_acctmap` and its file, LSB's accounts | `lsb_account_for`, `lsb_member_session`, `lsb_authenticate` |
| Character import | `2533-2697`, `ffxi_import_core.py` | the map, LSB's database | `do_import`, `build_statements` and the decoders |
| World relay | `2028-2507` | `_UDP_PEERS`, `_WORLD_CAP`, `_WORLD_WATCH`, `_WORLD_CHARID`, `_UDP_STATS` | `udp_relay`, `udp_back`, captures, session-key watchers |
| Tables, tools, tests, deployment | the rest | none at run time | - |

How they interact. Each client connection gets a handler thread that picks a POL
member for it (attribution), an LSB account for that member (accounts) and a
data session with LSB (companion), and then two pumps. The c->s pump turns
Content IDs into charids and remembers what the client names on a create; the
s->c pump turns charids into Content IDs, slot by slot, each slot taking the
map's lock several times. All pumps of all connections, and the import endpoint,
share one map; POL reads its file at any moment. The world relay is separate: it
carries UDP once a character has entered the world.

What is hard here: the pumps interleave at every lock; the reply to a command
and a character list the bridge asked for itself share one socket; LSB rules on
a delete only after the bridge has acted on it; a client names an id on a screen
the map may have moved on from; the process may die between two saves; saves,
database reads and the data session may fail and are then only logged. What each
part must get right:

* the map: one holder per id, in memory and in the file; a bound id never moves;
  a pairing ends only by being given back;
* the relay: an id stays with the member POL issued it to; a new character gets
  the id its client named; a command reaches the character the player picked; no
  list reaches a client that did not ask, and one that did is answered; POL can
  see a new character without the client asking for its list; no id is left on a
  character that is gone;
* attribution: an unflagged launch is given to the member who made it, a
  relaunch to the same one;
* accounts: an account per member, created once, found again after a lost map or
  a reset LSB;
* import: never a second holder for an id, never a second character for a
  charid, and a character whose pairing survives;
* world relay: a datagram is forwarded or its flow rebuilt; a dead flow's
  teardown never touches its successor;
* framing and the import's plan: no byte and no item, skill, spell or flag is
  lost in silence, and a section the client did not give is left as it was.

`PROJECT.json` lists the hazards at the lines where they bite; those that no
property covers say why.

## 2. Modules

| Module | What it is |
|---|---|
| `Entitlement` | The abstract promise: a set of pairs (character, Content ID), ids spent on characters that hold none and given back; nothing else. |
| `IdMap` | The Content ID map of the bridge, in memory and on disk, one action per function that writes it. Can be run alone under any calls (`MapSpec`) or composed. |
| `Lobby` | The relay, composed with the map by `EXTENDS`: clients, both pumps, the early list, the data session, LSB, teardown and restart. |
| `Import` | The import of a character and the operator's `bind`, composed with the map by `EXTENDS`, beside a lobby reduced to its calls on the map. |
| `Launch` | What a connection goes through before and after it is relayed: attribution, account, data companion, upstream. |
| `WorldRelay` | The UDP relay: the relay thread, a thread per flow, captures, watchers. |
| `Framing` | How a pump cuts one direction's stream into packets. |
| `DumpDecoders` | The pure decoders of `ffxi_import_core.py`, each beside the way LSB lays the same data out. |
| `ImportPlan` | A dump, its plan, the statements run one by one, and the character LSB then loads; uses `DumpDecoders`. |
| `MCLobby`, `MCImport`, `MCLaunch`, `MCWorldRelay`, `MCDataPaths` | Constant values of the instances below. `MCDataPaths` runs `Framing` and `ImportPlan` side by side; they share nothing. |
| `IdMapProofs`, `LobbyProofs`, `ScreenProofs`, `ImportProofs`, `LaunchProofs`, `WorldRelayProofs`, `FramingProofs`, `ImportPlanProofs` | Theorems, section 5. |

### IdMap and the code

`idmap` is `_idmap` (0 for a charid that is not in it), `released` is
`_released_ids`, `field` says whether `_worldfields` has the charid, and `file`
is `FFXI_IDMAP_FILE`. Names and the profile tail are not kept: a record is allowed to
change them at any time, so each note may save or not once nothing else moved.
`Save` is `save_idmap`: the file is replaced whole (`os.replace`) or, with
`SaveMayFail`, the error is logged and it keeps its old contents.

| Action | Function |
|---|---|
| `Pair(k, prefer, ids)` | `content_id_for`, `ids` being what `pol_content_ids` returned |
| `Note(k)` | `note_char_name`, `note_world_field`, `note_char_fields` on one record |
| `NoteName(k)` | `note_char_name` for a `0x0B` |
| `Release(k)` | `release_charid` |
| `Reload` | `load_idmap` in a new process |

The three notes are one step: between them another thread can only release the
charid, and that is the same as releasing it before them.

### Lobby and the code

A step is what one thread does between two lock acquisitions. A client command,
its rewrite by `rewrite_c2s` and its forwarding are one step: nothing else reads
what it writes in between, and TCP delivers it. A reply other than a list is one
step from LSB's socket to the client's. A list is many steps, because another
pump may act between its locks: `StartList`, then for each slot `TakePrefer`
(1579), `PairSlot` (1585) and `NoteSlot` (1586-1614), then `ReadSpent` (the ids
spent, under the lock, 1626) and `FinishList` (the pool, the empty slots, swallowing
and forwarding), between which other pumps may spend more.

| Variable | Code |
|---|---|
| `life` | the connection: both pumps running (open), one has ended (closing), or neither |
| `pendingCreate`, `createPending`, `swallow` | `_pending_create`, `_create_pending`, `_swallow_charlist` with its time as fresh/stale |
| `companion` | whether `_DATA_COMPANIONS` has a live data session |
| `job` | the locals of `rewrite_s2c` while it works on a list |
| `creator`, `alive` | LSB: on whose account each charid was minted, and which are not deleted |
| `toLsb`, `request`, `fromLsb` | the command on its way, early `0xA1` not answered yet, LSB's replies in order |
| `asked`, `view` | the client: the command it awaits the reply of, and its character screen |
| `named` | history for `CreateGetsNamedId`: the id each new character was created under |

What is taken from outside the repository, as the bridge's code relies on it:
LSB answers a name check, a commit and a delete with `0x03` or `0x04`; it mints
ascending charids, never used again, and lists an account's characters in that
order; it builds a list only when it has the data session; replies still on the
way when a connection drops are lost. A client has one command outstanding,
names on a create an id its screen offers (or, as fault `unoffered id`, none at
all, which is the 0 that 1497 does not record, or any id of its own when it is offered
none), and has no list after a create until it asks.
Content IDs and charids do not overlap (`MapAssumption`), which the code relies
on too when it looks a value up to see which it is. Nothing is assumed of attribution:
a launch may be another member's than the one it was given to (`SignedIn`, `MemberOf`),
flagged or not; `Launch` shows when `resolve_pol_member` goes wrong (section 4). A
connection is known by its client's address and port, and by the time these are used
again LSB is taken to have dealt with what the earlier connection forwarded last
(`Connect`); until then LSB may still act on it, beside the member's other connections.
`FFXI_ID_MAP` and `MAP_HANDOFF` have their defaults, and every connection has a
member (`FFXI_REQUIRE_SIGNED_IN`).

What may go wrong is a constant, `Faults`, so that each run says which failures
it is about: `hang up`, `restart` (the process dies, the map is loaded again),
`db` (`accounts.db` unreadable: an empty pool), `companion` (no data session, or
it dies), `refused create`, `refused delete`, `expiry` (`SWALLOW_TTL` passes),
`unoffered id`; failing saves are `SaveMayFail`.

### Import and the code

A worker is a thread of the HTTP endpoint inside `do_import`; `worker[w].at` is
the next thing it does that another actor can see, `free` and `char` its locals
`free[0]` and the charid it minted. `lock` is InnoDB's lock behind
`SELECT MAX(charid) ... FOR UPDATE`.

| Action | `do_import` |
|---|---|
| `Start`, `Plan` | the request; `build_statements`, which plans, or refuses the dump, or raises what `do_import` does not catch and ends the thread (2541-2545) |
| `ReadIds` | `pol_content_ids` and the ids held (2547-2576) |
| `Prepare` | account, connection, name: each may refuse (2578-2597) |
| `Mint`, `MintFails` | the charid, or a lock wait that times out (2598-2603) |
| `Core`, `CoreFails` | the core statements and their commit, or rollback (2604-2622) |
| `Best`, `LoseConnection` | the best-effort statements, each on its own (2607-2614) |
| `Bind` | the pairing, the save and the answer (2624-2642) |
| `CliLoad`, `CliBind`, `CliRefuse` | `cmd_bind` of `tools/ffxi_import.py`, in a process of its own |
| `LobbyCreate`, `LobbyPair`, `LobbyDelete` | what a player in the game makes the lobby do to the map and LSB to its rows |

The operator binds a charid of the member it names: `cmd_bind` takes both from
the command line and does not compare them. `OutOfCharids` exists only because
charids are bounded here.

### Launch and the code

`conn[c].at` is the next step of the handler thread; `pick` and `flag` are the
session `resolve_pol_member` chose and whether it marked it ambiguous; `sid` is
the session that really launched, which the code cannot see unless the client
stamped it (`stamp`). `table` is POL's session table, with the time of a
session's last activity (`at`) and of its last character fetch (`chars`).

| Action | Code |
|---|---|
| `FirstBytes`, `Stamp` | `wait_first_bytes`; `peek_pol_session` and `member_for_sid`: a stamp may go unseen, since the packet is looked at once, however much of it has come |
| `Look`, `Claim` | `resolve_pol_member`: the table and a copy of the claims read and a session picked; the claim, in a second hold of the lock |
| `CheckMap`, `Create`, `Record` | `lsb_account_for`; `save_acctmap` |
| `Login`, `Heal`, `Relogin`, `Unreachable` | `lsb_member_session`, `lsb_authenticate` |
| `TakeCompanion`, `Register`, `ReaderEnds`, `CompanionEnds` | `ensure_data_companion`; `data_companion_reader`, its `finally` |
| `Upstream`, `Teardown`, `Restart` | `handle_client`; the process |
| `Tick`, `SignIn`, `Fetch`, `SignOut`, `Forget`, `Dial`, `Probe`, `Reset` | time, POL, players, probes, a reset LSB |

`Key`, `Before`, `SignedExact`, `Discriminates`, `Live`, `Ambiguous` are the sort
and the tests of `resolve_pol_member`, line by line. The environment switches
(`FFXI_REQUIRE_SIGNED_IN`, `FFXI_AUTH_ON_ACCEPT`, ...) have their defaults. Session
hashes appear only as what `ensure_data_companion` compares: this launch's or an
earlier one's. A `fileno()` of a companion's socket never shows it dead (it does
not raise), so `TakeCompanion` has no case for that.

### WorldRelay and the code

A flow is numbered when it is built and stands for its socket, its `udp_back`
thread and the capture it was handed. `peers` has no lock in the code, so
`if peers.get(client) is up: peers.pop(client)` is two steps (`BackCheck`, `BackPop`
in a flow's thread, `DropCheck`, `DropPop` in the relay's). `Build` is
one step because the relay thread alone adds to `peers`, and what `world_capture_open`
does is under its lock. `capture` names the open capture of a client by the flow
that opened it, and `files` the captures on disk: also one that was opened and could
not be written to, which stays there in nobody's hands. The prune before an open may
be skipped (2117-2118), part of the way through or before it began; the history variable
`excess` is what the last one that was not skipped had to leave open, and one for each
capture asked for since whose prune was. `DiskFails` are the flows under whose building
the disk may fail, `DbFails` says whether the database may, and `Answered` are the
clients the map answers in the instance. A watcher stops when the client has no flow or is silent
(`WatchLeaves`), and a new one starts only when none is alive (`StartWatch`).
Datagrams have no contents, but two things the code looks at: an answer may be empty,
and the first datagram of a flow may name the charid. What is written to a
capture, its size cap and row sampling are left out; so are the statistics but
for their times, which the watcher reads.

### Framing, DumpDecoders, ImportPlan and the code

In `Framing` a byte is its position in the stream, so that "no byte lost, doubled
or moved" can be said at all; what a header says (`says`) may differ from what
follows (`length`), and a frame knows where it begins (`at`; `Laid` says that the frames
of a stream follow one another). `TakePacket` is `take_packet`, `Packet` and `Verbatim` the two
ways through the loop of `pump`.

In `DumpDecoders` a bit array is the set of its bits, and the sizes are constants
(`WORD` is 32 in the code, `KEYITEM_BITS_PER_TABLE` 512), so that small ones can be
checked exhaustively. `KeyitemBlob`, `Flags`, `Currents`, `DecodeJobPoints` and the
rest are the decoders; `HasKeyItem`, `LogFlags` and `OnWire` are LSB's side, as the
decoder's own comments and `ffxi_lsb_tables.py` record it. A dump has
at most one block per quest log port.

In `ImportPlan` a dump maps its sections to their contents, containers of any id among
them; `ItemRows`,
`StorageSizes`, `EquipRows`, `SkillRows`, `Spells`, ... are the sections of
`build_statements`, `RunCore` and `RunBest` the statements `do_import` runs,
`Load` and `InGame` LSB reading the result. The order of the best-effort statements is
left open, but for the two tables that a statement of its own clears first
(`Cleared`): no two others write one column, and each fails alone.

## 3. Runs

| Run | Instance | Properties |
|---|---|---|
| `lobby_one` | 1 connection, 3 ids, 4 charids, 3 slots, 2 replies in flight; hang-ups, data session failing | 3 invariants, 3 action properties, 2 liveness |
| `lobby_members` | 2 members, 2 connections, the second member's launch attributed to the first and flagged, its client naming ids of its own when it is offered none; restarts, refused deletes | isolation, never-move, refinement |
| `lobby_two_clients` | 2 members, each on a launch of its own; late early lists | isolation; commands and creates do not cross |
| `lobby_faults` | 1 connection, every fault, failing saves | type invariant, unique ids |
| `lobby_refused_delete` | 1 connection, refused deletes | **violated**, section 4 |
| `import_apart` | 2 workers, 2 members (2 ids and 1), 2 charids, `bind`, the lobby, every fault; each member does one thing at a time | 4 invariants, 1 action property, 1 liveness |
| `import_twice` | the same without faults, members doing several things at once | **violated**, section 4 |
| `relay_faults` | 2 clients, 3 flows, 1 file to keep; one client's flows fail, the database fails, the disk may fail under the third flow | 4 invariants, 2 liveness |
| `relay_capture` | 1 client, 3 flows | **violated**, section 4 |
| `launch` | 8 scenes of 1 or 2 connections and 1 to 3 sessions of 2 members | 3 invariants, 3 action properties, 1 liveness |
| `launch_again` | 2 sessions behind one address, 1 connection | **violated**, section 4 |
| `data_paths` | all cuts of streams of up to 3 frames; 6 families of dumps | 5 invariants |

What the properties say:

* `UniqueContentId` - no id has two holders, in memory or in the file POL reads.
* `BoundIdNeverMoves` - a character that has an id keeps it or loses it; it is
  never next seen with another, a restart included.
* `ImplementsEntitlement` - the map implements `Entitlement` under
  `spent <- Spent`, the pairs in force.
* `MemberIsolation` - a character holds only ids of the member on whose LSB
  account it was created. One account is excepted, `Misled`: a launch was attributed to it
  that is another member's and was not flagged, and the client of that launch names an
  id it was not offered.
* `CreateGetsNamedId` - while its connection lasts, a new character is paired with
  the id its client named, or with none.
* `CommandReachesPicked` - the charid LSB reads in a select or a delete is the
  character picked on the screen, or nobody's.
* `OfferedIsNotShown` - no screen offers as free an id it shows in use.
* `SpentOnTheLiving` - no id is left on a deleted character.
* `DeliveredIsPersisted` - what a list shows the client is in the file, world
  field included, when the list arrives.
* `NoUnsolicitedList` and `ListAnswered` - the early list is swallowed, and
  nothing else is.
* `EarlyPairing` - once LSB's ACK of a commit is on its way, the account's
  characters get paired without the client asking.
* `TypeOK` - types, and that a pump works on a character exactly in the stages
  that have one.
* `MintedIsNext` - the charid an import inserts under is still the next one,
  however many imports run and whatever LSB creates.
* `PairedWithinPool` - whoever binds a character, it is under an id of the member
  whose account it is on; also after an import that died before its bind, and after
  a `bind` that wrote over the bridge's file.
* `ReplyIsTrue` - an import answered ok left its character on the member's account
  under one of the member's ids; one answered failed left none. One failure is
  excepted by name (`failed late`): a connection lost among the best-effort
  statements, where the code answers "nothing committed" of a committed character.
* `ImportAnswered` - every import is answered, whatever fails in the database and
  however many wait for one lock, unless the bridge dies or
  its thread does. The second exception is by name (`crashed`): a dump that makes
  `build_statements` raise what `do_import` does not catch (section 4).
* `NoWedge`, `ReturnPathServes` - a client's datagrams never go to a flow whose
  return path is gone; an answer is taken off its socket, empty ones too.
* `WatchIsBounded` - no watcher runs for ever on a client that has gone quiet. That there
  is one per client, `OneWatcher`, is proved and not run.
* `FilesBounded`, `NoCaptureLeak` - no open capture file is removed, and there are never
  more files than `WORLD_CAP_KEEP`, the one opened after the last prune, those that
  prune had to leave open, and one for each prune skipped since; a capture is open only
  while somebody is there to close it. (If prunes always fail the directory grows
  without end: the code skips them and goes on.)
* `AloneIsServedItsOwn`, `PairIsFlagged` - the only session signed in at an address is
  what a launch from there gets; of two not yet launched, the wrong one only with a flag.
* `SilentTakesNothing` - a peer that says nothing claims no session, makes no
  account, gets no data session.
* `MapIsTrue`, `HealConverges` - the account map names only accounts LSB has, unless
  its database was reset; after a reset somebody gets through.
* `DataSessionHeld` - a relayed client has its own launch's data session.
* `CutsDoNotMatter` - however `recv` cuts the stream, no byte moves and every whole
  packet is rewritten as one.
* `NothingSilentlyLost` - every item, skill, spell and key item of a dump is in the game
  after the load, or the player was warned, or its statement failed and was reported. Two
  containers are excepted by name: the temporary one, which is not imported, and those
  without a size column other than the mog storage, of which the property says only
  that their rows are written (section 4).
* `EquippedIsOwned` - equipment names inventory rows that are there and hold that item.
* `FlagsInPlace` - read the way LSB reads them, key items and quest flags are exactly
  the dump's.
* `SilenceErasesNothing` - a section missing, unreadable or never captured leaves its
  column as it was, and a job no packet speaks of keeps its row. Two columns are excepted:
  the row of a job is written whole, with 0 for what only the packet that is missing
  could have said, and a rank without rank points is written with 0 of them.

Bounds. `MaxChar` bounds the creates of a whole behaviour (charids are never used
again): `MayMint` lets no more creates begin than there are charids left, so that LSB
refuses one only as the fault `refused create`, never because the instance is small. Two are enough for one character to take another's id, four let a
deleted character's id pass through a second and a third. `MaxInFlight` bounds
the replies LSB owes a connection: with two, an early list and the client's own
are on the wire together, in either order. `Slots` is at or above the number of
characters alive in most states, so that empty slots exist, and ids are as many
as that or one more, so that pools are exhausted as well as not. Two members
have two ids and one. No run uses symmetry: charids and ids are ordered.
Deadlock is not checked, since players may simply stop.

`import_apart` has as many workers as can hold and wait for a lock; two charids are
an import and a character created beside it, or two imports, and an import that
dies after its commit can be followed by another of the same member. In
`relay_faults` three flows are one client's flow, its successor and the other
client's, or a flow, its successor and a third built while both are being torn
down; three captures of one client in turn, with one file to keep, are one more file than a
prune that leaves one too many or is never run would be allowed, so the bound can be
broken. The disk fails under the third flow at most: with more the instance does not
finish. In `lobby_members` the second member's ids are in reach of the first one's
account through the flagged launch, and in `lobby_two_clients` each member creates on a
connection of its own, with the free ids of either in the map's reach.
In `launch` every scene turns on what its properties need and no
more (a product of all would not finish): three ticks of the clock with both
lifetimes at 1 let claims and sessions expire, two connections race for the claims and for a reset
account, one connection used again meets its own earlier companion. In `data_paths`
a frame is shorter than the magic, shorter than a header, a header whose size
is too small or too large, or whole; words have 2 bits, so that the boundary bits of
every packet and log occur, in pairs.

Which property runs with which fault is a result in itself; the theorems of
`ScreenProofs` (section 5) state the same conditions as hypotheses. Beyond the runs, TLC shows:

* `BoundIdNeverMoves` and the refinement need saves that succeed: after a failed
  save a restart takes the map back to an older file.
* `SpentOnTheLiving` needs the early list to be swallowed in time. One that
  arrives after `SWALLOW_TTL` is forwarded, the player can delete a character
  while yet another list is being rewritten, and that list pairs it again.
* After a refused commit `createPending` stays set (`0x04` does not clear it), so
  the next `0x03` of any kind sets off an early list; racing a delete, that list
  re-pairs the character being deleted, with the id still pending. So
  `CreateGetsNamedId` and `SpentOnTheLiving` are checked without refused creates.

Fairness. In `Lobby` (`FairSpec`, for its two liveness properties only): weak fairness, for
each connection, of LSB's two channels and of the s->c pump. The pumps are
threads that block on nothing but their socket and short locks, and the data
session is a thread of its own, so their steps stay enabled until taken; LSB is
assumed to answer what it was asked. Nothing is assumed of players, of failures or
of time. Both properties end their duty when the connection or its data session
ends, and `EarlyPairing` also when the member has no free id.

In `Import` a worker's steps are weakly fair (a thread runs on), and `Mint` is
strongly fair: the lock is free again and again but not continuously, and InnoDB
grants it in the order it was asked for. Nothing rests on a wait timing out.
In `WorldRelay` the relay thread, each flow's thread and each watcher are weakly
fair; a socket that fails, a `recv` that notices, the map's answers and time owe
nothing. In `Launch` each handler thread is weakly fair: every call it makes to LSB has
a deadline. `HealConverges` speaks of the scene where nothing but the reset goes wrong.

## 4. Disagreements found

### A refused delete (`lobby_refused_delete`)

`rewrite_c2s` releases a deleted character's id before LSB has ruled on the
delete, and says why that is safe: "the character reappears in the next 0x20 and
is paired again, drawing the same id back out of the member's pool"
(`lsb/ffxi_bridge.py:1546-1547`). `content_id_for` does keep the released id
first, but only when no id is named, and `rewrite_s2c` names the pending create's
id to the first character of a list that has no pairing (1583). In the run
`lobby_refused_delete` a delete is refused and, before another list is fetched,
the player creates a character naming the other id on the screen. The early list
holds both; the older comes first, is unpaired, and is bound to the id named for
the new one, although its own is free. The two then trade ids, which is the very
swap `content_id_for` was rewritten to prevent. `tools/ffxi_bridge_test.py:184`
tests the refused delete with no create pending.

### Two imports, one id (`import_twice`)

"A Content ID belongs to exactly one handle in POL [...], so a duplicate is worth
refusing even at the cost of an unpaired character" (`ffxi_bridge.py:612-614`).
`content_id_for` looks under the lock before it binds; `do_import` looks at 2549,
works in LSB's database for as long as that takes, and binds the first id it saw at
2626 without looking again. Two imports of one member, or an import beside a
create of the same member, bind one id twice. `import_apart` shows that this
is the only way: while each member does one thing at a time the ids stay unique,
whatever fails.

### The successor's capture (`relay_capture`)

`world_capture_close` takes the capture the dying thread was handed, so that it cannot close
"its successor's file, and `world_capture` would then silently record nothing for
the rest of the session" (2199-2206). But a successor built after the thread
removed its flow from `peers` (2440) and before it closes (2441) is handed the
predecessor's capture, still open (2126-2128): the two are identical and the
check passes. The rebuilt flow records nothing from then on.

### The second launch (`launch_again`)

A claim "is NOT a reason to rank a session below other members'"; until 2026-09-04 a
relaunch "was handed whichever OTHER member was signed in" (747-751). The fix
covers an address with one session signed in. With two, of which one
is not claimed, that one is taken for certain (858-861) - so when Alice has launched
and Bob, behind the same address, has not, Alice's relaunch is given Bob, not
flagged, and may create characters on his account. A stamp POL knows prevents it;
the run has none. `tools/ffxi_bridge_test.py:175-181` covers two first launches.

In `Lobby` such a launch is one of another member's on the account it was given
to, unflagged: `MemberIsolation` excepts that account as soon as the client names an id
it was not offered, and `LobbyIsolationOffered` says that it need not as long as it does not.
Attribution goes wrong likewise, unflagged, in three more cases seen while modelling: a client at an address where
two sessions are claimed, with a third unclaimed elsewhere, is given the third;
of two first launches given each other's sessions the second is not flagged (the
first is); and only the two best candidates are compared for a doubt, ranked by
their last fetch before their last activity, so that a third recent one is not seen.
`PairIsFlagged` is therefore stated for exactly two sessions.

### Read, not run

* A dump with a title in 1 .. 1143 gets no answer. `build_statements` calls
  `keyitem_blob([title]).hex()` (`ffxi_import_core.py:831`) on the pair that function
  returns; the `AttributeError` is not among the errors `do_import` answers for (2543),
  nor does `do_POST` catch it. The thread ends with nothing written, while `do_import`
  "Returns (ok, message, charid)" (`ffxi_bridge.py:2534`). `ImportPlan` has the title as
  the cause (`Plan`, to `crashed`), `Import` the thread that ends; both are in the runs, as
  exceptions of `ImportAnswered` and of what `ImportPlan` loads.
* A container without a size is imported in silence. Mog storage "is the one container with no
  char_storage column", and the import "REPORTS a non-empty container 2 rather than
  pretending it landed" (`ffxi_import_core.py:112-117`). But the rows of whatever container
  the dump has are imported, the temporary one apart (652-654), those `STORAGE_COLS` names
  are sized (661-663), and container 2 alone is warned of (674-680). The dumps of the run
  `data_paths` have items in container 17, which `STORAGE_COLS` has no entry for either:
  they are written, with no size and no word about them.
* A job of which only one of the two job-point packets came has the other's columns
  written as 0 (1022-1030), and a rank without rank points is written with 0 of them (798-799).
* `AMBIGUOUS_WINDOW`'s comment says such a launch is refused (763-768); the code
  lets it through with creates blocked (883-900).
* `n_items` of an import's answer is the number of job point rows when the dump
  has any: `rows` is reassigned at `ffxi_import_core.py:1021` and counted at 1114.
* Fewer than 8 bytes that are not IXFF, at the end of a stream, stay in the buffer,
  while `take_packet`'s docstring (1403-1405) says such a stream is passed through.
* An account a racing heal created meanwhile is answered "taken", and the first
  refusal is raised although a login would now succeed (1051-1061).

## 5. Theorems

All are for any constants satisfying the named assumptions: any number of members,
connections, charids, workers, flows, sessions, items, bytes. A constant that switches
faults on is a hypothesis where the theorem needs one off; where none is named, it
holds whatever fails. Every invariant and every action property that a passing run
checks is also the conclusion of a theorem.

| Theorem | States | Beyond the named assumptions it needs |
|---|---|---|
| `MapTypeCorrect`, `MapUnique` | types; `UniqueContentId` | - |
| `MapNeverMoves`, `MapRefines` | `BoundIdNeverMoves`; `ImplementsEntitlement` | saves that succeed |
| `LobbyTypeCorrect`, `LobbyDrivesMap`, `LobbyUnique` | `TypeOK`; `Spec => MapSpec`; `UniqueContentId` | - |
| `LobbyNeverMoves`, `LobbyRefines` | as for the map | saves that succeed |
| `LobbyIsolation` | `MemberIsolation` | - |
| `LobbyIsolationOffered` | `PoolsApart`: the same with no account excepted | clients name only ids their screens offer |
| `ListsAreSolicited` | `NoUnsolicitedList` | `Steady` |
| `CommandsReachPicked`, `OffersAreFree` | `CommandReachesPicked`; `OfferedIsNotShown` | `Steady`, `Alone` |
| `ListsArePersisted`, `IdsOnTheLiving` | `DeliveredIsPersisted`; `SpentOnTheLiving` | `Steady`, `Alone`, saves that succeed |
| `NamedIdIsGiven` | `CreateGetsNamedId` | the same, and `Heeded` |
| `ImportTypeCorrect`, `ImportMintsTheNext`, `ImportStaysInPool` | `ImportTypeOK`; `MintedIsNext`; `PairedWithinPool` | - |
| `ImportUnique`, `ImportRepliesTrue` | `UniqueContentId`; `ReplyIsTrue` | `~Overlap` |
| `LaunchTypeCorrect`, `LaunchMapIsTrue`, `LaunchDataSession` | `LaunchTypeOK`; `MapIsTrue`; `DataSessionHeld` | - |
| `LaunchAlone`, `LaunchPairFlagged`, `LaunchSilent` | `AloneIsServedItsOwn`; `PairIsFlagged`; `SilentTakesNothing` | - |
| `RelayTypeCorrect`, `RelayNeverWedged`, `RelayNoCaptureLeak`, `RelayFilesBounded`, `RelayOneWatcher` | `RelayTypeOK`; `NoWedge`; `NoCaptureLeak`; `FilesBounded`; `OneWatcher` | - |
| `PlanNothingLost`, `PlanEquipment`, `PlanFlags`, `PlanSilence` | `NothingSilentlyLost`; `EquippedIsOwned`; `FlagsInPlace`; `SilenceErasesNothing` | - |
| `FramingCuts` | `CutsDoNotMatter` | - |

`Steady`: early lists come back within `SWALLOW_TTL`, LSB refuses no create, clients
name only ids their screens offer (no `expiry`, `refused create`, `unoffered id`).
`Alone`: no member has two connections. `Heeded`: `accounts.db` can be read and LSB
refuses no delete. `lobby_one` satisfies them all, with hang-ups and a failing data session;
`lobby_two_clients` and `lobby_refused_delete` show what is at stake without them,
and section 3 says what goes wrong. `~Overlap`: each member does one thing at a time;
`import_twice` violates the property without it.

### The map and the relay

`IdMapProofs` is about the map under any calls whatever. `UniqueContentId` is not
inductive: a restart makes the file the map, so the file must have one holder per
id *and* the right type, and a save must write a map that has. `Safe` adds the
types; `ContentIdFor` gives the id the charid has, or one nobody holds, or none,
which is all uniqueness needs. For `BoundIdNeverMoves` and the refinement the
invariant is `FileIsImage`: with saves that succeed the file is always the image of
memory, so a restart changes no pairing. Each step then maps to `Spend`,
`GiveBack` or a stutter (`MapRefines`).

`LobbyProofs` proves the type invariant of the relay, one lemma per group of
actions, and that every step of `Next` is a step of `MapNext` or leaves the map
alone (`LobbyDrivesMap`: `Spec => MapSpec`). The map's theorems carry over to
the relay from there, whatever the members, connections and faults.

Its last part proves `MemberIsolation`. What `PairSlot` binds comes from
three sources - what the pool read gave, what the client named, what the file
brought back - and the character from a list; the invariant `Isolation` says each
of them stays with its member: pending and offered ids, the prefer of a job, the
characters of lists on the wire and of the list being worked on, and the pairings in memory and
in the file. What "its member" means for an account is `MayHold`: the member's pool, or
any id if the account is misled. A wrong launch that was flagged names no id because
`BlockCreate` refuses it first, and one that was not names only ids its screen offers, which are
the account's, unless it names others, and then the account is misled. Nothing is
assumed of who is attributed to whom; `LobbyIsolationOffered` is the case with no exception.

### What players see and reach

`ScreenProofs` is built in layers, each the strengthening the next one needs.

1. *The wire* (`Wires`). A reply's meaning depends on what else is under way, so
   the invariant counts: the replies, requests, commands and the list a connection
   still has to get through (`Busy`) are at most one early list and one command of
   the client's (`Due`). `OpenOK` refines this by what the client awaits: only lists
   (`Listing`), or the command or its answer, alone (`Awaiting`);
   `ShutOK` says what a dying connection may still hold. `NoUnsolicitedList` follows:
   when a list is to be swallowed one was asked for, and when none is the client is waiting.
2. *The screen* (`ScreenInv`). While a list is rewritten, the slots done are
   paired and noted (`JobOK`); what the screen shows is what the map says (`ScreenOK`);
   a command on its way still means the character picked (`PickedOK`); the offer has
   none of the ids shown (`OfferOK`). The frame is what makes this inductive: of another
   connection's step a member's characters are `Untouched`, which is where `Alone` is used.
3. *The living* (`Living`, `DeleteOK`). No list on the wire or being
   rewritten names a deleted character, and from a delete's release of the id until
   LSB's ruling nothing pairs that character again.
4. *The named id* (`NamedOK`). Four parts: the id a client named is free until
   it is taken, and remembered as pending as long as the new character is without
   one (`Names`); a list of the account leaves nobody out (`Whole`); a screen
   that offers an id leaves nobody else unpaired (`Filled`); so the new character is the only one
   without an id, its id is waiting for it, and no screen is shown that it could
   have been taken from (`NewOne`). `Heeded` is used for `Filled`: an empty pool read or
   a refused delete leaves an older character unpaired, which then takes the id
   named for the new one - the disagreement of section 4. TLC checked this
   invariant on two instances before it was proved.

### The import

`ImportInv`: a worker at `core` holds the lock (`LockHeld`), and the charid it
minted is the next one; a committed character is its member's unless it was
deleted (`LocalsOK`); no row has an owner before it is there
(`UnbornUnowned`); and three images - the map in memory, the file, the one the operator's
process has loaded - pair only characters that are there, each within its
owner's pool (`ImagesOK`). The third is needed because `cmd_bind` writes it over the file.

`Apart` adds, for `ImportUnique`, that the three images have one holder per id,
and that a worker under way is alone with its member (`Alone`) and its free id is
still nobody's, and its character still its member's (`Undisturbed`):
what the code does not look at again, nobody has changed. `ImportRepliesTrue` is an action
property from both.

### Launch

The connections are `Placed` (who has been attributed has a session, who has spoken
has an address of its own). `MapOK`: a launch about to record an account has one that
LSB has, and accounts only go in a reset. `DataOK`: from `upstream` on, the data session
is this launch's. The three attribution theorems rest on lemmas about the ranking
(`LowestExists`, `FirstIsOne`): the sort key takes the clock and the session number, both
numbers, so among finitely many candidates there is a first, and with
one or two sessions it is the one `resolve_pol_member` means.

### World relay

The inductive invariant `RelayInv`: every flow is somebody's or not built
(`Built`); the relay thread is busy with a flow of the client it received from, even
after others removed it (`RelayHas`); a flow in `peers` is one whose thread still receives
or has yet to take it out (`NoWedge` itself, which is inductive with these);
an open capture was opened by a flow that is still up (`CaptureHeld`); one watcher is
alive (`OneAlive`). `FilesBounded` counts over finite sets of flows: a prune that is not
skipped leaves at most `WORLD_CAP_KEEP` files besides those that are open, and `excess`
is then how many these are; one that is skipped removes some or none, and `excess` goes up by
one with the file that may be added.

### Data paths

`FramingCuts`: what was sent and what is buffered are consecutive bytes, and of a
stream of packets the cut is always where a frame ends (`FramingInv`). The lemmas on
sequences (`SpanIs`, `SpanJoined`, ...) hold for any lengths; where an induction over
the frames would be natural, the first frame that breaks the claim is taken instead (`WFMin`),
since the induction theorems need an operator the provers cannot instantiate.

`PlanInv` says that whatever has run is part of the plan and wrote what the plan says, the
dump being fixed. A table that is cleared is empty until its own write, which runs after.
The rest is about the operators: the largest of a finite set
exists, so every item's container is large enough or at LSB's limit, in which case the plan
warns; division with remainder puts every key item in its own table and bit
(this needs `KEYITEM_TABLE_BITS >= 2 * KEYITEM_BITS_PER_TABLE`, as 1024 and 512 are) and
every quest, mission, assault and campaign flag at the port and bit LSB's builders
use. `PlanNothingLost` and `PlanSilence` have the exceptions of their properties and no other. `DumpOK` is what the addon writes: finite containers of any id, one entry
to a skill, one block to a port. Proving this showed that two cases of `OnWire` could
both apply; TLC had silently taken the first. Their guards now exclude each other.

### Only model-checked

* Liveness: `ListAnswered`, `EarlyPairing`, `ImportAnswered`, `ReturnPathServes`,
  `WatchIsBounded`, `HealConverges`. The prover has no rule for `ENABLED` under
  fairness.
* Late early lists (`expiry`): `CommandReachesPicked` and `CreateGetsNamedId` are
  checked with them in `lobby_two_clients`, but the proofs assume `Steady`.
* The four disagreements of section 4: a violated property is TLC's counterexample.

## 6. Not modelled, and what is left

Left to prove:

1. `CommandsReachPicked` and `OffersAreFree` with `expiry`. A stale list is then
   forwarded to a client that did not ask, and the screen's invariant must speak of a list
   being rewritten while a screen is shown; TLC finds no counterexample in
   `lobby_two_clients`, but the properties that do fail show how near it is.
2. A member on two connections (without `Alone`): which of these properties
   hold then is not known; a run first.
3. That an import's steps other than `Bind` and the operator's are steps of the map, so that a
   look under the lock in `Bind` would give back `UniqueContentId` without `~Overlap`.

Not modelled, and why:

* the generated enum tables and their generator, deployment files: data;
* `ffxi_provision.py`, `ffxi_names.py`, `openlobby_paths.py`: front ends that share
  no state with the running bridge;
* HTTP parsing, logging, packet dumps, the statistics reporter: pure I/O, read-only;
* the columns of the import's core rows (race, job levels, look), item
  augments, SQL text: copied field by field, with no state to disagree with;
* `peek_client_version` beyond the world it picks, the DATA listener, environment
  switches away from their defaults;
* a second LSB's charids in the one map (hazard at line 286): `Launch` has the worlds,
  `Lobby` one LSB.

The tests and `check.py` are read as statements of what the code is meant to do.
