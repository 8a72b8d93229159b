# Ashta Chamma: models, checks and proofs

Ashta Chamma is a board game of cowries and pawns for up to four players: a
Python server (FastAPI, Redis, PostgreSQL), a TypeScript client (React), and an
older pygame version. This directory holds TLA+ models of its logic, the TLC
configurations that check them, and proofs that TLAPS checks. Every definition
is translated from the source; `PROJECT.json` maps each one to its lines.

Run TLC as `tlc -config X.cfg M` and the prover as `tlapm M.tla`. Paths below
are relative to the repository.

## 1. Inventory

| Component | State | Operations | Hard behaviour | What makes it correct |
|---|---|---|---|---|
| Board and dice (`server/app/game/board.py`, `dice.py`) | tables | lookups | hand-written tables | paths are injective, rotations of each other, turn inwards where the kill rule's gate is |
| Move generator (`moves.py`) | none | `compute_legal_moves` | exact count at the centre, blocking | only possible moves, and some move for some roll |
| Session (`state_machine.py`) | positions, turn, phase, roll, offered moves, pending result | `start_game`, `apply_roll`, `apply_move`, `confirm_move` | a turn is three calls; capture and move generation each rely on what the other kept true | one pawn per unsafe square, wins not lost between calls, no stalemate, the turn rotates |
| Second engine (`engine.py`) | pawns, turn, `kills_made`, winner | `get_possible_moves`, `apply_move` | validates nothing; kill rule can pin a player | the same promises, with the gate |
| Browser game (`client/src/game/*`, `GamePage.tsx`, `Board.tsx`) | game state, AI timer, queued updates | roll, select, move, new game | clicks race the AI player's timeout; handlers hold values of an older render | only valid moves, no dead phase, pairs respected, counters in step, the turn rotates unless clicks put the timer off for ever |
| Connection manager (`WebSocketManager.ts`, `useWebSocket.ts`) | sockets, retry counter, timers, flags | connect, disconnect, retry, manual reconnect | events of replaced sockets, closings by the server that no event announces, overwritten timers, reset counters | no leaked socket, a state that is not left behind, recovery of missed updates, retries end |
| Idle-room cleanup (`tasks/cleanup.py`) | Redis keys, row, audit rows, progress of each replica | scan, read, select, commit, delete | two replicas, no lock, crashes between steps, an import that fails | audit and status agree, keys wiped only after a commit; idle rooms should get closed, and do not |
| Game session in Redis (`services/game_session.py`) | one JSON document per room | `roll`, `select_pawn` | read, await, write back; no turn check | no connection's moves out of order |
| Connection registry (`connection_manager.py`) | live connections per room | register, deregister, send, broadcast | lists changed across an await | who stays gets each message, once |
| Rooms (`room_service.py`, `routes/rooms.py`) | three dictionaries | create, join, spectate | codes reused, double joins | dictionaries, seats and players agree |
| WebSocket endpoint (`routes/websocket.py`) | deque of times per connection | receive, limit, dispatch | equal times, the edge of the window | no more than the limit in a window, nothing dropped below it |
| AI opponent (`ai_engine.py`, `game_service.py`) | none of its own | choose a move | chosen after a sleep, from a shared session | the answer fits the session it is given to |
| Key cache (`auth.py`) | the key set in Redis | fetch, check, evict | rotations during a fetch; a late store | a withdrawn key is not accepted for ever, a new one not refused for ever |
| Accounts (`auth.py`, `user_service.py`, `routes/users.py`) | rows of users, Clerk's account | sign in, audit a login, erase | an external call before the commit; at this commit every erasure raises | not modelled, see sections 6 and 8 |
| Scores, audit (`score_service.py`, `audit_service.py`) | rows | record, query | at this commit every recording raises | not modelled, see sections 6 and 8 |
| HTTP limit (`middleware/rate_limit.py`) | sorted set per user | admit | the clock is read before the pipeline runs | no more than the limit in a window shortened by the delay |
| Cowrie animation (`usePhysicsSettle.ts`, `CowriePhysics.tsx`) | phase, settle cycle, timers | throw, frame, timeout, lerp | two ways to settle; phases queued, not yet rendered | one callback per cycle, every throw answered |
| Legacy pygame (`game.py`, `helper.py`, `player.py`, `path.py`) | four flags, rolls to be used, movable pawns, board overview | roll, click, pass | the list of movable pawns outlives its turn | only a pawn that was met is sent home; the gate holds |
| Pawn animation (`usePawnAnimation.ts`) | waypoints, index, flag, position | `animateTo`, `snapTo`, frame | the owner acts from within `onComplete` | the end of an animation is reported once, and it comes |
| Request metrics (`middleware/metrics.py`) | a list of samples, two counters | measure, flush | flushes beside requests and beside each other, failing calls | each request in each metric once |
| Redis manager, snapshots, store, pages, 3D scene, i18n, schemas, wiring, k8s, load tests | - | - | - | not modelled, see section 8 |

Interactions. At this commit the parts are joined loosely. The WebSocket
endpoint's handlers only log, `game_session.py` rolls and moves on its own
without either engine, and nothing but the tests calls `engine.py` or
`state_machine.py`. The client's "play" page runs `engine.ts` locally
(although `docs/adr/003` wants no game logic on the client). The cleanup shares
Redis keys and the `game_rooms` row with whatever plays; the connection manager
talks to the endpoint. So the modules compose where the code does: move
generator and session; engine and component in the browser; socket manager and
hook; cleanup replicas through Redis and the database. The two server engines meet in one
abstract game, `Race`. The services behind the WebSocket endpoint and the
layers an HTTP request passes share no state, so `OnlinePlay`, `Backend`,
`MCClient` and `MCRealBoard` put several parts side by side without inventing a
caller that does not exist: a variable `followed` picks the part whose steps a
behaviour takes. Steps of parts without shared state commute, so nothing is
lost by following one at a time.

## 2. Plan

Done in this order, the core first:

1. `Board`, `Moves`, `StateMachine`: the session, its small instance, its proofs.
2. `Race`, the abstract game; the session implements it.
3. `Engine`, the second engine, against the same `Race` with the gate; its proofs.
4. `AshtaBoard`, the real tables, and a run on them.
5. `LocalGame`, `ClientSocket`, `Cleanup`: the concurrent parts; proofs of `Cleanup`.
6. `Rooms`, `Connections`, `SocketLimit`, `RoomSession`, `AIPlayer`, and
   `OnlinePlay` beside each other: what a process does for a room.
7. `RequestLimit`, `Jwks`, `Metrics`, and `Backend`: what a request passes.
8. `Cowries`, `PawnAnimation` and `Pygame`; proofs of `Pygame`.
9. Proofs of what was only checked until then: `LocalGame`, `ClientSocket`,
   `Cowries`, `PawnAnimation`, the five parts of `OnlinePlay`, `RequestLimit`,
   and the real tables. Every invariant and every action property of the passing
   runs is now a theorem, except `CountedOnce`.

Next:

10. `Metrics`: a proof of `CountedOnce`, by what an append, a drained buffer and a
    published chunk do to the places where a request is mentioned.
11. `Jwks`: a bound on the wait between a fetch and its store, as the client's
    timeouts give one, and with it how old a copy can get. Without such a bound a
    store may be as late as it likes, and only `RotationSettles` can be said.
12. An abstract registry that sends in one step, implemented by `Connections`,
    and an abstract game with mixed squares and pairs for `LocalGame`.
13. Sign-ins, erasures and recordings as overlapping transactions, once the
    constructor calls match `AuditLog` and `auth.py` can be imported: then the
    races between them (an update prepared before an erasure, a Clerk deletion
    before a commit that fails, a recording that is retried) can happen.
14. An abstract session in which each call of `game_session.py` is one step,
    once the code has a lock or a transaction that would make it true.

## 3. Modules and how they correspond to the code

`Board` declares what the rules use of `board.py` and `dice.py`: paths from a
path index to a square, safe squares, rolls. `BoardAssumption` is all that the
other modules assume: a path visits no square twice, the centre is safe, a one
can be thrown and releases a pawn.
`AshtaBoard` holds the real tables and checks what `board.py` says of them
(`TablesAssumption`); `RealBoardAssumption` of `MCRealBoard` says that the
engine there plays on them.

`Moves` is `compute_legal_moves`. A `Move` keeps the pawn and its destination;
the player is always the current one and the origin is where the pawn stands.

`StateMachine` has one variable per field of the session and one action per
public method. A call that raises `GameError` changes nothing and is a
stuttering step. `_resolve_capture` sends home the *first* enemy it meets, as
the loop does (`FirstOf`); that this is enough is a theorem. `roll_history` and
the wording of errors are left out. `Finished` stutters in the final state, so
that TLC's deadlock check finds any other.

`Race` is the abstract specification: one step per turn, no phases, all enemies
on a square struck, at most one allowed. Its parameters `Gate` and
`StartBarred` are the one rule the two engines differ in: the session has no
barred players, in `engine.py` everybody is barred until the first capture.

`Engine` is `engine.py`: `Stays` are the three rules of
`compute_new_path_index`, `PossibleMoves` is `get_possible_moves` with its wide
set of friendly squares, `ApplyMove` the whole of `apply_move`. `apply_move`
validates nothing and the code that is to call it does not exist yet; the model
gives it the caller its docstring describes, one that trusts the move list and,
when the list is empty, passes by applying a pawn that will not move. Hence
`PassPossible`: without such a pawn that caller could not pass.

`LocalGame` keeps the engine of the browser as operators from state to state,
like the code's pure functions, and adds the component. `timer` is the AI
player's timeout with the update it was built with, `pending` the update queued
and not yet applied. A click is applied after the update that waits. Renderings
that change nothing are left out. The log, the animation and the board's
drawing are left out. One pending update is enough: a timeout fires at most
once per render. `Rendered` sets the timer anew in every state: the effect's
cleanup clears the timeout, and the effect starts it again with all of its 800 ms.
A click on the same AI player's other pawn is such a state, so clicks can put
the timeout off. The model keeps no clock; it is the fairness of `Timeout` that
says when it must fire (section 5).

`ClientSocket` has every socket the browser still knows, not only `_ws`, and
delivers the events of all of them in any order to the same handlers, as the
code does (no handler checks which socket called it). `connect`, `disconnect`,
the handlers, both kinds of retry and the button are actions; `connect` and
`disconnect` come from the hook when the page mounts, unmounts or changes its
room. A timer whose handle is overwritten is counted in `lost_timers`, since it
can fire and cannot be cancelled. Messages, their dispatch to the store and the
delays between attempts are left out: the delays do not order events, as any
answer may be slow. Ghost variables: `overlapped` (a session was started while
an older socket or timer was alive), `manual`, `stale` (an open connection
broke and no snapshot was asked for since). No action reads them. When the
server closes, `readyState` is CLOSING before any handler runs (`PeerCloses`):
until `Closed` the store says "connected" while `send()` drops what it is given
and `isConnected` is false. A connection that is lost goes from open to closed at
once.

`Cleanup` is one loop per replica with the shared row, audit rows and keys. A
worker's step is one stretch of code between awaits that touch shared state.
The SELECT takes no lock and the UPDATE goes by primary key, so `Commit` tests
nothing. Players, the clock and the end of a game are external actions
(`Touch`, `Age`, `Complete`). `OddKey` are keys that match the pattern and
parse to no room. The timestamp `now` and the scan of the keys are one step,
and so is reading a room's timestamp; what a worker remembers of `now` is the set
of rooms that are idle as seen from it. `_notify_clients` imports
`broadcast_to_room` before its `try`, and `routes/websocket.py` defines no such name:
the `ImportError` gives up the room, and `ReadActivity` goes on with the next key.
The constant `BroadcastDefined` is FALSE for the program at this commit, in which
no further step of a worker is ever reached (`cleanup_idle`), and TRUE for
the program with the function that `cleanup.py` asks for, of which the other
two runs speak. The theorems hold for both. `tests/test_cleanup.py` patches the
name, which `patch` refuses for an attribute that does not exist. Besides,
`models/room.py` declares an attribute named `metadata`, which SQLAlchemy
reserves, so that at this commit `cleanup.py` cannot even be imported; the model
takes no account of that.

`Rooms` keeps the three dictionaries of `room_service.py` and makes each route
one step, since its functions never await. `_generate_code` may draw a code
in use. A call answered with 404 or 409 changes nothing and is a stuttering
step. `RoomsAssumption` grants a room as many seats as there are colors, at most:
with a fifth seat the first color would be given again.

`Connections` is one room's list. Python's `for` over the live list is a list
and a position: `register` appends to the very list a send iterates over,
`deregister` builds a new one and leaves the old to the send. `live` tells
whether a send still holds the registry's list. `got` and `through` are ghosts:
what arrived, and who was addressed and stayed.

`SocketLimit` is the receive loop of one connection with a clock in ticks.
`Recent` is the deque after the loop that pops from its front while the front is
`Old`: the loop stops at the first time that is not. The
deque holds the messages let through; the ghosts `dispatched` and `dropped`
hold all of them for the property.

`RoomSession` splits `roll` and `select_pawn` at their awaits: a read of the
document and a write of all of it. A connection awaits its call before it makes
the next, so the moves of one connection are ordered by it, and that is what
`MovesInOrder` is about; that rolls and moves of *different* connections
overwrite each other is in the model and reachable.

`AIPlayer` is `execute_ai_turn` and the scoring. The sleep is a gap in which the
session may change; the caller that would fill `legal_moves` is external. The
draws of a persona's randomness are free choices; weights and factors are whole
numbers in units of 1/2400.

`Jwks` follows one cached document: each request is at a step, and holds the
copy it has. `Store` writes it whatever the cache holds by then, `Check` evicts
whatever copy is there. It models `fetch_jwks` and `validate_token` as they are
written; at this commit `auth.py` cannot be imported (section 6), so nothing runs
them yet.

`RequestLimit` reads the clock in one step and runs the pipeline in another, at
most `MaxDelay` seconds later. A member of the sorted set is its own score, as
in the code, so two requests of one instant are one member: the model keeps
that, and `passed` is a set of times accordingly.

`Cowries` has the phase as rendered and the phase queued by the last `setPhase`:
frames and timeouts run with the rendered one. The shells' motion is free: they
come to rest or they do not. Since the first settle the shells are `kinematic`,
as the code never makes them dynamic again.

`PawnAnimation` is the hook that moves a pawn along its waypoints. `animateTo` and
`snapTo` come from an owner, between frames or from within `onComplete`, in which
`Complete` takes the three cases one by one. A position is a waypoint or somewhere
on the way, with the frames that are left to the next one. A position on
the way may be near enough to a waypoint to snap to it at once, one waypoint to another is not. No
component uses the hook at this commit; what it promises is in its own comments.

`Metrics` is the middleware and `flush_metrics`: a stretch of code under the lock
is one step, and so is each call of the loop that publishes. A counter is
modelled as the set of requests it counts, so that a data point tells of which
requests it speaks. Two flushes may run at a time, as the docstring allows
("Safe to call from any thread"), and requests end meanwhile. The chunks are
published or dropped one by one; without a client all of them are. At this commit
`main.py` installs neither the middleware nor the task that flushes.

`Pygame` is the loop of `game.py`. A frame passes the turn if that is due, and
handles one click. `Iterate` is the loop over `diceNumbers` that removes what it
iterates over. Clicks that hit nothing recalculate, and the exit button may
empty the list of movable pawns. The entries of `board_overview` for safe squares are
left out, since `checkEnemy` does not look at them.

## 4. Runs

| Run | Instance | What it shows |
|---|---|---|
| `state_machine` | 3 players, 2 pawns, path of 6 squares, rolls 1-3 (1 releases, 1 and 3 earn a turn) | Phases, board and pending result stay consistent for every sequence of calls, wins are not lost, nobody is stuck, the turn rotates, and the session implements `Race`. |
| `engine` | the same board, gate at index 3, only 3 earns a turn | One occupant per square, a pass is possible whenever needed, only a player without a capture can be pinned and only at the gate, the turn rotates, `Race` with the gate is implemented. |
| `real_board` | the real tables and rolls, 2 players, 1 pawn each; the engine and the pygame program, which may hold 2 unused rolls | Without a capture a pawn stays on the outer track; the engine's search for captured pawns strikes nobody at home or in the centre although it does not exclude them (`RaceSpec`); the pygame program moves pawns out of turn and still strikes only who stands on the square. |
| `local_game` | human and AI player, 2 pawns, path of 6 squares, rolls 1-3, three graces | Clicks racing the AI player's timer move pawns only by valid moves; no phase without an exit; pairs are respected; counters agree; the turn rotates, unless somebody clicks on the pawns of an AI player that is to move and never stops. |
| `client_socket` | 3 sockets, 3 lost timers, 5 attempts, 2 rooms and one whose URL the constructor refuses; 4 throws, 3 frames to settle and 3 to finish; a pawn with 3 places, 2 waypoints and 2 frames between them | No leaked socket, a state that is not left behind, recovery after a retry, retries that end, closings by the server included; one settle per throw cycle and every throw answered; the end of a pawn's animation reported once, and no animation without an end. |
| `client_socket_unmount` | the same sockets | *Violated*, see section 6. |
| `client_socket_recover` | the same sockets | *Violated*, see section 6. |
| `cleanup` | 2 replicas, 2 rooms, one odd key, 2 faults, with `broadcast_to_room` | Status and audit rows agree, keys are wiped only after a commit, keys do not stay behind without a fault. |
| `cleanup_idle` | the same without faults and without `broadcast_to_room`, as at this commit | *Violated*, see section 6. |
| `cleanup_replicas` | the same | *Violated*, see section 6. |
| `online_play` | 3 users, 1 code and 4 seats; 2 players with 3 sockets and 2 sends; limit 3 in 3 ticks, 7 ticks; 3 connections with 2 calls; an AI player, 2 pawns on 5 spots of the real board | The room's dictionaries agree, a send reaches who stays and reaches nobody twice, the message limit holds in every window, overlapping calls reorder no connection's moves, the AI player's late answer fits. |
| `backend` | limit 2 in 4 seconds, 3 requests at a time, 9 seconds, delay 2; 2 keys, 2 requests, 3 rotations, 2 ticks in the cache; 3 measured requests, 2 flushes at a time, chunks of 2 | The request limit with late pipelines, in a window shortened by their delay; keys that settle after a rotation; each request in each metric once. |

Why the bounds are enough. The rules compare squares and never compute with
them, so a board is as good as another when every relation occurs on it: the
small one has shared squares seen at different indices by different players,
a shared square at the same index, a safe and unsafe squares, overshoot,
release and non-release, extra and plain rolls. Two pawns give a friend to be
blocked by, three players a third party to a capture and a turn order with more
than two places. What the small board cannot show (the tables themselves, the
gate against the real geometry) is the run `real_board`; with one pawn each it
has no friends, which is what `engine` is for. In `LocalGame` two players and
two pawns make pairs, mixed squares and the last pawn home. The grace limit is
the code's own, three; so are the five attempts of `ClientSocket`. A leak takes two sockets,
and the third lets another one die meanwhile; up to three lost timers, which
the runs do reach, can open sockets at the same time. In `Cleanup` two workers are the deployment's two replicas
(`k8s/deployment.yaml`), two rooms make one room's failure and another's
progress visible, and two faults allow a crash after a failure. Bounds that cut
behaviour: `Slot` (the environment stops creating sockets; `AtRest` counts
that as rest), `MaxLostTimers` and `MaxFaults`.

In `online_play`, 3 users for 4 seats suffice, because the route lets a user
join twice, which is what fills a room. A send that is overtaken takes one
socket it has visited, one it has not, and one that arrives. The message limit
is checked past a full deque that expires twice (7 ticks, windows of 3). Three
connections let two calls of one surround a call of another, which is what
writes back an old document. The spots are home, two squares of the outer
track, and two of the inner. In `backend`, 3 requests at a time fill a limit of
2 and overtake each other; 9 seconds are two windows and a bit, so a set
expires and fills again; a delay below the window is assumed by
`RequestLimitAssumption` (a pipeline that waits for a window and longer is a
broken Redis). Three rotations withdraw a key, publish it again, and withdraw
it. Three measured requests leave up to seven data points, so a flush has several
chunks of two, of which some may fail, and the second flush drains what ends
meanwhile. `MaxThrows` has a throw asked for in every
phase of the one before; `SettledFrames` and `LerpFrames` stand for 20 frames and
a quarter of a second, and only the order of their ends with the timeout matters.
Two waypoints are the shortest list with an advance and an end, and with three
places the next animation may begin where the last ended or elsewhere.
`MaxDice` bounds how often a player of the pygame version rolls again; two are
needed to have one left over when a pawn moves.

Everything else is finite because the code is. Symmetry is used in `online_play`
alone, which checks invariants only.

## 5. Fairness

- `StateMachine`: `WF_vars(Next)` only. Callers keep making some call, no matter
  which, and no roll is promised. `TurnRotates` therefore says that no sequence
  of throws keeps the turn for ever.
- `Engine`: weak fairness of `Play(roll)` for every roll, since `roll_cowries`
  draws from `SystemRandom`. A roll of 4 or 8 by a pinned player is a
  stuttering step when the only pawn stays, so fairness of `Next` would allow such
  rolls for ever. No order or frequency of the others is promised.
- `LocalGame`: rendering is weakly fair. The timeout fires when it is left
  alone for its delay, and every click that changes the state starts the delay
  again; so it is weakly fair *or* somebody clicks for ever on the pawns of one AI
  player that is to move (`ClickedForEver`), and `TurnRotates` has the same
  exception: without it TLC shows the turn kept by alternating two pawns. The
  human rolls, selects and moves on turns of a human, without which a game
  waits. Nobody is assumed to move an AI player's pawn, though the page allows it.
  A human who only selects own pawns for ever is excluded by the fairness of
  `MoveClick`, which stays enabled once a pawn is selected.
- `ClientSocket`: timers fire; a socket that connects or closes gets some answer,
  whoever closes it. Nothing is promised for an open one, and no success.
- `Cleanup`: each loop keeps running, with or without `broadcast_to_room`. It catches every exception and sleeps, and
  a killed replica is restarted. Faults are finite (`MaxFaults`), players are
  under no fairness.
- `Jwks`: time passes, and a request that has begun ends, by a failure perhaps.
  The call to Clerk has a timeout of ten seconds (`auth.py:125`). The Redis client is
  given none, so for the cache it is an assumption that Redis answers or the
  connection breaks. Nobody need send a request, and no rotation is promised.
- `Cowries`: React renders, the timeout fires and frames are drawn. No shell need
  come to rest, and no throw is promised.
- `PawnAnimation`: frames are drawn. `AnimationEnds` excepts an owner that begins
  animations for ever.
- `OnlinePlay`, `MCRealBoard`, and the other parts of `Backend` state safety only.

## 6. Disagreements between the code and what it says of itself

- `useWebSocket.ts:18` "disconnects on unmount". After a change of rooms the
  old socket's close event arrives with `_intentionalDisconnect` already
  cleared, starts a retry, and the retry overwrites `_ws`; the unmount closes
  only one of the two (`client_socket_unmount`).
- `WebSocketManager.ts:211` "After a reconnection, ask the server for a full
  state snapshot". The button resets the attempt counter first, so its
  reconnection counts as a first connection (`client_socket_recover`). With the
  retries only, the sentence holds: `RetriesRecover`.
- `tasks/cleanup.py:16` "the operation is idempotent". Two replicas can both
  close a room and write two audit rows (`cleanup_replicas`). No more than one
  per replica: `AuditTrail`.
- `tasks/cleanup.py:3` idle rooms "are automatically transitioned to
  `abandoned`", and `:186` "Notification failure must not abort the cleanup
  sequence". The import of `broadcast_to_room` (181) stands outside the `try` (183)
  and fails for every idle room on every pass; none is ever closed
  (`cleanup_idle`).

Met on the way, and not stated as a property of a run:

- `en.json` says that a roll of 1, 4 or 8 grants an extra turn, `engine.py`
  grants it for 4 and 8 only.
- `game_session.py:36-37` calls its use by several tasks safe without
  coordination; two calls that overlap lose one of the two updates. The model has
  the steps; the property stated is the weaker one that does hold.
- `connection_manager.py:26-29` says "at most one active connection" per player;
  `register` never looks for an older one.
- `routes/scores.py` passes Clerk's `sub` where rows hold the local id, so a
  history asked for by its owner is empty.
- `user_service.py:83-89` passes `event_metadata` and `score_service.py:82-89`
  `metadata_` to `AuditLog`, whose attribute is `log_metadata`
  (`models/audit_log.py:53`). Both raise `TypeError` every time: each erasure
  and each recording ends in its caller's rollback, although
  `tests/test_user_deletion.py` and `tests/test_score_service.py` expect commits.
  `_write_audit_log` of `auth.py` makes the same mistake and logs it, so no sign-in
  leaves an `auth.login` row.
- `auth.py:44-46` imports `get_db_session` from `database.py` and `User` from
  `app.models`, which export neither; nothing but `tests/test_auth.py` imports
  `auth.py`.
- Once these are repaired: `sync_user` updates by primary key a row that it
  has read earlier, and an erasure may commit in between; and without
  `CLERK_SECRET_KEY` (`user_service.py:126-132`) an erasure would commit with no
  call to Clerk at all.
- `CowriePhysics.tsx:71` "launching all shells": the shells stay kinematic after
  the first settle, so later throws do not fly.
- The exit button of the pygame version leaves a pending roll without movable
  pawns; back in the game neither a roll nor a click does anything
  (`OtherClick`).
- `room_service.py:57-58` says that `join_room` refuses a user who is already a
  player or a spectator; it tests for neither.
- `LimitHolds` is weaker than the documented 100 requests per minute: the window
  it speaks of is shorter by the time that a pipeline may run late.
- `metrics.py:138` "increments counters on every request": a request whose handler
  raises is neither timed nor counted, since `call_next` (154) raises too. And
  `:11` says that `main.py` calls `flush_metrics` every 60 seconds; nothing but the
  tests calls it.
- `rate_limit.py` lets a request pass when Redis fails, counts rejected requests,
  and counts two requests of one instant once.

## 7. Proofs

Eight modules hold the proofs: `Board_proofs` (turns, front pawns; used by
several of the others), `StateMachine_proofs`, `Engine_proofs` (with the pygame
version and the real board), `LocalGame_proofs`, `Client_proofs`,
`Cleanup_proofs`, `OnlinePlay_proofs` and `Backend_proofs`.

Between them they state every invariant and every action property of the passing
runs except `CountedOnce`, for all values of the constants that meet the assumptions. These are the
named `ASSUME`s of the modules, which TLC evaluates in every run that uses them:

- of a board: `BoardAssumption`, `HomesAssumption` (no path meets the start of
  another player), `TablesAssumption`, `RealBoardAssumption`;
- of the browser's game: `LocalGameAssumption`;
- of numbers and of values that must differ: `NoneAssumption`,
  `EngineAssumption`, `PygameAssumption`, `CleanupAssumption`,
  `ClientSocketAssumption`, `CowriesAssumption`, `PawnAnimationAssumption`,
  `RoomsAssumption`, `ConnectionsAssumption`, `SocketLimitAssumption`,
  `RoomSessionAssumption`, `AIAssumption`, `RequestLimitAssumption`
  (and `MetricsAssumption`, which no proof uses).

The bounds that cut behaviour in the runs (`Slot`, `MaxFaults`, `LastTick` and
the like) are constants too, so a theorem holds however large they are.

### The session

`StateMachine_proofs` proves, for every board that meets `BoardAssumption`,
every number of players and pawns:

- `TypeCorrect`: the type invariant.
- `Invariance`: the inductive invariant `IInv`, the conjunction of `TypeOK`,
  `PhaseInv`, `SoleOccupant` and `WinDeclared`.
- `SquaresHoldOnePawn` (`SoleOccupant`), `WinsAreDeclared` (`WinDeclared`).
- `NeverStalemate` (`NoStalemate`).
- `ImplementsRace` (`RaceSpec`): the refinement.

Why the strengthening is needed. `SoleOccupant` alone is not inductive:
`ApplyMove` takes any move that was offered, so one must know that the offered
moves are still those of the current position and roll; `PhaseInv` says so, and
says in which phases a pending result exists. `WinDeclared` needs it too: the
pending result must be that of the position as it stands, and `WinDeclared`
itself excludes that a finished player is on turn in "ROLLING". That capture
removes only the first enemy is harmless *because* `SoleOccupant` held before:
`ResolveCaptureExact` shows that then at most one enemy stands on an unsafe
square, and the positions left are those where all struck pawns are home.

No stalemate: the player to roll has not finished, so some pawn is short of the
centre; take the front one of those. With a one it moves to the next index.
No friend in play is there (it would be in front, `GreatestIndex`), unless the
next square is the centre, which is safe; and a one releases a pawn from home.

Refinement: `apply_roll` with moves is a stuttering step, without moves a
`Pass`; `apply_move` is an `Advance`; `confirm_move` stutters, because the
mapping already shows the turn and the winner that the pending result decides.

### The second engine

`Engine_proofs` proves the same kind of facts about `engine.py`, with the gate:
`TypeCorrect`, `Invariance`, `SquaresHoldOnePawn` (`SoleOccupant`),
`WinsNeedAKill` (`WinNeedsKill`, for a gate before the centre),
`PassingIsPossible` (`PassPossible`), `PinnedAtTheGate` (`PinnedOnlyAtGate`) and
`ImplementsRace` (`RaceSpec`). `IInv` is `TypeOK`, `SoleOccupant`, that nobody
without a capture is past the gate (`GateHolds`), and that `winner` names who
has finished (`WinnerKnown`).

- `apply_move` looks for an enemy without asking whether that pawn is in play.
  `HomesAssumption` (no path meets the start of another player) is what keeps
  pawns at home out of the search, and the centre's being safe keeps finished
  ones out. The real tables have both.
- `apply_move` checks no friend. A move that was listed excludes one; a pass
  must be by a pawn that stays, and then `StayingStrikesNobody`.
- A pass is possible: without a legal move, the front pawn short of the centre
  must stay where it is, since the square in front of it cannot hold a friend.
  If it stays for *every* roll, a one included, only the gate can be the reason.
- Every `apply_move` of a listed pawn is an `Advance` of `Race` and every other
  one a `Pass` or a stutter. What the proof needs beyond `IInv` is that
  `get_possible_moves` lists exactly the free moves (`FreeIsListed`), although
  its set of friendly squares also holds pawns at home and in the centre.

### The pygame version and the real board

`Engine_proofs` also proves `OverviewStaysTruthful` (`OverviewTruthful`) and
`InnerPathIsEarned` (`InnerNeedsKill`) for any board and dice. The flags and the
list of movable pawns do not matter for either; of the loop over the dice
nothing is used but that it moves no pawn. `OverviewTruthful` is inductive only
with `SafeUnlisted`: if the overview named a pawn on a safe square, that pawn
would be sent home there and stay in the overview. A captured pawn was named at
the square of the capture only, because the overview was truthful, and there the
mover takes its place. `kill` of the pawn's own color decides whether it passes
the gate, whichever color the list was made for.

`OuterSquaresUntilKill` (`OuterUntilKill`) joins two things that the code keeps
apart: `engine.py` holds a player without a capture at an *index*
(`GateHolds`), and `board.py` lists *squares*. That the first twenty-five
squares of each table lie outside the inner five by five is `TablesAssumption`,
which TLC evaluates on the tables as they are written. The runs of `real_board`
have two players with a pawn each; the theorem has up to four, and any number of
pawns. `RealBoardSafe` has the promises of both programs there, with the
refinement of `Race`.

### The game in the browser

`LocalGame_proofs` proves `GameTypes` (`TypeOK`), `SquaresHaveOneOwner`
(`OneOwner`), `MovingNeverStuck` (`MovingHasMove`), `CountsDecideTheEnd`
(`FinishedCounted`) and `OnlyValidMoves` (`MovesAreValid`). `GameInv` has two
parts. `Good` is what `engine.ts` keeps true of a state; `Fits` is what makes a
waiting update right for the state it will be applied to.

- A pair is not captured. The mover does not land on one because `CanMove` counts
  *all* enemies on the square, so at most one is there, and that one is sent
  home: afterwards the square has one owner (`OneOwner`). On a square of his own
  a player's pawns may stack.
- `finishedCount` is raised by one where one more pawn leaves the board: the
  mover was not among the finished (`Home`), because a valid move is by a pawn
  short of the end, and a captured pawn is sent home from an index on the path.
  The game is over for the player on turn only, which is what makes the second
  half inductive.
- `Fits`: the timer holds the move chosen in one render. A click in between
  clears it, since every change is rendered and the effect's cleanup runs; an
  update that was queued before the click is applied first. So the state of
  the timer's update is the rendered one (`Fits(timer, game)`). A queued roll
  meets no click, for on an AI player's turn the page offers none; a click after
  a queued move finds another phase and does nothing (`ClickRendered`).
- `MovesAreValid` follows with the invariant: a change of the pawns is by
  `ExecuteMove` with a move in `ValidMoves` of the state it was applied to, or by
  a new game.

### The client's connection and the animations

`Client_proofs` proves `NoSocketLeaks` (`OneLiveSocket`), `StateShownIsTrue`
(`ShownIsTrue`) and `RetriesAskForASnapshot` (`RetriesRecover`) for any number
of sockets, rooms and attempts. The handlers do not know which socket called
them, so the invariant has to say of *every* socket what it may be:
`InSession` ties the state shown to the one socket that is not free (open, or
being closed by the server, while "connected" is shown) or to the one armed timer, and `BetweenSessions` leaves nothing but closing sockets, whose
events find `_intentionalDisconnect` set. No timer is ever lost then
(`lost_timers = 0`). All of it holds only while no session began on top of an
older one (`overlapped`); what happens otherwise is `client_socket_unmount`.
`SettledOncePerCycle` (`SettledOnce`) is proved for any number of throws and
frames: what keeps the timeout from a second call is the mark that the first
one leaves, not the rendering, which may come later.
`CompletionsAreOwed` (`CompletesOnce`) is proved for any waypoints and frames. The
invariant `PawnInv` adds that the index is short of the list while the animation
runs: so the branch for an index past the end (84) is never taken, and the report is
made on the last waypoint. `ClientSafe` has the promises of all three.

### The cleanup

`Cleanup_proofs` proves for any set of replicas, any rooms and any number of
faults `TypeCorrect`, `AuditTrailHolds` (`AuditTrail`) and `KeysOutliveTheRoom`
(`DeletedAfterCommit`). The bound on audit rows is not inductive: a replica that
has selected a room will write a row whatever the others have done meanwhile.
`IInv` therefore counts such replicas (`Committing`) together with the rows. A
replica joins them only while the room is not abandoned, when there is no row
yet; each row written takes one replica away.

### What a process does for a room

`OnlinePlay_proofs` has one section per part, each with an invariant of its own,
and `OnlinePlaySafe` for the parts beside each other (`PartsFollowed`: a behaviour
of the whole is one of each part).

- `RosterStaysConsistent` (`RosterConsistent`). Seats are counted, not kept: the
  invariant adds that no seat is beyond the number of players
  (`Roster`), so that the next one is new, and the color with it.
- `EveryMessageSentOnce` (`SentOnce`), for any sockets, players and sends. The
  invariant says of each send where things stand in the list it iterates over:
  what it has reached lies before its position (`Reached`), what it still owes
  lies at or behind it (`Awaited`). A registration makes the list longer at its
  end; a deregistration gives the registry another list and leaves the send its
  own. No socket stands twice in a list (`Listed`), since each registers once.
- `WindowBoundHolds` (`WindowBound`), for every limit and window. The deque is the
  end of the list of all messages let through (`DequeInv`), the rest of which is
  old; a message is more than a window later than the one `RateLimit` places
  before it (`Spaced`); so a window holds at most `RateLimit` of consecutive
  places. The clock may stand still, which is why places and not times are
  counted.
- `MovesStayInOrder` (`MovesInOrder`), for any number of calls. Not only the
  stored document but every document that some call has read is sound, and has
  no move from the call in progress (`CallOK`): whichever is written back, the
  move appended to it is the newest of its connection.
- `AIAnswerFits` (`AnswerFits`), for every position and every roll, on any board with
  the real length of path. `CaptureOutweighs`: a capture counts 20 times 2400, and of
  progress and release, with 15 and 12 times at most 2400, a move has only one.

### The request limit

`RequestLimitHolds` (`LimitHolds`) is proved for any number of requests at a
time, any limit, and any delay shorter than the window. The set in Redis does
not hold everything that passed: clocks that are ahead have trimmed it, and the
key may have expired. The invariant says what is missing (`StillCounts`): an
instant more than a window old, or one exactly a window old that a request of
this very second evicted, which is then itself in the set. So a late pipeline
that misses one instant of its window finds another in its place
(`PassingKeepsLimit`). `BackendSafe` is the same for the whole of `Backend`.

### Only model-checked

- Liveness (`TurnRotates`, `RetriesEnd`, `ThrowAnswered`, `AnimationEnds`,
  `KeysDeleted`, `RotationSettles`): the prover handles neither fairness nor
  `ENABLED`. `Jwks` states nothing else and so has no theorem.
- `CountedOnce` of `Metrics`, which is an invariant and left to the plan.
- The four violations of section 6, which are counterexamples.

No module uses `RECURSIVE`, and no statement needs induction over data.

## 8. Not modelled

- `server/app/redis.py`: connecting, retrying at the start, and a health flag that
  nothing but the health route reads. A failing call is in the models of its
  callers.
- `game/session.py`: data classes and serialisation without control flow.
- The dispatch of game messages in the client, and the order of deltas and
  snapshots: no server sends them yet. The endpoint's handlers are stubs that
  log, so no module claims how they will call the services.
- Queries that only read (leaderboard, history, audit list), schemas, models,
  configuration and wiring.
- Sign-in (`sync_user`, the login audit), erasure (`user_service.py`,
  `routes/users.py`) and the recording of scores (`score_service.py`): at this commit
  none of their transactions can commit (section 6), so there is nothing that
  could interleave. The plan has them for when they can.
- Rendering, pages, the 3D scene, chat, sound, translations, wording, logging.
- Deployment and load tests; `k8s/deployment.yaml` gives the number of replicas.
