# Formal models of koom-calls-server

TLA+ specifications of the server in `src/` (NestJS: HTTP API for calls,
Socket.IO signaling, presence, OAuth), model-checked with TLC on small
instances, with proofs checked by TLAPS. `PROJECT.json` maps every definition
to the lines it models and lists the runs, the deliberate mistakes ("mutants")
each property is tested against, the hazards, the findings and the theorems.
Source paths below are relative to `src/src/`.

## The system

| component | state it keeps | operations | hard behaviour |
|---|---|---|---|
| call service (`calls/calls.service.ts`) | calls, index room code -> call, journal of events; in memory | createCall, invite, accept, join, leave, end, lookups | codes freed and reused; retries; what each status still allows; journal and state written apart |
| calls API (`calls/calls.controller.ts`) | none | lookup by id or code, one service call per request, TURN and SFU tokens | a retry resolves the code again; token signed across an await |
| signaling rooms (`signaling/signaling.gateway.ts`, `room.registry.ts`) | per process: call -> sockets; in Socket.IO, over all processes: rooms | peer:join (async), peer:leave, disconnect, call events, invitations | a socket closes during an await; two joins interleave; several calls per socket; several processes |
| event bus (`signaling/calls-event-bus.ts`) | none | isParticipant, onCallEvent | interface only: answers at once or through a promise; the implementation wired today refuses |
| signaling rate limit (`signaling/rate-limit.guard.ts`) | fixed window per socket | tryConsume | window boundary; buckets never removed |
| presence (`presence/`) | sockets per user and per call with time-outs; in memory or in Redis | markOnline, markOffline, whoIsOnline, trackCall, untrackCall | expiry against refresh; the two implementations differ |
| security rate limiter (`security/rate-limit.service.ts`) | token bucket per scope and key | acquire, reset, sweep | sweep against refill; clock |
| session and WebSocket tokens (`auth/ws/ws-token.service.ts`, `auth/jwt.strategy.ts`, `signaling/jwt-ws.middleware.ts`) | ids of unused tokens, with their end | signSessionToken, issue, consume, sweep, the guards of routes and handshake | used twice; expiry against sweep; two readings of the clock; restart |
| accounts (`auth/auth.service.ts`, `auth/users.repository.ts`) | table `users` in PostgreSQL | upsert after an OAuth login, anonymous login, session token | concurrent first logins against the unique indices; a login that fails half way |
| OAuth logins (`auth/auth.controller.ts`, `auth/providers/google/`) | two cookies and the session cookie in the browser | start, callback, logout | several popups share the cookies; links opened elsewhere or twice; lost responses |
| LiveKit health (`media-provider/livekit-health.controller.ts`) | rooms on the LiveKit server | probe: list, create, delete | probes at once share a room; failures and stops leave it behind |
| TURN credentials (`turn/`) | none | generateCredentials | what is signed against what the relay checks |
| SFU tokens (`sfu/`) | none | token | outlives the call |
| observability, notifications, configuration, plumbing | counters, logs | | nothing reads them back |

Clients use HTTP to create, enter and end calls (call service) and a WebSocket
to meet the peers of a call (signaling). The two halves are meant to be joined
by the event bus: the gateway asks `isParticipant` before it lets a socket into
a call. `signaling.module.ts` binds the bus to `NoopCallsEventBus`, which
refuses everybody, so at this commit nobody gets past that question; the gateway
is modelled against the interface, whose answers it must be prepared for.

A login leaves a session cookie or token, which guards the routes; a route gives
out short tokens for the handshake of the WebSocket. The gateway's middleware
verifies such a token but does not consume it: `consume` has no caller in the
server. Presence and the security rate limiter are exported without a caller,
too. All three are modelled against every caller their interfaces allow.

What makes each modelled component correct:

* call service: a room code leads to a call exactly while the call is open; the
  journal and the served state tell the same story; an end happens once and is
  final except for leaving; a private call is entered by invitation only.
* calls API: a request that is repeated does what it does once, and to another
  call than the one meant only where a code was freed; a token says that its
  holder was in an open call at the moment it was asked for (the code does not
  look again after signing it, and neither does the property).
* signaling rooms: peers of a call on one process know of each other, of two
  peers on different processes one knows of the other; who leaves or closes is
  known to nobody any more (`PeerMesh` says it as one specification), except
  for the ghosts of finding 1; the registries and the rooms agree; nobody is in
  who was never vouched for; closed sockets do not stay.
* call events and invitations: what is heard was recorded before, by users the
  bus vouched for, in the order of acknowledged sending; an invitation reported
  as delivered is delivered.
* presence: a bucket is emptied at its time-out, not before and not never; who
  was marked offline stays so; both implementations do the same.
* rate limiters: a key's budget holds in any period, whatever is swept and
  wherever the clock goes; waiting as told is enough; only the busy are refused.
* tokens: a WebSocket token is consumed at most once, and until its end nothing
  but a restart keeps it from that; no chain of tokens outlives the login it
  goes back to.
* accounts: one user per account, whoever logs in first and however often at
  once; who holds a session token has a row with the time of a login (`Directory`
  says it as one specification).
* OAuth logins: a browser is signed in only by a popup it started, and the
  page of a login, successful or not, returns where that login, not an earlier
  one, asked.
* LiveKit health: a probe's room is left behind only by a failure or a stop.
* TURN credentials: the relay accepts them (it does not, finding 6).

## Modules

| module | what it is |
|---|---|
| `CallLifecycle` | abstract: what the call service promises, without maps, per-participant statuses or journal |
| `CallsService` | the call service; refines `CallLifecycle` |
| `CallsServiceProofs` | theorems about `CallsService` |
| `CallsApi`, `CallsApiProofs` | the controller over `CallsService`: lookups, repeated requests, tokens, restart |
| `PeerMesh` | abstract: who is present in a call and whom each client sees, without handlers, registries or messages |
| `Signaling`, `SignalingProofs` | rooms of the signaling gateway, on any number of processes; refines `PeerMesh` |
| `CallEvents`, `CallEventsProofs` | call events and invitations over `Signaling` |
| `Presence` | abstract: buckets of sockets with one time-out each |
| `InMemoryPresence` | presence in memory with Node timers; refines `Presence` |
| `RedisPresence`, `RedisPresenceProofs` | presence in Redis, written by several processes; refines `Presence` |
| `Clock` | a clock that may be set back |
| `TokenBucket` | abstract: token buckets that always exist and are refilled every tick |
| `RateLimitService` | the security rate limiter; refines `TokenBucket` |
| `RateLimitGuard` | the signaling rate limiter |
| `RateLimitProofs` | theorems about both limiters |
| `Directory` | abstract: which user an account has, whose logins are recorded, and who is signed in |
| `Accounts` | logins of users against the table `users`; refines `Directory` |
| `OAuthLogin` | popups, callbacks and cookies of logging in with Google |
| `WsTokens` | session tokens and the one-time tokens for the WebSocket |
| `SignInProofs` | theorems about `Accounts`, `OAuthLogin` and `WsTokens` |
| `LiveKitProbe` | the health probes and the rooms they create |
| `TurnCredentials` | credentials for the relay, and what the relay checks |
| `Services` | the services that share only the clock, in one run |
| `ServicesProofs` | theorems about `InMemoryPresence`, `LiveKitProbe` and `Services` |
| `MC*` | TLC instances of the modules they are named after |

`Services` holds in-memory presence, both limiters, accounts, OAuth logins,
tokens and probes, to check them in one run. In the source none of them reads
or writes the state of another; the module takes that as given and builds it in
(`OthersOf`), so nothing it checks shows that they are independent. A behaviour
follows one service, chosen at the start, while the others stay as they began:
TLC looks at the sum of their states and not at the product. The lemmas
`SharesOfTheWhole` and `NothingLost` say that following a service takes
exactly the steps the service takes by its own specification, no more and no
fewer.

### CallsService

One action per method; Node runs each to completion, so each is atomic. A
method that throws changes nothing and is not an action; early returns
(`accept` of somebody who has joined, a second `end`) are stuttering disjuncts.
`calls` is a function to call records, a call's participants a function from
users to a status in which "absent" means "no entry". `events` is the set of
recorded events with their ids, `nextId` the store's counter. `CreateCall`
includes the loop over the invitees, which skips the creator and duplicates.
Timestamps, roles and event payloads are left out. `reserveRoomCode` is the
choice of a code that is not a key of the index; running out of attempts throws
and changes nothing.

The refinement maps a call's phase to its status, the roster to everybody with
an entry, `present` to those whose entry says "joined", and the directory to
the code index. The abstract `Close` removes *every* code that leads to the
call, the code deletes *one* code without looking where it leads; that they
agree is the invariant `CodeIndexExact`.

### Signaling

`peer:join` is cut at its awaits: `PeerJoin` (up to the question to the bus),
`BusAnswers` or `BusFails`, then `EnterRoom` (`registry.join` and the
synchronous part of `client.join`) or `Forbidden`, then `Welcome` (`peer:joined`
and the acknowledgement). While the bus is asked the process takes other
messages; from the answer on the handler awaits only settled promises, so that
its process is `Busy`: other joins may resume in between, disconnections and
`peer:leave` may not. `Disconnect` is Socket.IO taking the socket out of its
rooms followed by `handleDisconnect`; `PeerLeave` is `handlePeerLeave`,
including that it drops *all* registry entries and tells *one* room.

`registry` is per process; `rooms` spans the processes as the Redis adapter
makes it. `knows[s][c]` is what the client of `s` has been told: peers of the
acknowledgement and of `peer:joined`, less those of `peer:left`; it forgets a
call it leaves. `vouched` and `abandoned` are history variables. The bus is
external and unconstrained: it may answer either way each time, late or not at
all. Messages to a room reach connected sockets at once: delay and loss between
processes are not modelled. Requests refused before anything changes (rate
limit, payload, a foreign `from`) are left out, and so are `peer:reconnect` and
the `signal:*` and `sfu:*` events, which change nothing.

In `PeerMesh` a connected peer enters a call at one moment, is seen by every
connected peer there and sees at least those on its own process. Leaving a call
(`Leave`) and closing (`Close`) are one moment each, too, after which nobody sees the
peer in that call, or in any. The promise has a gap the size of finding 1: a
client that closed while it waited may still enter (`EnterGone`); it is then
seen like any other peer and never leaves.

The refinement puts entering at `EnterRoom`, before anything is announced. What
a connected client sees, `Sees(s, c)`, is what it was told and not told to
forget (`knows`), in addition the peers whose `peer:joined` is about to reach it
and, while `s` is itself `Entering`, the members its acknowledgement will list.
Whether the peers it sees are still connected plays no part: a departure that
`handleDisconnect` or `handlePeerLeave` did not tell would leave the peer in
sight, which `PeerMesh` forbids (the mutant `DisconnectSilently`). Present is whoever is
registered, closed or not (`There`), gone whoever has connected and closed
(`Gone`). All are restricted to `SingleCallers`, the sockets whose clients ask
for one call at most: a socket in several calls may be left in a room it is no
longer registered in (finding 2), and `PeerMesh` promises nothing about it.
What makes the mapping work is that from the bus's answer to the
acknowledgement the process takes no other event.

### CallsApi

A request names its call by id or by code and means the call its address leads
to when it is first sent. `SendRequest` is the request handled, lost, or
handled with its response lost; in the last two cases the client keeps it in
`unsure` and may `Repeat` it, any number of times, at the address it knows. The
synchronous handlers are one action each, `Perform` being the service's action
on the call found. `turnCredentials` and `sfuToken` do the same checks and then
await a signature: `AskToken` and `IssueToken`. `Restart` empties the service;
clients keep requests and tokens. There is no HTTP request to leave a call, so
`Leave` is absent here, which is what `RecordedOnce` rests on. `drawn` says that
`randomUUID` does not repeat.

### CallEvents

The five call events go through one handler: `SendEvent` (up to the question to
the bus), `EventAnswered` (the answer, the check and the call of
`onCallEvent`), `Broadcast` (after `onCallEvent`), or `EventFails`. An answer
and the step it resumes are one action, because nobody observes a settled
promise before its handler goes on. `emitCallInvite` loops over the invitees,
one question to the bus each: `InviteAnswered` is one turn. `UserRoom` is empty
because nothing in the server joins a socket to a room `user:<id>`.

### Presence

Users (`markOnline`) and calls (`trackCall`) have buckets that the code keeps by
the same statements twice; the models have one map over all of them (`Owners`
in memory, `Keys` in Redis). `Presence`
allows a bucket to be emptied when its time is over, at once or later.

`InMemoryPresence` keeps the timers apart from the entries that refer to them,
so that a timer which is not cleared would still run. Timers run late or on
time, never during a method, and follow `Age`, the time that really passed:
setting the clock back does not move them. The refinement is the identity on buckets and
entries; that a run timer is never stray is `OneTimerPerBucket`.

`RedisPresence` has a queue of commands per process. Redis executes a command
of the queue at once (`Execute`), the reply may come later (`Reply`), the
connection may break so that everything unanswered is sent again (`Resend`) or
given up (`GiveUp`): a command may run twice, with other processes' commands in
between. What Redis had not read from the old connection when it broke is taken
never to be executed; `OfflineStaysOffline` rests on that, since a mark read late
would come after the unmark sent on the new connection. A bucket is what
SMEMBERS would return now.

### Rate limits

`RateLimitService` refills a bucket when it is used and drops it when it has
been idle for five minutes; `TokenBucket` knows neither. The refinement maps a
key's level to what `acquireDetailed` would find now. Once the clock has been
set back buckets may hold less than they should, and `TokenBucket` allows that
but never more. `spent` and `since` watch a period that starts anywhere
(`Watch`). Tokens are whole numbers of a unit small enough for the code's
fractions. `RefilledBeforeSweep` (capacity at most five minutes' rate) holds of
the defaults but is not enforced by the environment's schema; without it
sweeping would give tokens away.

`RateLimitGuard` counts a socket's messages in windows that open with a message;
`passes` remembers when the latest ones passed.

### Accounts and OAuthLogin

`Accounts` cuts `upsertByProvider` at its awaits: `Find`, `Insert`, `Save`, then
`Sign`. `save` writes the whole row in one step: TypeORM reads the row again by
its id and updates the columns that differ, and nothing else changes a row or
deletes one, so an update of a row that vanished does not occur. The table
refuses what its primary key and its two unique indices forbid (`Conflicts`);
a refused, failed or interrupted login is `Fail`, and what it has written
stays. Rows keep what indices and properties look at. That `randomUUID` and a
guest's random digits do not repeat is assumed (`FreshIds`, `SignInAnonymous`).

`Directory` knows no table, rows or awaits: an account is enrolled once, with a
user that no other account has; a login is recorded of an enrolled user; only
such users are signed in. The refinement reads `enrolled` off the rows (account
and id) and `visited` off those with a `lastLoginAt`. `Insert` enrols, `Save`
records a login, `Sign` signs in, and everything else is a stutter.

`OAuthLogin` is the browser's side of the same login. `begun` lists the popups,
a popup's state parameter is its number. The request to the callback brings
the cookies the browser has at that moment (`GoogleCallback`); the response
changes them when it arrives (`Respond`), which may be after another popup has
set its own, or never. Google is external: it exchanges a popup's code once
(`redeemed`), and may refuse. Every page of the callback posts the target it
found in the return cookie, the pages of failures included (a state that is not
the browser's, "mismatched"; declined or refused with the browser's own state,
"refused"), and `ReturnsWhereAsked` is about all of them. `SignIn`
stands for the whole of `Accounts`.

### WsTokens

`held` are all tokens ever given out, `pending` is the service's map `used`,
which in spite of its name holds the tokens *not* yet used. `issue` reads the
clock once for the map and again in `jwt.sign`: the second reading may be a
tick later. `EntersHttp` is `JwtStrategy`, `EntersSocket` is `JwtWsMiddleware`,
which accepts session tokens as well. A restart forgets the map, not the
tokens.

### LiveKitProbe and TurnCredentials

A probe lists, creates and deletes, one request to LiveKit each; a request may
be refused, or executed although the reply is lost. The room's name is the time
of the probe, so probes at once, and one after the clock was set back, share a
room. `excused` remembers rooms that a lost reply, a failed delete or a stop
left. `TurnCredentials` has a signature be the record of what was signed, so
that two are equal just when what they sign is; the relay is external, as
`src/coturn/turnserver.conf` configures it.

## Runs

| run | instance | result |
|---|---|---|
| `calls` | 3 users, 2 calls, 2 codes, journal of at most 6 events, invitee lists `<<>>`, `<<u1>>`, `<<u1, u2, u1>>` | passes; about 577 000 states |
| `calls_api` | 2 users, 2 calls, 1 code, at most 5 events, 1 unsure request, 1 token, 1 restart | passes; about 1 034 000 states, users and calls being symmetric |
| `signaling` | 2 processes, 1 call, 3 sockets: two of one user on one process, one of another user on the other | passes; about 146 000 states |
| `signaling_ghost` | 1 process, 1 call, 1 socket | `NoGhosts` violated |
| `signaling_two_calls` | 1 process, 2 calls, 2 sockets | `RoomsAgree` violated |
| `signaling_two_processes` | 2 processes, 1 call, a socket on each | `PeersKnowEachOther` violated |
| `call_events` | 1 call, 2 sockets of 2 users, 2 events of one sender, an invitation of both users | passes; about 2.8 million states |
| `invite_undelivered` | the same without events | `DeliveredIsInvited` violated |
| `presence_redis` | 1 key, 2 sockets on 2 processes, time-outs 1 and 3, 4 ticks, 4 calls | passes; about 613 000 states |
| `presence_who_is_online` | 2 keys, 2 ticks, 2 calls | `WhoIsOnlineTellsAll` violated |
| `services` | presence: 2 buckets, 2 sockets, time-outs 1 and 3; limiter: 1 key (capacity 2, rate 1, swept after 2), costs 1 and 2; guard: 1 socket, 2 messages per window of 2; accounts: 2 logins at a time, 2 Google accounts, 1 guest, 1 e-mail, 3 ids; OAuth: 2 browsers, 2 popups, 2 callbacks at a time, 2 targets; tokens: 3, lasting 2 and 1, 1 restart; 2 probes; 5 ticks, clock set back once | passes; about 633 000 states |
| `turn_refused` | 1 user, 1 call | `CredentialsAccepted` violated |

Bounds. Two calls and two codes are enough for a code to be freed, drawn by the
other call and threatened by a second end of the first; three users give a
call its creator, an invited user and a stranger; six events
(`MaxEvents`, a guard on every action that records) cover creating, entering,
leaving and ending one call with something happening in the other. `CallIds`
and `Codes` are symmetric (safety only). Three sockets, two of one user, give
two members and a newcomer, peers on one process and on two, and the registry's
second way in; sockets are never
reused, as Socket.IO never reuses ids, so the model ends when all have come and
gone and deadlock is not checked. Sets in flight collapse identical requests of
one socket for one call, which are indistinguishable. With one call every
socket is in `SingleCallers`; that sockets in several calls beside them change nothing
of `ImplementsMesh` is left to the theorem.

In `calls_api` one code for two calls makes every reuse of a code happen: the
first call ends or is forgotten, the second draws its code, and a repeated
request strays; one request, one token and one restart suffice because every
property speaks of one of each. `MaxUnsure` and `MaxTokens` bound sets, older
tokens making room for newer. In `call_events` two events of one sender are what
an order needs, and the invitation of two users lets a later turn of the loop
fail after an earlier one was reported. Time-outs of 1 and 3 ticks in 4 or 5
let a short mark overtake a long one and a mark come after an expiry; one bucket
of two sockets on two processes is what repeated commands can disturb, and four
calls let one process go offline after two marks while the other marks. A
bucket that is full again exactly when it may be swept, and a clock set back by
one, are the boundary cases of the limiter; more than two windows of the guard
fit into the time. Two logins race as three would: the indices compare two rows,
and the third id lets a row be inserted between. Two popups in two browsers can
share a browser's cookies or cross. Three tokens are a session token and two
chained to it, or two logins; one probe can find another's room.

Fairness. `signaling` assumes `WF` of resuming a handler the bus has answered
(`Resume`), which Node's microtask queue guarantees. `services` assumes
that time passes in the behaviours that follow presence, and that Node runs each
timer that is due (`ServicesFairness`), which its event loop does as long as no
method blocks it; only `ForgottenInTheEnd`, about presence, uses that, and
everything else the run checks is safety. Nothing is assumed of the bus, the clients,
Redis or the network, so no property says that a request is answered before the
bus has, or that a command is ever executed.

The properties are stated in words above their definitions. Each property of a
passing run is violated by at least one plausible bug kept next to the code it
replaces (the definitions marked "wrong"). `calls_api`, `call_events` and
`presence_redis` check safety only; deadlock is not checked where sockets, time,
calls or the journal run out.

## Findings

1. `signaling_ghost`: `handlePeerJoin` registers a socket that closed while the
   bus was asked; nothing removes it. (`OnlyAbandonedGhosts`, proved, says that
   there is no other way for a closed socket to stay.)
2. `signaling_two_calls`: `peer:leave` of one call silently unregisters the
   socket from its other calls.
3. `signaling_two_processes`: peers on different processes are not told of
   those who came before, contrary to the two-instance test of
   `back/README.md`.
4. `invite_undelivered`: invitations are sent to a room nobody ever joins and
   reported as delivered.
5. `presence_who_is_online`: asked about several users, the Redis implementation
   reads one count as the first user's answer and never names the others.
6. `turn_refused`: what the server signs is not the username it hands out, so
   coturn, configured to compute the password from the username, refuses every
   credential.

## Proofs

`CallsServiceProofs`, for any sets of users, calls, codes and invitee lists
(the assumptions in `CallsService`: a null value, lists of users, a natural
bound):

* `TypeCorrect`: `TypeOK` is inductive. The one non-trivial step is
  `CreateCall`, where ids are ranks in the set of positions the loop acts on,
  hence natural numbers (`FreshFinite`).
* `CodeIndexCorrect`: with `TypeOK`, `CodeIndexExact` is inductive. Steps that
  move participants keep a call open and its code (`MoveKeeps`); `End` needs
  the old invariant to know that the deleted entry was the call's own.
* `LifecycleImplemented`: every step maps to a step of `CallLifecycle` or
  leaves the mapped state alone; uses `CodeIndexExact` for `Close`.
* `JournalReplays`, `EndIsFinal`, `PrivateEntry`: one invariant (`JournalInv`)
  tells a call's whole story (`StoryOf`): what the journal holds of each
  participant, of the status and of the end, that ids grow, and that a
  participant of a private call was invited first. A step appends to the story
  of one call and leaves the others' alone. `EndIsFinal` needs that an end is
  recorded only of a call that is ended by then (`EndIsRecorded`), and that no
  ended call is entered.

`CallsApiProofs`, for any users, calls, codes and bounds:

* `NothingRecordedTwice`: nobody leaves over HTTP, so that everybody whose
  entering is recorded is still inside (`OnceInv`); entering again is then a
  stutter, and `End` finds the call ended. Rests on `JournalInv`.
* `StraysOnlyByCode`: a remembered request means a call its address led to
  (`Meaningful`), and a code leads to its open call only (`CodeIndexExact`);
  ids are not drawn twice (`DrawnOnce`), also across restarts.
* `TokensEarned`: what was checked when the token was asked for is in the
  journal, with ids below `asked`; nothing that follows changes it
  (`TokenFits`).
* `ServiceSurvives`: a restart empties journal, calls and index together, and
  every other step is one of the service, so `JournalInv` and `CodeIndexExact` hold
  over HTTP too. `ApiSpec` does not imply `CallsService`'s specification, because of
  the restart.
* `ApiKeepsLifecycle`: every step but a restart is one of `CallsService` on the
  call the address leads to (`ApiIsStep`), hence of `CallLifecycle`; a restart
  takes the life cycle to its initial state (`RestartBegins`).

`SignalingProofs`, for any sockets, users, calls and processes:

* `SignalingTypeCorrect`.
* `MembersVouchedFor`: strengthened by "a handler past a yes carries a vouched
  user"; the registry's way in is covered by the invariant itself, since the
  member already inside is of the same user.
* `GhostsWereAbandoned`: strengthened by `Placed` (a socket is registered only
  at its own process, so `handleDisconnect` sees every entry) and "the handlers
  of closed sockets are abandoned joins".
* `SinglesInTheirRooms`, about the sockets whose clients ask for one call at most
  (`SingleCallers`; finding 2 shows that the others must be left out), whatever
  the others do: rests on `Base`, that a socket that has not connected is nowhere
  and that a socket is only in calls its client asked for, so that the one room
  `peer:leave` empties was the only one (`OnlyRoom`). `RoomsMatchRegistries` is its
  corollary when no client asks for two calls on one socket (`OneCall`), as in
  the run.
* `NoPeersMissed` (`PeersMeet`), any number of calls and processes: strengthened
  by "a registered connected socket is in the room", which is where `peer:joined`
  goes (`PeersInv`): whoever settles later was announced to the other, and was
  given it by the registry if they share a process. `MutualKnowledge` is its corollary for one process
  (`OneProcess`; finding 3 shows that it is needed).
* `SinglesNeverStale`, about peers that keep to one call: strengthened by "who knows somebody is
  connected and in the room", where `peer:left` goes, and by "a handler about to
  announce its socket still finds it registered", which is what `Busy` gives; both
  hold of every socket. `NoStalePeers` is its corollary under `OneCall`.
* `MeshImplemented`, with no condition on the clients: with the invariants above
  (`MeshInv`), nobody sees a peer that is not registered, and only connected
  clients in the room see anybody (`SeenPresent`), so that a departure, which
  `peer:left` tells the room, leaves no trace in what anybody sees (`MeshDisconnect`,
  `MeshPeerLeave`); entering changes what everybody sees at once (`MeshArrived`,
  for a socket that is connected and for one that has closed), and announcing
  and acknowledging it later changes nothing any more (`MeshWelcome`). The other steps, and all that sockets
  in several calls do (`MeshUnseen`), are stutters, or vouch for a user.

`CallEventsProofs`, for any sockets, users, calls, messages and invitations:

* `EventsTypeCorrect`, which includes that no message is recorded or heard
  twice: how far a message's handler is tells which logs may hold it
  (`Progressed`).
* `HeardAfterRecorded`, from `Progressed`: who broadcasts has recorded.
* `OnlyVouchedAct`: on top of `VouchedInv` of `SignalingProofs`; a room holds
  vouched sockets only (`RoomsVouched`), which is why the registry may be asked
  instead of the bus.
* `AcknowledgedFirst`: the acknowledged one is in no log again (`AckedInOrder`).
* `RoomsUndisturbed`, `SinglesUndisturbed`, `EventsImplementMesh`: what is proved of the rooms holds
  with events and invitations in between. A step of `CallEvents` is one of
  `Signaling` or only asks the bus (`RoomsStepOrAsked`), which may vouch for a
  user that no `peer:join` asked about: `EventsSpec` does not imply `Signaling`'s
  specification, but the invariants survive (`AskedKeeps`), and in the mesh that
  is `Vouch`.

`ServicesProofs`, for any owners, sockets and time-outs:

* `OneTimer`: `OneTimerPerBucket` is inductive together with the type invariant;
  entries and buckets are absent together.
* `MemoryImplementsPresence`: uses it where a timer runs: the entry it empties
  is its own, so the time is over.

for any number of probes:

* `ProbesCleanUp`: `LeftoversExcused` is inductive with the shape of the probes;
  a probe that goes on answers for no room but its own (`OthersAnswer`).

and for the run that puts the services together:

* `ServicesTypeCorrect`: by the lemma `SharesOfTheWhole`, which gives each service
  its own specification (a step of another is for it a stutter or, when the issue
  of a token reads a later second, a tick), from the type theorems of the
  services. `NothingLost` is the converse, step by step. That the services do not disturb each other
  is an assumption of `Services`, and what is proved of each is stated of each.

`RedisPresenceProofs`, for any number of processes, sockets and calls:

* `RedisTypeCorrect`.
* `LastCallDecides` (`OfflineStaysOffline`), strengthened by three facts: every
  command waits at its socket's own process (`SentFromHome`), the last waiting
  command of a socket is its last call (`LastIsIntent`), and after the last
  execution of a socket's command its key says what that command said
  (`ExecutedIsEffective`). Other processes write the bucket but not this socket.
* `RedisImplementsPresence`: every execution is a step of `Presence`; a tick
  expires exactly what is due.

`RateLimitProofs`, for any keys, limits and costs under
`ServiceAssumption` and `RefilledBeforeSweep`:

* `ServiceTypeCorrect`.
* `BudgetKept`: strengthened to "spent plus what the bucket holds is within the
  budget"; a sweep keeps it because the bucket was full again.
* `RetryAfterCorrect`: strengthened to what the bucket will hold at `retryAt`,
  with the inequality of rounding up.
* `LimiterImplemented`: every step is a step of `TokenBucket` or a stutter.

The products of rates and times are dealt with by lemmas of their own
(`Products`, `ProductsGrow`), cited where needed.

For the guard, with any sockets, allowance and window:

* `PassesBounded` and `RefusalsJustified`: the invariant (`Windows`) says which
  of the remembered passes opened the current window (`Opened`), that it is
  later than what passed before the previous window by a window's length, and
  that the clock's reading then differs from the real time by at most what the
  clock was set back.

`SignInProofs`, for any logins, accounts, ids, browsers, popups, tokens:

* `AccountsTypeCorrect`, `OneUserPerAccount`, `SessionsLeadToLogins`:
  strengthened by "rows differ in id and account", which the indices give, and
  "a login past `Find` or `Insert` knows its row" (`KnowsRow`); both survive
  other logins because the table only grows (`TableGrows`).
* `DirectoryImplemented`: with the same invariant, every step is one of
  `Directory` or a stutter. `OneUserPerAccount` (`SameUserEachTime`) is what clients
  rely on; the run checks the refinement, which says more.
* `OnlyOwnLogins`, `ReturnsAsAsked`: the state cookie of a browser, what a
  callback that has compared it remembers, and the session it sets all come
  from a popup of that browser (`OwnPopup`), with the target it asked for, or
  none; any other target in a cookie or on a page was asked for by some popup of
  the browser (`AskedBy`).
* `ConsumedJustOnce`, `EntryEndsWithLogin`: names are given out once
  (`NamesDiffer`), an entry lasts as long as was announced (`GoodAsAnnounced`,
  `EntryKept`), is gone once consumed (`EntryTaken`), and a token's end is
  bounded by its login (`EndsByLogin`).

Model-checked only: the liveness properties `AdmittedIsAnnounced` and
`ForgottenInTheEnd`, since liveness under fairness is outside what TLAPS proves
here. Every other property of a passing run is stated by a theorem; the
violations of the findings are TLC's.

## Plan

Built so far, in this order: the call service and its life cycle, signaling,
call events, presence, rate limits, the calls API, then accounts, OAuth logins,
tokens, probes and TURN credentials, and the proofs about all of them; then the
abstract `PeerMesh`, its refinement by any number of processes with and without
call events, the run of the services together, and the directory of users. What
could follow:

1. The composition of `Accounts` with `OAuthLogin`, whose `SignIn` stands for it.
2. What the gateway keeps of its promise for sockets in several calls
   (finding 2): `MeshImplemented` leaves them out.

## Not modelled

* Observability (`observability/`): counters filled from what clients report of
  their calls and printed as text; no decision reads them.
* Notifications: a placeholder that logs.
* Payload validation (`signaling/dto/`), reading requests, audit log, logging,
  error filters: stateless, or output nothing reads back.
* Configuration: read once at the start.
* `WsAuthMiddleware`, `WsJwtGuard` and `AuthService.startOAuth`: nothing calls
  them. `smoke-call.js` is a client.
* Signing and verifying themselves, Google, PostgreSQL, Redis, coturn and
  LiveKit beyond what the code relies on: external.
* Attributes of cookies, and headers.
