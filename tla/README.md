# Telethon: specifications, model checking and proofs

TLA+ modules for the parts of Telethon where order, concurrency and failure
decide whether the library is correct: the update state machine, the MTProto
sender and its connections, message ids and clocks, the senders borrowed for
other data centers, and conversations.  TLC checks them on small instances; TLAPS
proves the central invariants of all five for every instance.

Paths are relative to `src/telethon/`.

## 1. The system

Telethon is an asyncio client of Telegram's MTProto API.  One event loop runs
all its tasks; they interleave only where one of them awaits something that
really suspends.

| component | state it keeps | operations | talks to |
|---|---|---|---|
| `MessageBox` (`_updates/messagebox.py`) | pts per entry with a deadline, possible gaps, entries whose difference is pending, next deadline, seq, date | `load`, `session_state`, `process_updates`, `check_deadlines`, `get_difference`, `apply_difference`, `get_channel_difference`, `apply_channel_difference`, `end_*` | called by the update loop only |
| update loop, keepalive loop (`client/updates.py`) | `updates_to_dispatch`, `_updates_queue` | one difference request at a time, else one container at a time; a ping every minute; dispatch to handlers | box, sender, session, handlers |
| `MTProtoSender` (`network/mtprotosender.py`) | `_connection`, `_user_connected`, `_reconnecting`, `_pending_state`, `_ping`, handles of two loops, future `disconnected` | `connect`, `disconnect`, `send`, send loop, receive loop and its handlers, `_reconnect` | packer, state, `Connection`, updates queue |
| `MessagePacker`, `RequestState` (`extensions/messagepacker.py`, `network/requeststate.py`) | queue of requests; message id, container id and future of each | `append`, `extend`, `get` | sender |
| `MTProtoState` (`network/mtprotostate.py`) | session id, salt, sequence, last message id, time offset, recent remote ids | ids, encryption, filter of repeated messages | sender, packer |
| `Connection` (`network/connection/connection.py`) | `_connected`, queues of one packet each way, two tasks | `connect`, `disconnect`, `send`, `recv` | socket |
| exported senders (`client/telegrambaseclient.py`) | a sender and a borrow counter per data center | borrow, return, clean | sender |
| `_call` (`client/users.py`) | flood waits per request | retry, sleep, migrate | sender, `_switch_dc` |
| `Conversation` (`tl/custom/conversation.py`) | pending responses, replies, edits, reads, events | wait for each, with timeouts; fed by the dispatch of updates | update loop |
| voice transcription (`client/voice_transcription/`) | transcriptions, quotas, pending futures | request, follow updates, clean up | client, event handlers |
| the rest | | authorization key, codecs, sessions, events, crypto, parsers, generated API | |

What is hard in it:

* updates come from three sources (socket, differences, results of own
  requests), lost, repeated and out of order; every one must be handled exactly
  once, across restarts;
* deadlines are cached, and an entry may be forgotten while it is being fetched;
* three loops may find a broken link at the same time, and a reconnection has to
  replace the other two loops and lose no request;
* user code may cancel, disconnect and connect at any moment;
* futures are settled by handlers that see results late, twice or never;
* a disconnect, a failed attempt or an exception may come between any two steps.

`PROJECT.json` lists these hazards one by one, each at its line, with the
properties that would catch it going wrong.

### What makes each component correct

* MessageBox: no position is skipped or handled twice; a stashed update is kept
  until it is applied or fetched; no exception; silence is noticed; the account
  and every channel catch up in the end; a seq is acknowledged only when settled.
* Sender: a request somebody waits for is queued or pending, once; one pair of
  loops; connected means served, disconnected means closed; every request is
  settled; an answer only after an execution.
* MTProtoState and packer: ids and sequence numbers grow together, a message is
  handled once, no request is dropped silently, and whoever waits is told.
* Exported senders: none is disconnected while borrowed, idle ones are, a disconnect
  leaves nothing open, whoever asks is served or told.
* Conversation: no answer is given twice, none is skipped, nobody waits for what is
  there, and a cancellation reaches everybody.

## 2. The modules

| module | models |
|---|---|
| `MessageBox` | `MessageBox`, the update loop that drives it, the server that numbers the events |
| `MessageBoxProofs` | type correctness of `MessageBox` |
| `MessageBoxSafety` | its inductive invariant: no exception, consistency, silence is noticed |
| `MessageBoxChain` | no position is skipped, none is returned twice, no stashed update is dropped early, and a seq is taken over only when settled |
| `Rpc` | the promise of `send()`, which `Sender` and `MTProtoState` implement (property `Promise`) |
| `Sender` | `MTProtoSender`, `Connection`, the keepalive loop, the network and the server |
| `SenderProofs` | types, the refinement of `Rpc`, nothing twice, nothing lost |
| `SenderLoops` | one pair of loops, which serves; nothing left when disconnected; the ping |
| `ExportedSenders` | the senders of a client for other data centers, their counts and their lock; downloads, clean-up, `disconnect()`, `_switch_dc` |
| `ExportedSendersProofs` | types and the lock, counts, nothing pulled, everything closed |
| `MTProtoState` | ids, sequence numbers, clock, salt and filter of a session, with the packer and the corrections |
| `MTProtoStateProofs` | types, ids and sequence numbers agree, nothing is handled twice, nothing is lost, the refinement of `Rpc` |
| `Conversation` | the calls of a conversation and the part of a dispatch that feeds it |
| `ConversationProofs` | types, everybody is told of a cancellation, nobody waits for what is there, no answer is given twice, none is skipped |

The modules meet at their interfaces.  `Sender` treats a message id as an
identity and lets any requests share a packet; `MTProtoState` says which ids and
which packets these are, and treats a reconnection as one step, whose inside is
`Sender`.  `ExportedSenders` treats a sender as connected or not, and its
keepalive loop is the one that pings in `Sender`.  Both senders are shown
to keep the promise of `Rpc`, which is all that `MessageBox` (a difference is
answered or fails), `ExportedSenders` (an authorization is answered or fails)
and `Conversation` (a sending returns) use of them.

### MessageBox

*State.*  `map`, `left`, `next_deadline`, `gaps`, `gapLeft`, `getting` and `seq`
are the attributes of the box; `pc`, `batch`, `todo`, `touched`, `result` and `call` are the local
variables of `process_updates` and of the update loop; `req` is the request in
flight; `rows` are the rows that the session has for channels; `log` and `spts` belong
to the server.  `base`, `handed`, `passed`,
`jumped` and `twice` are ghosts: the pts an entry was made known with, and which
positions were since returned as an update, passed by a difference that does not
return them, or jumped over because the difference was too long.

*Steps.*  No method of the box awaits, so nothing interleaves with
`process_updates`; it is cut into one step per update (`ApplyNew`, `RetryGap`)
and one per pass (`EndOfPass`, `EndOfRetry`), which keeps each step readable and
lets a proof treat one update at a time.  The await of the model is the
difference request: while `pc = "wait"` the server emits, time passes, dialogs
may set a channel's pts (`TrySetChannelState`), the session may be saved (`Save`) and the client may be
disconnected and loaded again (`Load`).  The session's row of a channel is written only while
the box knows the channel, and never deleted: a reload brings a forgotten channel back with its
old pts (`SavedRows`).  The update loop's order is kept: a
pending account difference first, then channels, then deadlines, then a
container of the socket.

*Environment.*  The socket delivers any set of up to `MaxBatch` updates the
server ever emitted, at any time, again or never.  A difference answers
with the server's state at or after the moment it got the request, complete or
as a slice, empty, or too long; it fails up to `MaxErrors` times: the entry stays pending (an
`OSError`), the difference ends and the loop goes on, or it ends, the client is
disconnected and the loop ends with it (`pc = "stopped"`: logged out, or a misused session), until the user connects
again, with `catch_up` (`Load`) or without (`Reconnect`).

*Abstractions.*  The code compares absolute deadlines with the time of the event loop.  The model
keeps the time left until each of them, in ticks, 0 when it has passed: `Tick` is time passing, not
a statement of the code.  A gap is a set: two equal copies of an update in a gap are one
(the second pass drops the second copy).  `handed` includes the results of own
requests, which the update loop processes and does not dispatch.  A qts that
goes back to 0 in a live box is not modelled; one of 0 in a saved state is.
Forgetting a channel resets its ghosts: what a banned channel
misses is not a loss.

### Sender

*State.*  `userConn`, `reconnecting`, `conn`, `gone`, `queue`, `pending`,
`container`, `ping` and `session` are the attributes of the sender and its
helpers; `sl`, `held` and `rl` describe the send and receive loops of every
generation, `gen` being the generation the two handles refer to, so that loops
that should be gone can still be there; `rec`, `target` and `tries` describe any
number of `_reconnect` tasks; `crossed` remembers that a call of the user crossed what was in progress; `connecting` and `disconnecting` are a `connect()`
and a `_disconnect()` that wait for the network; `open`, `up` and `out` are the
Connections with their queue of one packet; `fut` are the futures of the users;
`replies` and `ran` belong to the server.

*Steps.*  A step runs from one await that suspends to the next.  A cancelled
loop ends as soon as it is waited for, before anything that waits for the network
goes on (`Calm`).  `BeginDisconnect` and `EndDisconnect` are the two halves of
`_disconnect()`; they are one step when the Connection is closed already,
because then nothing in it suspends.  A reconnection starts from each of its places in the
code: a missing pong (`Keepalive`), a Connection that turns out to be closed when something is
handed over to it (`HandOver`), the error that the receive task hands on (`Notice`), and, with the Connection still open, whatever else
goes wrong in reading or decrypting a packet (`HandleGarbage`: a wrong message or key, any
other exception, a 404 of the codec); a transport error 429, or 404 in decrypting,
disconnects (`HandleFlood`).

*Environment.*  A link breaks up to `MaxDrops` times; the receive task may
notice it, or nobody, and what is written is lost.  Should the writing itself fail, the event
loop wakes the receive task with the error before the send task gets to cancel it, so the receive
loop hears of it all the same: that is `Notice` as well.  The
server executes a packet, asks for it again (bad salt, wrong ids) or refuses it
for good, and may say everything twice (`MaxDups`); it ignores packets of an old
session.

*Abstractions.*  A packet takes any set of queued requests (sizes decide in
the code).  Message ids are only compared, so a number nothing refers to is
reused.  The queue of incoming packets is handed over at once, acknowledgements and
updates settle no future and are left out, and the authorization key exists.  A receive task that spends its
ten seconds in `wait_closed` while the sender connects again can take up the
new stream; the error in which that ends is one of the broken links.
`Overlap` says whether the user may call `connect()` while a reconnection or a `disconnect()` is in
progress, or `disconnect()` while a connection is being opened.  No method shows
the user that a reconnection is, so such a call is not a misuse; `OneReceiver`, `Serving` and `Closed` say
what holds until one has happened (`crossed`), `NoneLost`, `SentOnce` and `Promise` hold after one as well.

### Rpc

What a caller of `send()` may rely on: the future is settled at most once, with an
answer only if the server executed the request.  It may be executed more than once
and although its future failed; Telegram's own `random_id` is what makes that
harmless.  `Sender` implements it with the identity as refinement mapping: `fut`
and `ran` are variables of both, and every step of the thirty or so of `Sender`
is a step of `Rpc` or leaves both alone (theorem `SenderProofs!Implements`).
`MTProtoState` implements it in the same way (theorem `MTProtoStateProofs!Implements`).

### ExportedSenders

*State.*  `table` is `_borrowed_senders`; `n`, `old` and `flag` are `_n`, whether
`_zero_ts` is more than a minute ago, and `_connected` of each `_ExportState`; `live`
says whether the sender itself is connected; `lock` is the holder of
`_borrow_sender_lock`; `pc`, `want` and `cur` belong to the tasks that borrow,
`keep` and `closing` to the keepalive loop, `user` to `disconnect()`; `main` is
the client's own link.  Ghosts: `left` (borrows nobody is going to return),
`orphans` (senders whose authorization failed), `spoiled` (senders closed by a
disconnect, or by a clean-up that was cancelled).

*Steps.*  A task that takes the lock and awaits nothing returns it in the same
step.  What awaits inside the lock is cut there: opening the connection, exporting
the authorization through the client's own link (queued, then sent), importing it through that of the
new sender, closing a sender.  A careful
borrower returns its sender whatever happens (`try`, `finally`); a download
returns it at its end only.  `_switch_dc` disconnects without touching the table,
and cancels the keepalive loop wherever that is, also inside a clean-up.  A disconnect
of the client's sender settles an export that was sent and leaves one that is queued
waiting (`DisconnectMain`); then the borrower keeps the lock, and `disconnect()` waits for it (`Hung`).

*Environment.*  Connections and requests fail up to `MaxFails` times, the
client's link breaks silently (`Drop`), and the socket may tell (`Notices`).  Left to `Sender`: that
the client's reconnection gives up, and that the link of a borrowed sender breaks and
reconnects.

### MTProtoState

*State.*  `last`, `sequence`, `offset`, `salt`, `recent` and `highest` are the attributes
of the state, `queue` is the packer's deque, `msgId` and `contId` those of the
requests, `pending` is `_pending_state` in the order of its insertions; `up` and
`down` are the packets and messages on their way, `seen`, `top` and `ran` the
server's; `time` is the server's clock and `skew` what the local one is ahead.
Ghosts: `epoch` counts the corrections of offset and sequence, `log` has the ids that were handled,
`missed` what was ignored and should not have been.

*Steps.*  `Send` is one round of the send loop with `MessagePacker.get()`:
requests that are too big fail (and end the loop if they were cancelled), both limits
of a container are applied, ids are taken, a container takes one more.
`Receive` is `decrypt_message_data` with its filters and then the handler.  The
server checks salt and clock before it executes, ids before it executes again.  Its salt rotates; it
tells the new one when it refuses the old, and when it says that it made a session
(`_handle_new_session_created`).  A message of the server may come in a container
(`Enclose`): the filters then see the container, its id and its time, and no service message.

`_pop_states` finds the positions of `pending` that have an id, or else a container
(`Popped`); they are taken out, and `Pick`ed for the queue, in the order of the dictionary.

*Abstractions.*  A second has `Slots` ids, a clock is read at `Fractions` of it.
The code's ids count nanoseconds, so after a correction took the clock back it reads an id that was
given before only by a collision within nanoseconds.  With few slots to a second that would happen
all the time: unless `Coarse`, what is read is the next instant at which the ids of the
packet are not those of a request that is queued or pending, of a packet on its way or of one that the
server executed (`Free`, `Instants`).  The server's ids do not run ahead of its clock (`Room`).
Encryption, key, parity and session id are left out.  The tenth ignored message in a
row raises a `SecurityError` that the receive loop ignores (`mtprotosender.py:536`), so the counter is
left out, and so are the messages in a packet that are not content-related (acknowledgements, pings): they
take an id and the sequence number that comes next without advancing it.

### Conversation

*State.*  The attributes of the class under their names: `incoming`, `outgoing`,
`pending` (four dictionaries, as sets of entries with the time of insertion, which is the number of the
call: a loop over a dictionary takes them in that order), `indices`, `editDates`,
`lastRead`, `cancelled`; `asked`, `ask`, `fut` and `got` describe the calls of the
user, their futures and what they returned; `top`, `mine` (the messages of the user) and `date` belong to the chat.
Ghosts: `lost` counts the updates whose dispatch raised, `stale` says whether
a future ended inside its dictionary or was replaced there.

*Steps.*  The loop of `_dispatch_update` over the conversations awaits nothing (without
`wait_event`), so `Arrive`, `Edit` and `Read` are one step each.  `Send` and
`Sent` are the two ends of `send_message`: what arrives in between comes before the
message is known to the conversation, but may be a reply to it.  An edit is of any message of the others,
also of one that was not saved (`Theirs`).  A conversation that ended may be entered again (`Enter`), which
clears everything but the pending waits for reads and the last read mark.

## 3. The runs

| run | question | bounds, and why they are enough |
|---|---|---|
| `box_account` | `Chain`, `NoneTwice`: every position exactly once; `StashedIsKept`: gaps lose nothing; `SeqSettled`: a seq is taken over only when settled; `TypeOK` | one entry, pts up to 3, counts 0, 1 and 2, two updates to a container, seq up to 2, one failure, which may end the loop, one reload with catch_up: the smallest instance in which an update overtakes two others, spans a gap and shares its container |
| `box_channel` | `NoFatal`, `Consistent`, `SilenceNoticed`, `Chain`, `NoneTwice`; with fairness `AccountRecovered`, `ChannelRecovered` | account and one channel whose access hash may be missing, both kinds of updates, pts up to 3, any updates lost, one failure, which may end the loop: a channel becomes known, is fetched, given up, forgotten and known again |
| `box_stale` | violation, see section 6 | |
| `sender_core` | `NoneLost`, `SentOnce`, `OneReceiver`, `Serving`, `Closed` | two requests (alone or sharing a packet), two Connections, one broken link, one packet that cannot be read (so that one recovery meets the other), one failed attempt which is the last, one rejection of each kind, one repeated reply, one transport error, a disconnect and a second connect; with and without `auto_reconnect`, no pings |
| `sender_live` | `Settled`, `Promise`, `PingTracked`, `OneReceiver`, `TypeOK` | one request and the ping, one broken link that only the ping finds, one packet that cannot be read, one failed attempt (giving up is not reached), one late pong, a cancelled caller |
| `sender_lost`, `sender_behind` | violations, see section 6 | |
| `export_core` | `NotPulled`, `Counted`, `AllClosed`, `TypeOK`; with fairness `Served`, `IdleIsClosed` | a careful task and a download, two data centers, two senders, one failure, one broken link, one change of data center, one disconnect and connect: every pair of lock holders meets; the liveness properties leave out what follows a `Hung` disconnect |
| `export_blocked` | violation, see section 6 | |
| `state_core` | `OrderAgrees`, `RepeatsFiltered`, `NoneLost`, `Heard`, `Promise`, `TypeOK`; with fairness `Answered` | two requests, containers of up to two, two remembered ids; any two of: the clock jumps a lot ahead or back, a tick, a new salt, a refused sequence number, a message of the server's own, a message in a container, a repetition, a reconnection, a cancellation; the clock is not `Coarse` and is read at one fraction of a second, or the next that is free |
| `conv_core` | `Once`, `NoneSkipped`, `Prompt`, `Told`, `TypeOK` | two calls of any kind, two messages sent, four messages in the chat, three of which overflow the two that are kept, three events among edits, reads, timeouts, cancellations and entering again |
| `conv_timeout` | violation, see section 6 | |

Deadlock is not checked in most runs: a sender that is closed, a box that
has raised, a client that has disconnected has nothing to do.

`conv_core` takes `replies_are_responses` as false; with true (`Shared`) all five
properties hold in the same instance as well, both also do with three calls and two events, and the theorems of section 5
cover all of it.

## 4. Fairness

`MessageBox!FairSpec`: the update loop runs when it can (`WF(Loop)`), every
request is answered or fails (`WF(Reply)`, with at most `MaxErrors` failures),
and time passes also between the containers of a busy socket (`SF(Tick)`).
Nothing makes the socket deliver: recovery rests on deadlines and differences
only.

`Sender!FairSpec`: tasks that can run do; the queue is served in order (a
weak fairness per request); the server answers what it got, and the receive loop
gets to it although links break (strong fairness per reply); `connect` ends,
`disconnect` ends, the minute of the keepalive loop passes.  That a broken link
is noticed by the socket is *not* assumed; the ping is what finds it.

`ExportedSenders!FairSpec`: what awaits the network ends, one way or the other; the
lock is an `asyncio.Lock`, whose waiters are served in order, hence strong fairness for
whoever waits for it; the minutes pass.  That user code returns what it borrowed
is its own affair: a download that does not is a borrow counted in `left`.
`export_core` assumes that a broken link of the client is noticed (`WF(Notice)`,
with `Notices`); `export_blocked` does not.

`MTProtoState!FairSpec`: the two loops run, the server answers what it
got, and a send loop that died is replaced when a ping stays unanswered (that
is `Sender`).  `Receiving` is weakly fair as a whole: no order among messages is
assumed.

`Conversation` has no liveness: that a message comes is up to the other side.

## 5. What is proved

All theorems hold for all values of the constants that satisfy the named
assumptions.

**`MessageBoxProofs`**: `TypeCorrect`, that is `Spec => []TypeOK`, for every
set of channels and all bounds.  One lemma per action.

**`MessageBoxSafety`**, under `MaxLoads = 0` (with a reload the property is
false: `box_stale`): `NoException` (`[]NoFatal`), `AlwaysConsistent` and
`AlwaysSilenceNoticed`.  None of them is inductive.  The invariant `SafeInv`
adds

* the account is always known, and `next_deadline` is a known entry at every
  step, not only between updates;
* what a request in flight, or the end of a difference, refers to is known and is being
  fetched, which is what the branches of `apply_channel_difference`
  and `end_difference` rely on not to raise;
* an entry being fetched has no gap.

The hard case is forgetting a channel (`Evict`): its deadline is moved to the
latest possible one *before* it leaves the map, hence `next_deadline` leaves it
because the account is never later (lemmas `MoveSafe`, `EvictSafe`).  That is
the reason for the order of the two statements in `end_channel_difference` and
`get_channel_difference`.

**`MessageBoxChain`**, the first three without assumptions on the constants, so also with
reloads:

* `ChainHolds` and `NeverTwice`: `[]Chain` and `[]NoneTwice`.  The invariant `ChainInv` adds
  what they rest on: the server's log covers every position once (`Tiled`); a known entry
  has a pts no smaller than where the server begins, and from its `base` to
  that pts lie exactly the positions handed over, passed or jumped (`Linked`); a request in flight
  carries the pts that its entry still has (`ReqCurrent`), so that what a
  difference returns begins where the box stopped.  `ReqCurrent` is what a reload, or dialogs that
  set the pts of a channel while its request is in flight, could break.  What a reload brings
  back of a forgotten channel is a pts that the box had (`SavedRows`), hence one at which an update ends.
* `StashedStays`: `Spec => StashedIsKept`.  The invariant `GapInv` adds that what waits in a gap is an update
  of the server's log (`FromServer`), that an entry that is fetched has no gap
  (`GapsApart`), and that the box has handled a stashed update as a whole or not at all
  (`Whole`): the updates tile, so a pts never ends inside one, and the pass over the gaps
  finds either its time come or all of it missing.
* `SeqIsSettled`: `Spec => SeqSettled`, if no channel has updates with a count of 0 (`Counting`).  An update that is
  behind the box is dropped as old, so the seq of its container may be taken over only if none of it is missing:
  `Rooted` says that a known entry is always where an update ends, or where the log begins, hence never inside one.
  `Accounted` then follows a container through both passes: each of its updates is still to be
  looked at, or handled, stashed, or of an entry that is being fetched, and stays so, by `StashedStays`' lemma and
  because a pass never moves a pts back.  When nothing is left to look at and no gap is left, the
  stashed ones are none.
  Without `Counting` it is false: a channel first heard of through an update with a count of 0
  begins at `pts - 1` (`apply_pts_info`), which may lie inside the update before it.  That one then
  counts as handled while the seq of its container is taken over.  `MessageBox_channel.cfg` with `Counts = {0, 2}`,
  `MaxSeq = 1` and `MaxBatch = 2` shows it.

**`SenderProofs`**, for any number of requests, Connections, reconnections, generations of
loops and failures, and whether or not the user lets `connect()` and `disconnect()` return:

* `Typed`: `[]TypeOK`, by one lemma per group of variables (`FlagsStep`,
  `LoopsStep`, `TasksStep`, `AttemptsStep`, `WorkStep`).  That fresh numbers exist
  needs that what is pending or replied is finite (`Finite`).
* `Implements`: `Spec => Promise`, the refinement of `Rpc`.  The identity is the
  mapping; the invariant `Told` adds that only what was sent is queued, pending or on
  its way (`Known`), so that the server executes nothing that was not submitted, and
  that the server has an answer only to what it executed (`Honest`).  Lemma
  `Shapes` sorts the steps by what they do to futures, queue and pending states,
  and each sort is a step of `Rpc` or a stutter.
* `NothingTwice`: `[]SentOnce`, from `Single`: a request is pending under one id at
  most, and not while it is queued.  Sending moves it from one to the other,
  rejections and reconnections move it back, and a new one is in neither because
  of `Known`.
* `NothingLost`: `[]NoneLost`, if nothing is refused or nothing is cancelled.  The
  strengthening is `Awaited`: what is queued or pending is waited for unless something was
  cancelled.  Then a refusal finds every future of its container settable
  (`AllFail`) and settles them all.  Without the assumption it is false: `sender_lost`.

**`SenderLoops`**, with `auto_reconnect` or without, with the keepalive loop or without, and whoever starts a
reconnection:

* `AwaitedOnce`, `AlwaysServing` and `AlwaysClosed`: `[]OneReceiver`, `[]Serving` and
  `[]Closed`, which say what holds until a call of the user has crossed what was in progress.
  They share one invariant, `crossed \/ LoopsInv`: at most one `_reconnect` task is at
  work, its Connection is closed, and if the user has disconnected meanwhile it finds none;
  `_reconnecting` is set exactly while the task closes or cancels, and from the moment it is cleared the
  loops are gone (`OneTask`); the loops of older generations have ended and only
  the current Connection may be open (`OneGeneration`); `connect()` and `disconnect()` begin
  and end with nothing running (`UserWaits`).  That the flag is cleared *before*
  `_connect()` starts the new loops, and after the old ones are cancelled, is
  what `ReconnectClosedLoops` needs.  After such a call they are false: section 6.
* `PingAlive`: `[]PingTracked` within one `connect()` and if the ping is not refused
  for good, crossed calls included: what empties the dictionaries leaves the sender not connected, and
  nothing connects it again (`Early`).

**`ExportedSendersProofs`**, for any number of tasks, data centers and senders:

* `Typed`: types, and that the lock excludes: a task is in a locked section if and
  only if it is the holder.
* `Closed`: `[]AllClosed`, without further assumption: a sender that is connected is in the table with
  its flag set, or in the hands of the task that is opening it or the loop that is closing it (both
  hold the lock that the closing disconnect waits for), or an orphan, or its
  clean-up was cancelled after it was closed already.
* `CountsAreRight` and `NonePulled`: `[]Counted` and `[]NotPulled`, if the user connects only
  while no task borrows (`Patient`).  The invariant says in addition
  which senders the table may have, that a new sender has no borrower, that a sender in use
  and not spoiled has its flag set, and that a sender being cleaned up has a count of 0 for as long as the
  lock is held.  Without `Patient` both are false (section 6).

**`MTProtoStateProofs`**, for any number of requests, any sizes, limits, clocks and faults; the first three without
further assumption, the next two unless the clock shows an id that is in use again (`Coarse`), the last
if `Punctual`:

* `AlwaysOrdered`: `[]OrderAgrees`.  The invariant `OrderInv` adds that whatever was sent since the last
  correction has an id up to `_last_msg_id` and a sequence number up to twice `_sequence` (`Current`), and that
  a correction that takes either of them back begins a new epoch (`HandlersCorrect`): `_last_msg_id` is
  set to 0 only where the offset changes.
* `NoneRepeated`: `[]RepeatsFiltered`, from `Remembered`: `_recent_remote_ids` are the last ids that
  were handled and `_highest_remote_id` is the last of them, however small the memory is.
* `Typed`: `[]TypeOK`.  `TypeInv` adds that whatever is queued, pending or on its way was submitted, that the ids are
  natural numbers, and that the queue and the dictionary are `Tidy`: no request is in both or in one of them twice, ids are
  the keys of the dictionary, and a pending request has the id it was last given.  Three lemmas carry it.
  `Positions` says that `Pick` takes what is at the given positions, each once and in their order, so taking some
  out of the dictionary to queue them keeps both tidy (`Handled`).  `Putting` says what an insertion of
  a packet into the dictionary leaves, `Packs` what one round of the packer takes from the queue, whatever the sizes.
* `AlwaysThere`: `[]NoneLost`.  An entry of the dictionary is overwritten, and its request lost, if a new
  one gets its id; ids are not monotonic, since a correction of the offset sets the last one to 0, so
  the clock has to exclude it.  `CallInv` says in addition that a reply is to something that was executed (`Earned`), that a
  pending request whose id was executed was executed itself (`Sure`), and that an id on its way to the server means the
  request that is pending with it, if one is (`Same`).
* `Implements`: `Spec => Promise`, the refinement of `Rpc`: an answer settles the future of the request that is
  pending with its id, which `Earned` and `Sure` show to be executed; what is too big fails while it is waited for.
* `AlwaysHeard`: `[]Heard`, if the clock is set only while nothing is on its way and a message, with all its repetitions,
  and with the lead of the clock that the server tolerates, is delivered before it is too old (`Punctual`: in the code 300 seconds
  against 30, and the delays of a network).  The invariant `HeardInv` relates each journey to the clock: the id of
  a packet shows how far ahead the clock was when it was sent (`Underway`), so the server executes nothing for a client that
  is far ahead, a message is as old as its journeys are long (`Fresh`), and a correction takes the lead away
  (`LeadCorrected`), because the server's ids are of seconds that have begun.

**`ConversationProofs`**, for any number of messages, calls, edits, reads, timeouts and cancellations, any limit on the
messages that are kept, and both values of `replies_are_responses`:

* `Typed`: `[]TypeOK`.  `TypeInv` adds the types of entries and messages (`Shape`), that a call has a message as its target whose
  sending returned (`Targeted`), and that an entry of a dictionary belongs to a call that was made, of that kind and for that
  target (`OfCalls`); a future is therefore in one dictionary, once (`EntryUnique`).
* `AlwaysTold`: `[]Told`.  It is inductive with `TypeInv`.  `Steps` sorts the steps by what they do to futures: entering, a question, the
  service of some entries, a cancellation, an overflow, a timeout; `AskSteps` and `ServeSteps` say what each sort changes.
* `AlwaysPrompt`: `[]Prompt`.  It needs `Alive`: unless one ended inside its dictionary, all futures that are in one can be set, so
  a message is given to everybody, and no loop ends early and leaves a position behind.
* `NoneTwice`: `[]Once`.  A position is where the last answer was: `AnswersPlaced` says that whatever answered a question for a
  response or a reply lies at or before the position of its target, and that an edit that answered is not after the date kept for the target,
  as long as the target can be asked for: who enters again has forgotten the messages sent before; messages are in the order of their ids (`OrderedIn`).  Both only grow (`Grown`), and whatever answers next lies behind.
* `AlwaysNoneSkipped`: `[]NoneSkipped`.  The property says nothing while somebody waits, so `SkipInv` says what
  holds then too: as long as all who asked for responses to a message were answered or are in the dictionary (`Orderly`), the
  position is as far behind the first message after it as answers were given, these are the messages in between, and who waits has got them
  all (`Gapless`).  What was not sent yet, or only before the
  conversation was entered again, has no position (`Untouched`), so a message that arrives before `send_message` returns is counted.
  A step is `Calm` for a target, or it answers one question with the message at the next position (`GaplessMore`).

Every invariant and every safety property of the runs is proved, under the hypotheses named above.
Only model-checked are the liveness properties.  Liveness under fairness, and `ENABLED`, are out of
the prover's reach and stay with TLC, as does induction over data.

## 6. Where the code and its comments part

Runs that expect a violation:

* `box_stale`: `load()` clears the map but not `getting_diff_for`, and drops a
  qts of 0; after a reconnect with `catch_up` the end of the difference raises.
* `sender_lost`: refusing a container with a cancelled future in it raises
  before the other futures are settled.
* `sender_behind`: a `disconnect()` while a reconnection waits in `Connection.connect()` does not cancel
  it; the Connection is opened behind it, and as `_connection` is `None` by then no later `disconnect()` finds it.
* `export_blocked`: the keepalive loop waits for the lock of the borrowed senders before
  it pings; a borrower that exports an authorization over a link that broke silently holds it,
  and nobody finds out.
* `conv_timeout`: a call of a conversation that timed out leaves its future in its dictionary; the
  next message makes the dispatch of that update raise before the event handlers.

Seen in the models, not kept as runs.  In the box:

* `if reset_deadlines:` (`messagebox.py:538`) tests a set that is still empty, so no
  update resets the deadline of its entry (`Touch` models this).
* `set_state` gives the account and the secret chats new deadlines without
  recomputing `next_deadline` (`messagebox.py:329`), so it need not be the
  closest, which line 180 says.  While account differences keep coming it may
  stay on the secret chats, and the silence of a channel waits: hence the exception in
  `ChannelRecovered`.
* `apply_difference_type` sets the state before it processes the other updates
  (`messagebox.py:677`): those with a pts count as handled and are dropped.  The
  ghost `passed` accounts for them in `Chain`.

In the sender:

* `disconnect()` does not touch requests that are queued (`mtprotosender.py:326`);
  line 150 says all pending requests are cancelled.  Likewise a request that is
  queued when a reconnection gives up is not settled (`sender_live` stays below the number of retries).
* `disconnect()` leaves `_ping` set: after the next `connect()` the keepalive loop takes
  the healthy link for dead.  Nothing but a pong clears it, and none comes.
* `disconnect()` does not cancel a `_reconnect` task: the connection is
  opened after it (`sender_behind`), or, with a `connect()`, twice with two pairs of loops.
* The same without `auto_reconnect`: a packet that cannot be read starts a `_reconnect`, which closes the
  Connection and waits for that; a `disconnect()` then finds the Connection closed and returns at once; the user calls
  `connect()`, and the old `_reconnect` goes on in the middle of it, ends in `_disconnect()` and sets
  `_connection` to `None` (`mtprotosender.py:342`).  The `connect()` returns, the sender is connected and has no Connection.
  The model reaches it with `Overlap`; `Serving` is about the states before (`crossed`).
* `Connection._send_loop` closes the Connection without telling the receive loop (`connection.py:323-331`).  An
  error of the socket reaches the receive task by itself; any other exception of the send task (of a codec) would
  leave the receive loop waiting and the sender without a reconnection until the next packet is handed over.  With
  packets of the sizes that the packer allows no codec raises one, so this is not modelled.
* `Connection.disconnect()` does not empty its queues (`connection.py:259` says it
  does): a packet of the old session goes out first on the new connection,
  where the server ignores it; its requests are pending and sent again.  An error left in
  `_recv_queue` costs one more reconnection.
* `future_salts` is answered under the id of the server's message (`mtprotosender.py:864`), so
  the future of a `GetFutureSaltsRequest` would never be settled.  The client sends none.

In the state and the packer:

* A clock that falls back by more than 30 seconds while a session runs makes the client
  ignore every answer as very new (`mtprotostate.py:221`), although the server may
  accept what it sends; hence `Behind` in `Answered` and in `Heard`.  The exception
  of the tenth ignored message has no effect.
* The comment at `mtprotostate.py:200` wants notifications about the salt and the time processed although their own time looks
  wrong.  The filter sees only the outermost message (line 206): in a container they are ignored with it, the requests they are
  about stay pending, and if nothing else corrects the clock their callers wait (`Deaf` in `Answered`).
* A correction of the offset sets `_last_msg_id` to 0: with a clock of coarse resolution
  an id may be given twice (`Coarse`), which overwrites a pending request.
* `_highest_remote_id` is the last id, not the highest: of messages 5, 3 and again 5 the last
  is handled again (`mtprotostate.py:227`; the comment at line 186 wants the check
  skipped only for ids that are not lower).  `RepeatsFiltered` states what does hold.
* `len(batch) <= MAXIMUM_LENGTH` (`messagepacker.py:56`) lets one message more than the limit into a container.
* The flood wait of a request sent with `receive_updates=False` is kept under the
  constructor of its wrapper (`users.py:113`), so the check at line 47 never finds it; the
  parameter `flood_sleep_threshold` is ignored at line 121.

In the exported senders:

* A sender borrowed before a `disconnect()` and a `connect()` and returned afterwards counts against
  its replacement in the table, which is then cleaned up under its borrower, or raises a `KeyError`
  if there is none (`telegrambaseclient.py:875`).  Hence `Patient`.
* A `disconnect()` while the export of an authorization is queued: the sender settles only what is pending
  (`mtprotosender.py:326`), the borrower waits with the lock in its hands, and the `disconnect()` waits for the lock at
  `telegrambaseclient.py:710`, both for ever.  `Served` and `IdleIsClosed` leave out what follows (`Hung`).
* A download that fails or is not read to its end, and one that is migrated by
  `FileMigrateError` while it has a sender (`downloads.py:109`), never returns it; line 842 of
  `telegrambaseclient.py` says it should be returned.
* When the export of the authorization fails, the sender stays connected and nobody knows it
  (`orphans`); line 705 wants all of them closed by a disconnect.
* `_switch_dc` cancels the keepalive loop.  If that was closing a sender, `_connected` stays
  true and the next borrower gets a sender that is closed (`spoiled`).
* An inline edit borrows inside its `try` (`messages.py:1241`): if that raises, the
  `finally` raises a `NameError` instead.
* If the clock is set back between `should_disconnect()` and `mark_disconnected()`, the
  assertion of the latter ends the keepalive loop (not modelled).

In conversations:

* `_on_read` settles the waits for messages at or above the read mark (`conversation.py:420`), and
  `_cancel_all` leaves those waits alone, as does entering again (lines 485-490): `Told` is about the others.
* Calls after a cancellation whose message is saved already are served; line 501 says they raise.
* `wait_read` returns `None`, which cannot be awaited, when the message was read already.
* A second call for the same target replaces the future of the first, which then hears nothing
  (`dropped`); `get_reply` misses a reply that is saved behind a message that is none; edits
  within the same second are missed when nobody waits.
* After an overflow later calls raise `CancelledError`, not the error of the overflow, and a
  second message over the limit makes the dispatch raise.
* A message whose dispatch raises at a future that timed out is skipped by the futures behind it;
  hence the conditions on `lost`.

## 7. Not modelled

See the notes of the components in `PROJECT.json`.  Inside the modelled parts:
acknowledgements and the log-out that rides on them, `future_salts`,
`destroy_session`, the generation of the authorization key, `after` (ordered
requests), proxies and codecs, the update queue between sender and box, event
handlers and their tasks, `wait_event`, CDN clients.

Most lines of the repository are not behaviour that a specification could say anything about: of 133,000
lines more than 100,000 are the generated classes of `tl/`, one per constructor of the API, and most
others build requests (`client/`), convert answers (`events/`, `tl/custom/`, `utils.py`)
or parse text.  They keep no state and have no concurrency.  The map therefore covers a
small share of the lines, and most of those with tasks, locks, queues, futures, deadlines
and clocks.

The voice transcription package does not import at this commit (it needs
`TranscriptionTimeoutError` and `MessageNotFoundError`, which no module defines), so it
has no behaviour to be faithful to.

## 8. What is left

1. `Dispatch`: the queues between sender, box and handlers, and what a disconnect
   saves; composed with `MessageBox` through its returned updates.
2. Acknowledgements, with the log-out that is settled by one.
