# clichat-rust in TLA+

A formal model of clichat-rust, a chat server and a terminal client written in
Rust on tokio. The TLA+ modules in this directory are translated from the
code, checked by TLC on small instances, and proved about with TLAPS for every
value of their constants.

## 1. The system

| part | source | state | operations |
|---|---|---|---|
| server event loop | `chatserver/src/server/mod.rs` `Server::start`, `close_server`; `main.rs` | `sessions`, `username_to_id`, `id_to_username`, `room_manager`, the channel `rx` of `(ServerEvent, reply_tx)`, `next_client_id` | accept a connection, serve one event, Ctrl-C, wait for the connection tasks |
| event handlers | `server/server_events.rs` `handle_event` | the same maps | Register, ChangeName, List, JoinRoom, LeaveRoom, CreateRoom, SendTo, PrivMsg, DropSession |
| connection tasks | `server/mod.rs` `handle_connection`, `handle_message` | the websocket, the session's receiver, at most one outstanding answer | handshake; select over socket, session messages and shutdown; ask the loop and wait for its answer |
| sessions and rooms | `server/session.rs`, `room/mod.rs`, `room/room_manager.rs` | a session's joined rooms and its room tasks; per room a broadcast channel with a bounded memory (10 are asked for) | join, leave, send; each room task forwards the broadcast channel into the session's channel |
| client state task | `chatclient/src/main.rs` 127-426 | the socket, the `exit` flag | connected and disconnected select loops, one branch per user action |
| client state | `chatclient/src/state_handler/state.rs` | name, id, rooms, connection status, notifications | what each server message does to it |
| client TUI task | `chatclient/src/main.rs` 428-481, `tui/` | a copy of the state, the input line | keys, updates, shutdown |
| command parser | `state_handler/action.rs` | none | a command line becomes an `Action` |
| input box | `tui/components/input_box.rs` | text and cursor | editing |
| wire format | `common/src/message.rs` | none | `check_message`, postcard encoding |
| message queue | `common/src/message_queue.rs` | a locked queue | used by neither program |

How they interact. A client writes requests to its websocket. The server's
connection task reads one, puts one event with a fresh oneshot sender into
`rx`, and waits for the answer inside the select branch; while it waits it
looks neither at its session's channel nor at the shutdown broadcast. The main
task owns the `Server` struct and serves events one at a time, so handlers are
atomic. Private messages and room messages travel through the session's own
channel and are written by the connection task the next time it is in its
select. A room message takes one more hop: the room's broadcast channel and
the room task.

What is hard:

* three copies of a user's name, updated by requests and by the ends of
  connections that arrive in any order;
* the interleaving of answers, session messages, the end of the socket and
  shutdown at each connection task;
* requests put into the socket before the answers to earlier ones were read;
* the bounded memory of broadcast channels, and `abort()`, which does not wait
  for the aborted task;
* partial failures: a handshake that fails, a handler that finds no session;
* termination: Ctrl-C while requests are queued;
* sockets that are dropped with requests in them, and connections made anew
  with a name whose fate on the old one is not known;
* a cursor that counts characters over a string that counts bytes;
* fields that are optional in the message and unwrapped by its readers.

What makes each part correct:

* *event loop and handlers*: the maps of names are each other's inverse and
  hold no name of a dead session; a name passes between clients only by being
  free; the loop never panics;
* *connection tasks*: every request has exactly one event or one answer
  outstanding; requests are answered; the end of a socket frees the name;
  shutdown reaches every idle task and ends the program;
* *sessions and rooms*: what a peer was told of its rooms is what the server
  has; a room is heard in order, without gaps or repetition, and only after
  the join was answered;
* *client*: its state follows the server's answers, the display follows the
  state, quitting ends both tasks;
* *client and server together*: each behaves as the model of the other assumes;
  once nothing is on its way, the server has the client's name for the
  client's connection;
* *input box and parser*: the box edits the line as an editor should, whatever
  characters are typed; the request says what the line says;
* *wire format*: no message that is sent is refused, every field that a handler
  unwraps is there.

`PROJECT.json` lists the components, and under "hazards" each point of the
code that is hard to test, with the properties that cover it.

## 2. The modules

| module | what it is |
|---|---|
| `NameDirectory` | abstract specification: what the server promises about user names (arrive, claim, rename, depart) |
| `ServerEvents` | the state of the server and the effect of every branch of `handle_event` |
| `ChatServer` | EXTENDS `ServerEvents`: the tasks around the handlers, fairness, the properties |
| `ChatServer_proofs`, `ChatServerViews_proofs`, `ChatServerRooms_proofs` | EXTEND `ChatServer`, each the one before: theorems about the server, about what its peers are told, and about the order in which they hear a room |
| `ChatClient` | the state task and the TUI task of the client, with the server as environment |
| `ChatClient_proofs` | EXTENDS `ChatClient`: theorems and their proofs |
| `ChatSystem` | EXTENDS `ChatServer`, instantiates `ChatClient`: one client among the peers of the server |
| `ChatSystem_proofs` | EXTENDS `ChatSystem` and `ChatServerViews_proofs`, instantiates `ChatClient_proofs`: theorems about the two together |
| `Editor` | abstract specification: a line editor |
| `InputBox` | the input box of the TUI: cursor, bytes and characters |
| `Commands` | the command parser |
| `Wire` | `check_message`, what each side builds and what it unwraps |
| `Options` | Rust's `Option` |
| `CommandLine` | EXTENDS `InputBox`, `Commands`, `Wire`: a line from the keys to the client that reads the answer |
| `CommandLine_proofs`, `CommandLineBox_proofs`, `CommandLineWords_proofs` | EXTEND `CommandLine`, each the one before: theorems about the messages, about the input box, and about the words of a line |
| `MCChatServer`, `MCChatClient`, `MCChatSystem`, `MCCommandLine` | the instances TLC checks |

`NameDirectory` is instantiated by `ChatServer`, and `Editor` by `CommandLine`,
with a refinement mapping. `ChatServer` and `ChatClient` do not share state: each
is the environment of the other, and the environment actions of each say what
they take from the other's code. `ChatSystem` puts the two together and shows
that the two environments are right: every step of the composition is a step
of `ChatClient` and a step of `ChatServer`, or leaves it alone. TLC checks that
on one instance, `ChatSystem_proofs` proves it for all.

### Code and model

* `server` is the main task: `"running"` is the loop of `Server::start`,
  `"closing"` is `close_server`, `"stopped"` its return, `"panicked"` its
  panic when `join_all` meets a connection task that panicked, `"crashed"` a
  panic of `handle_event`, which runs in main and ends the process.
* `sessions`, `username_to_id`, `id_to_username`, `room_manager` are the fields
  of `Server`; `username` and `rooms` are `Session.username` and the keys of
  `Session.rooms`. `NoId` and `NoName` mean that a map has no entry.
* `rx` is the server's channel. The oneshot sender that goes with an event is
  known by the connection that waits on it: `reply[id]`, with `Dropped` for a
  sender that a handler dropped without an answer. A dropped sender makes
  `handle_message` return an error, which the connection task ignores; the
  proofs show that it does not happen (`AnswerGiven`).
* `inbox[id]` is the channel behind `to_session_tx`.
* A room's broadcast channel is the count `tail[room]` of the messages sent on
  it; a message is known by its number. `task[id][room]` is the number a room
  task receives next. With `Capacity` messages kept, a task whose next message
  is no longer kept lags (`Lags`): `recv` returns an error and the
  `while let Ok` of the task ends (`ForwardLagged`). The code asks for 10, which
  tokio rounds up to 16; `Capacity` is a parameter of the model.
* `abort()` takes effect when the task next yields. `aborting` holds tasks that
  were aborted while being polled: each may forward more (`ForwardAborted`)
  and ends at any point (`EndAborted`). Two such tasks of one session and
  room with the same position are one element of that set; they would do the
  same.
* `conn[id]` is the connection task: `"handshake"` is `accept_async`,
  `"select"` its loop, `"waiting"` the `rx.await` of `handle_message`, `"done"`
  its end. `accept_async(..).expect(..)` may fail: `"panicked"`.
* `asked`, `gone` and `budget` are the environment; `view` and `heard` are
  history variables: what a peer was told about itself (its name, the rooms it is
  in, those it left and, in `back`, those it came back to) and which room
  messages were written to its socket. `After(id)` is `view[id]` once the answer
  that is on its way is read.

The peers keep the discipline of chatclient: the first request on a connection
is Register and no later one is (`Receive`; `Read` is `handle_message` without
that discipline). They do *not* wait for answers: as in the client, further
requests may already be in the socket.

In `ChatClient`:

* `state` is the `ClientState` behind the mutex. Notifications are counted, one
  for all that a handler pushes under one lock; the title (`current_server`)
  and the id given by the server are left out, because nothing but drawing
  reads the one and nothing the other.
* `state_task` is where the state task is: `"select"` in one of its two selects
  (`connection_handle` says which), `"updated"` between a change of the state
  and the call of `updated()`, `"top"` at the `if exit` of the loop,
  `"connecting"` and `"registering"` inside `registering_on_server`: waiting for
  the connection, and then, with the status changed and the lock released,
  sending the registration. Between any two of these the TUI task may run, and
  the server may go.
* `connection_handle` is a local variable of the state task that only its own
  selects look at. In the model it is set as soon as the connection is there;
  the code inserts it after the registration was sent, before the next select.
* `action_rx` is the channel from the input box; it yields `NoAction` once the
  TUI task has ended. `state_rx` counts the updates the TUI task has not
  received, `shown` is the copy it draws.
* `shutdown` is the broadcast of `Terminate::Exit`. The TUI task also ends when
  the state task, which owns the sender, is gone.
* `to_server`, `from_server`, `stream` are the socket of the current
  connection. A socket that its peer closed yields an error first and then
  None (`TakeReset`, `TakeEnd`).
* `ServerAnswers`, `ServerPushes`, `ServerCloses` are the server: it answers
  requests one after the other and sends messages in between, which is what
  `RequestAccounted` and `ViewInSync` say of `ChatServer`; it never renames a
  session that has no name; it may go at any time and take the end of its
  output with it.

In `ChatSystem`:

* `link` is the server's id of the connection that the client has open,
  `mine` are those it ever had, and `leftover[id]` are the requests in a socket that it
  dropped, which the server goes on reading unless the end of the socket
  overtakes them.
* A request stays at the front of `to_server` until its answer is written, as
  `ChatClient` has it; for `ChatServer` it is read before (`Unread` is what is
  still to be read).
* The client's variables are those of `ChatClient`. A step inside the client
  runs on before anybody else moves (`Settled`): until the client waits again,
  neither the server nor the user can tell how far it got. The timer of the
  state task, which changes nothing, is left out.
* The other connections are peers as in `ChatServer`.

In `CommandLine` one line is followed at a time, from `at = "box"` through the
channel of actions and the socket and back; the channels in between keep their
order. Whether the client has a connection and what its name is, is any
(`SendRequest`, `NotSent`), and so are the ids, names and texts that the server
puts in. Characters are abstract, with a width in bytes; a command's spelling is
the parameter `Keyword`. `Words` is `split_whitespace` (the word
that begins at the `Nth` start of a word), `Joined` the loop that puts a message together again; the trim in `submit` does nothing before it. A
message on the wire is its type, `arg` and `content`; bytes are left out, since
postcard reads what it wrote. `Err` is a refused message: `"lost"` means that
it was refused where nobody is told, `"panicked"` that a field was unwrapped that
is not there.

Some operators are headed "Mistake": variants of the definition that follows
them, as a plausible slip in the code would have it. The specification does
not use them. They are there to see that a property can fail: with the variant
in the definition's place, TLC reports the property violated
(`PROJECT.json`, "mutants").

## 3. What is checked

| run | instance | shows |
|---|---|---|
| `ServerNames.cfg` | 3 connections, 2 names, 2 requests beyond the registrations | `NamesAgree`, `RequestAccounted`, `ViewInSync`, and that the server implements `NameDirectory` (`DirectorySpec`) |
| `ServerRooms.cfg` | 2 connections, 2 rooms (one still to be created), capacity 1, 5 requests | `TypeOK`, `RequestAccounted`, `ViewInSync`, `JoinedBeforeHeard`, `RoomInOrder` |
| `ServerLive.cfg` | 2 connections that may ask to join for ever, 2 room messages | `RequestAnswered`, `NameReleased`, `RoomMessageHeard`, `ShutdownReachesIdle` |
| `ServerCrash.cfg` | 2 connections | `NoCrash` is violated |
| `ServerLag.cfg` | 2 connections, capacity 1 | `JoinedRoomHasReceiver` is violated |
| `ServerShutdown.cfg` | 1 connection | `ShutdownTerminates` is violated |
| `ServerLeak.cfg` | 1 connection | `EndedSessionDropped` is violated |
| `Client.cfg` | 3 commands, 2 names, 2 messages unasked | `TypeOK`, `DisplayInSync`, `StatusAgrees`, `NameAsTold`, `QuitEnds`, `ActionTaken`, `AnswerShown` |
| `ClientQuit.cfg` | 2 commands | `UpdateHasReceiver` is violated |
| `System.cfg` | 2 connections, 2 names, 4 commands of the client, another peer that registers | `NameHeld`, `ClientSpec`, `ServerSpec` |
| `SystemSelf.cfg` | the same | `NotToYourself` is violated |
| `CommandLine.cfg` | lines of up to 8 characters over four, one of two bytes | `OnBoundary`, `EditorSpec`, `ArrivesAsTyped`, `NeverLost`, `NeverPanics` |

The properties in words:

* `NamesAgree`: both maps and every session's own copy agree; only sessions
  that exist hold a name.
* `RequestAccounted`: a waiting connection has its one event queued or its
  answer given, never both and never neither, and no answer is a dropped
  sender; a connection that does not wait left behind at most the event that
  drops its session.
* `ViewInSync`: a peer with nothing outstanding was told the truth about its
  name and rooms.
* `JoinedBeforeHeard`, `RoomInOrder`: a room is heard after the join was
  answered and, until the peer comes back to a room that it left, in order with
  no gap and no repetition, also by a task that lags, which stops and never
  skips, and by one that is aborted and forwards more. Once the peer is back the
  aborted task may run next to the new one: then a message may come late or
  twice, and no statement of the code excludes it.
* `DirectorySpec`: every step of the server is a step of `NameDirectory` or
  leaves it alone.
* `RequestAnswered`, `NameReleased`, `RoomMessageHeard`, `ShutdownReachesIdle`:
  progress, as long as the server runs. A dropped sender is no answer.
* `DisplayInSync`, `AnswerShown`: no update of the screen is lost, and what the
  server says is shown.
* `StatusAgrees`: in its selects the client's status says whether it has a
  connection, after refusals, resets, ends of stream, disconnects and failed
  attempts; after `/quit` it has none, a reconnect typed behind it included.
* `NameAsTold`: when no new name is on its way, the client has the name the
  server has for it, whatever renames were asked for, refused or overtaken.
* `QuitEnds`, `ActionTaken`: `/quit` ends both tasks, and actions are taken
  however busy the server is. Both except a state task that hangs in
  `registering_on_server`: the code awaits the attempt inside the select branch,
  without a timeout, and takes no action meanwhile.
* `ClientSpec`: the server is what `ChatClient` assumes of it; its answers come in
  order and carry the name the server has. `ServerSpec`: the client is a peer
  as `ChatServer` assumes, also on a socket that it dropped with requests in it.
* `NameHeld`: once nothing is on its way between client and server, the name
  the client shows is held in `username_to_id` by the client's own connection,
  after refusals, renames, `/disconnect` and reconnections.
* `EditorSpec`: the input box implements a line editor: text before the cursor,
  text behind it, and the line that was entered. `OnBoundary`: the cursor is in
  the text, and `String::insert` gets the offset of the character under it.
* `ArrivesAsTyped`: the request that reaches the server is of the type that the
  line's command asks for, and has the words of the line.
  `NeverLost`, `NeverPanics`: no message is refused by its own sender or its
  reader, and no reader unwraps a field that is not there.

**Bounds.** `MaxClients` bounds the connections accepted in one behaviour, and
`MaxCounted` the requests of `CountedTypes` that are read. Three connections
and two names are the least at which a name can be wanted by two while it
is held by a third, and at which two registrations and one refusal meet; two
requests more allow a rename to cross a rename or a private message to cross an
end of session. Capacity 1 makes a room task lag after two messages; five
requests allow join, send, leave, join, send, so that an aborted task runs next
to its successor. The second room exists only once somebody creates it. In
the liveness run joins are not counted, so that a peer can starve its
session's channel with requests unless the scheduling is fair.
Connection numbers are given out in order and are not symmetric; names are,
and the safety run of names uses that.
For the client, three commands are `/name`, `/connect` and one more (a rename,
`/disconnect`, `/quit`) against a busy server, or `/quit` with a `/connect`
behind it; the safety properties are proved without that bound. In the system,
four commands are `/name`, `/connect` and a rename with a private message, a
second rename, a `/disconnect` or a `/quit` behind it, or a name taken by the
other peer, a refusal and a second `/connect` on the second connection; two
connections are the least at which the client can be refused, or come back, and
two names the least at which a rename can succeed or be refused. Requests are
bounded by the commands, so `MaxCounted` is not used there. For the command
line, eight characters hold a message of two words with its command and receiver,
with blanks that are doubled, leading or trailing left to shorter ones; the
spellings are short so that they fit. The proofs need no bound.

**Deadlock** is not reported as an error for server, client and system: they
really stop, and a bounded environment runs out of requests. The command line
never stops, and TLC checks that.

**Fairness.** Tokio polls every task that is ready, so the main loop, the
answers, the end of a stream, the shutdown branch and the room tasks are weakly
fair. The select of a connection task starts at a random branch each time;
a branch that is ready again and again is therefore taken, which is strong
fairness of `Deliver`: between two requests the branch is ready, while the task
waits for an answer it is not. What is written to a socket is read by the
peer. Nothing else is owed by the peers, the network or the operator: `Accept`,
`Handshake`, `Receive`, `PeerCloses` and `CtrlC` have no fairness. The client's
tasks are fair in the same way: weakly where a task only runs on, strongly for
the branches of the state task's select, which is left and entered again for
every message and tick. Users, servers and attempts to connect are not fair, but
the registration is sent once there is a connection: the first message fits the
buffer of a new socket.

## 4. What is proved

No theorem takes anything on trust but the assumptions named with it, which TLC
evaluates in every run. `ChatServer_proofs` proves, for any number of connections, names, rooms and
messages, any capacity and any mixture of requests:

| theorem | statement |
|---|---|
| `TypeCorrect` | `Spec => []TypeOK`, with the bound that no room task is ahead of its channel |
| `NamesAlwaysAgree` | `Spec => []NamesAgree` |
| `RequestsAccounted` | `Spec => []RequestAccounted` |
| `ImplementsDirectory` | `Spec => DirectorySpec`: initial states map to initial states, every step to a step of the directory or a stutter |

The only assumptions are `ServerAssumption` and `ChatServerAssumption`: there
is at least one connection, the empty name is not a name a client may ask for,
the main room is a room, a channel keeps at least one message, and the
environment's constants have their types.

None of the properties is inductive by itself. `IInv` adds to them:

* `Numbered`: connections are numbered in order, only accepted ones have a
  session, and a number not yet given out has no connection task. Without it a
  new connection could be one that already left, and `NameDirectory` does not
  let a client come back.
* `RegistersOnce`: a connection that has not asked anything, or whose Register
  is in the channel, has no name. Without it `BindName` would leave an earlier
  name in `username_to_id`, and `NamesAgree` would break.
* `SessionLives`: the session of every queued event is there. Without it a
  handler might find no session and drop the sender.
* `AskedBefore`: a connection with a queued request has asked, so that its
  Register cannot come after that request.

The lemmas follow the parts of the invariant: one group for types
(`NameTypeStep`, `RoomTypeStep`, `ChannelTypeStep`, `TaskTypeStep`,
`HistoryTypeStep`), `ServeCases` which splits a served event by its
type, `HeadEvent` about the front of the queue, then one group for each
conjunct of `IInv`.

`ChatClient_proofs` proves, for any names, commands and messages:

| theorem | statement |
|---|---|
| `ClientTypeCorrect` | `Spec => []TypeOK`; a socket that is not there holds nothing, the shutdown signal is sent for `/quit` only |
| `DisplayAlwaysInSync` | `Spec => []DisplayInSync` |
| `StatusAlwaysAgrees` | `Spec => []StatusAgrees` |
| `NameAlwaysAsTold` | `Spec => []NameAsTold` |

from `ClientAssumption` (the empty name is not a user name; the bounds are
numbers). Its `IInv` adds `Phases` (the state task connects with a name and
without a connection, and registers with both; whatever ended did so for
`/quit`), `StatusFollows` (the
status is right at every point of the loop, not in the select only) and
`NameFollows` (the *last* name on its way is the one the server has; if none
is, the client has it): `NameAsTold` speaks of a socket without names, and it
takes `NameFollows` to know what the message read last said.

`ChatServerViews_proofs` proves, from the same assumptions as
`ChatServer_proofs`, what the peers of the server know:

| theorem | statement |
|---|---|
| `ViewAlwaysInSync` | `Spec => []ViewInSync` |
| `JoinedAlwaysBeforeHeard` | `Spec => []JoinedBeforeHeard` |

A peer's knowledge lags behind the server by exactly the answer that is on its
way. `After(id)` is what the peer will know once it has read that answer, and
`ViewInv` says that this is what the server has (`Known`), and that there is an
answer only while somebody waits (`AnswerAwaited`). Each handler preserves it
because its answer tells what it did (`ServeTells`). For the rooms, `HearInv`
follows a message back to where it comes from: whatever is in the session's
channel, about to be forwarded by a room task or by one that is being aborted,
belongs to a room in `ToldRooms(id)`, the rooms the peer knows it joined or will
know; that set only grows. A message is written in the select, where no
answer is outstanding, so that `ToldRooms` is what the peer was told.

`ChatServerRooms_proofs` proves, for any capacity of the rooms' channels:

| theorem | statement |
|---|---|
| `RoomAlwaysInOrder` | `Spec => []RoomInOrder` |

`Reached(id, room)` are the numbers of the room's messages that the peer heard
or that are in its session's channel. A message is the next one (`Follows`) when
it is one more than the largest of them. `RoomInOrder` says so of every message
heard or in the channel, and of the room task; the strengthening `FeedInv` says
it of a task that is being aborted as well, and that a session and a room have
at most one receiver of both kinds (`OneReceiver`) as long as the peer did not
come back to the room: a second one would send the same numbers again. That holds
because a task is aborted together with the answer that tells of it
(`EndingLeft`): a join or leave is served when no answer is outstanding, so that
it cannot find an aborted task of a room that the peer does not know it left;
and if it knows, the answer to the join tells it that it is back
(`ReturnsKept`: a room that it left and is in again is one it came back to).
And a join that is served for the first time finds nothing of the room on its way
(`NothingReached`, from `HearInv`), so that it may start at any number.

`CommandLine_proofs` proves, for any characters of any width, spellings, lines,
names and texts:

| theorem | statement |
|---|---|
| `NothingLost` | `LineSpec => []NeverLost` |
| `NothingPanics` | `LineSpec => []NeverPanics` |
| `CursorOnBoundary` | `LineSpec => []OnBoundary` |

from `InputAssumption` (every character has one to four bytes), `CommandAssumption`
(no two commands are spelled alike, and the blank that the parser puts between the
words of a message is white space) and `IdAssumption` (the server's ids are
numbers, which the client parses). `Formed` is what `check_message` lets through;
the invariant `LineInv` says that an action in the channel has the arguments of
its command and that a message in the socket is `Formed`.

`CommandLineBox_proofs` proves, from the same assumptions:

| theorem | statement |
|---|---|
| `BoxIsEditor` | `LineSpec => EditorSpec`: the input box implements the line editor, by refinement |

The box keeps a text and a cursor that counts characters, and inserts at an offset
that counts bytes. The proof needs that the two mean the same place. `Bytes` is
a fold over the text: `BytesGrow` proves that it grows with every character,
since each has at least one byte, so that an offset belongs to one cursor only
and `String::insert` splits the text where the editor does (`SplitInsert`,
`SplitErase` and their neighbours). `EditInv` adds to the invariant of the box that nothing
is on its way from a line while the next is typed, which is what lets a submit be
the editor's.

`CommandLineWords_proofs` proves, from the same assumptions:

| theorem | statement |
|---|---|
| `RequestArrivesAsTyped` | `LineSpec => []ArrivesAsTyped` |

The parser takes a line apart and joins the words of a message again with single
blanks; the property compares the words of what arrives with those of the line.
`WordsOfMore` says that a blank and a word behind a text add that word to its
words and change no other; `JoinedWords` that the words of joined words are those
words; `ParsedSays` and `RequestSays` carry that through the parser and the
message. The invariant `SaidInv` is that the action in the channel is the one
parsed from the line, and that the message in the socket is of the type its
command asks for (`CommandOf`) and has its fields.

Both of these modules reason about folds and cardinalities, for which there is no
induction over data to cite (the library's induction theorems take an operator as
a parameter). They use least counterexamples in its place: if a statement about the
first `k` positions failed for some `k`, it would fail for a least one
(`LeastOf`, from the well-foundedness of the naturals), which is not 0 and follows
from the one before. That the recursive function behind a fold exists is
proved in the same way (`FoldExists`). For the same reason `Words` picks the n-th
position by counting (`Nth`) and not by sorting.

`ChatSystem_proofs` proves, for any number of connections, names, rooms, commands
and messages:

| theorem | statement |
|---|---|
| `ClientIsPeer` | `SystemSpec => ServerSpec`: the client is a peer as `ChatServer` assumes |
| `ServerIsEnvironment` | `SystemSpec => ClientSpec`: the server is what `ChatClient` assumes |
| `NameAlwaysHeld` | `SystemSpec => []NameHeld` |

from the assumptions of the two components and `ChatSystemAssumption`: the user
enters actions that the parser yields, requests whose content the client's model
leaves out (`Ask`) are those it can send, and the client may send what every peer
may. `SystemSpec` has no fairness, and so have `ServerSpec` and `ClientSpec`: they
are the safety parts of both components.

The invariant `SystemInv` is that of the server, that of its peers' views, that of
the client, and `LinkInv`, which says how they hang together:

* `Connection`: the client's connection is one that it made and is past the
  handshake; requests are left over only in sockets that it had.
* `SocketsRegister`: in every socket, the dropped ones included, a Register comes
  first and only there, unless one was read before. `ServerSpec` needs it: the
  server's peers register first and once.
* `FreshSocket`: a connection that is not yet registered has nothing in it, and
  the server has read nothing from it. It is the only one that holds no
  registration and from which none was read.
* `Outstanding`: while the connection task waits, the event that it put into the
  channel, or the answer that it waits for, is one for the request at the front of
  the socket (`Suits`). `ClientSpec` needs it: the answer a client gets is one to
  its oldest request.
* `NameTold`: the name the server has for the client is the one it was last told;
  it has none only as long as its registration is not answered, or refused with
  the refusal still to be read.

`NameHeld` then follows from four invariants, each about one copy of the name: the
client's name is the server's name for it when nothing is on its way (`NameFollows`
of the client), that is what it was told (`NameTold`), that is what the session has
(`ViewInv`), and `username_to_id` has the session's name (`NamesAgree`).

**Model-checked only**: liveness. The seven properties with `~>`
(`RequestAnswered`, `NameReleased`, `RoomMessageHeard`, `ShutdownReachesIdle`,
`QuitEnds`, `ActionTaken`, `AnswerShown`) hold under fairness, which is beyond the
prover. Every invariant and every refinement that a passing run checks is also a
theorem.

## 5. Where code and statement disagree

1. **`NoCrash`**. `handle_event` indexes `id_to_username[&id]` and unwraps
   `get_mut(&id)` (`server_events.rs:113,115`, and `:250` for the sender of a
   private message). A session whose registration was refused has no entry; a
   `/name` or `/privmsg` that is in the socket before the refusal is read
   panics the loop, which runs in main, and with it the server.
2. **`JoinedRoomHasReceiver`**. A room task that falls behind the channel's
   capacity ends on `Lagged`. The session stays in the room: it may send,
   hears nothing, and cannot join again because it is "Already part of room".
3. **`ShutdownTerminates`**. A request that is queued when Ctrl-C ends the loop,
   or that a connection task reads before it takes the shutdown signal, is
   neither served nor dropped, because `rx` lives as long as `close_server`
   waits. Its connection task waits for the answer, `join_all` waits for the
   task, and "Server shut down" is never reported.
4. **`EndedSessionDropped`**. A failed websocket handshake panics its task.
   The session was inserted at accept, and nothing ever drops it; on shutdown
   `join_all` resumes the panic.
5. **`UpdateHasReceiver`**. `updated()` unwraps its send
   (`state_handler/mod.rs:22`). After `/quit` the TUI task may have ended while
   the state task selects once more; the closed channel of actions is then as
   ready as the shutdown signal, and taking it ends in that unwrap. The client
   still ends, with a panic message over the restored terminal.

6. **`NotToYourself`**. The check against messaging yourself (`main.rs:232`)
   compares with the name the client has now. While a rename is unanswered
   that name is stale: `/name b` and `/privmsg b` in quick succession deliver
   the message to its own sender.

Not stated as properties, since no run is needed to see them: the help text
offers `/changename` (`main.rs:81`), which the parser does not know; the bytes
in `common/tests/serialization_tests.rs:19` and `:25` hold a field (`"Jon"`)
that `MessageHeader` no longer has; a name with a comma is taken apart when
it is listed (`state.rs:109`), and an empty list is shown as one empty entry.

## 6. Plan

The order in which the project was built, each module with its runs and its
theorems in a module of their own:

1. `NameDirectory`, `ServerEvents`, `ChatServer`, `ChatServer_proofs`.
2. `ChatClient`, `ChatClient_proofs`.
3. `ChatSystem`.
4. `Editor`, `InputBox`, `Commands`, `Wire`, `CommandLine`, `CommandLine_proofs`.
5. `ChatServerViews_proofs`, `ChatServerRooms_proofs`.
6. `ChatSystem_proofs`, `CommandLineBox_proofs`, `CommandLineWords_proofs`.

What could follow: an abstract room feed (a log per room, each member a position
in it) that the channels and tasks of `ChatServer` implement while nobody
leaves.

## 7. Not modelled

* The bytes of a message: postcard is a library, and reads what it wrote.
* The task that reads terminal events (`tui/mod.rs`), which runs until the
  process ends; drawing, the prompt and terminal set-up; which component of the
  page has the focus, there is but one.
* The text of notifications, errors and listings.
* TCP and websocket framing: a request is one message, and what is written is
  read. So neither full socket buffers nor a peer that never reads occur.
* A Ctrl-C lost because the future of `ctrl_c()` is made anew in each turn of
  the loop: a lost signal changes nothing.
* `message_queue.rs`, which nothing uses, and the build files.
