# Verification of quintses

quintses is a small client/server game: a server thread, a 30 Hz physics thread
around Bullet, local and networked clients, an OpenGL renderer and an OpenAL
audio thread. The program's logic is in `core/`, `client/`, `server/` and the
four main programs, about 3000 lines. `3rdparty/` (glm, glew, rapidxml) and
`cmake/` are vendored or build support.

This directory holds TLA+ modules translated from that code, TLC configurations
that model-check them, and TLAPS proofs. `PROJECT.json` lists the components,
the runs, the definitions with the lines they model, the hazards and the
theorems.

## 1. Inventory

| part | state | operations | talks to | what is hard |
|---|---|---|---|---|
| queues (`core/util/queue.hpp`) | linked list behind `head`, or deque + mutex + condition | `push`, `wait_pop`, `try_pop` | every other part | compare-and-swap on reused addresses; signal after unlock |
| `LocalServer` (`server/localserver.*`) | `m_clients`, `m_lobby_clients`, `m_baddies`, `m_next_id`, `m_ticks`, its queue | `addClient`, `removeClient`, `pushMessage`, `loadPlayer`, `loadWorld`, `runTickCallbacks`, `pushClientTransforms`, `getClientId`, shutdown | clients (callbacks under `m_clients_mutex`), physics (queue, callbacks) | three kinds of thread; messages handled after their sender is gone |
| `BtPhysics` (`server/bullet/btphysics.*`) | `m_characters`, `m_objects`, its queue | six messages, tick, `finish` | server callbacks | order of messages within a tick; shutdown |
| thread start and end (BtPhysics, LocalServer, GlLoader, AlAudio) | `m_running`, `m_finish` | constructor, `run`, `finish`, `waitForTermination` | the owner | missed notifications, use after delete |
| network server (`server/remoteclient.*`, `qntsrv.cpp`) | sockets, `m_marked_for_delete` | accept, read, write, `deleteSelf`, signal handler | `LocalServer` | handlers on deleted clients; shutdown order |
| local client (`client/localclient*`) | its queue, `m_finished`, key state | main loop, `pushMessage`, `serverClosed` | server, renderer, audio | order of the queue |
| server proxy (`client/remoteserver.*`, `qntcli.cpp`) | socket, `m_client`, `m_running` | `addClient`, read, write, `waitForTermination` | local client | an io_service without work |
| renderer (`client/opengl/glrender.*`) | `m_drawables` | three messages, `draw` | local client | messages for unknown ids |
| window, contexts, loader (`localclient_x11.cpp`, `opengl/glloader*`) | `PlatformData`, filled by two threads | `initializePlatform`, `finalizePlatform`, `run` | X11, OpenGL | stages that fail after others; what one thread closes and the other uses |
| audio (`client/openal/*`) | streams, two buffers each, the static `previous_result` | `play`, `update`, the thread's pass over the streams | OpenAL, which plays meanwhile | end of stream, a source that runs dry, state shared between streams |
| wire messages and sockets (`core/messages/`, `core/util/socket.hpp`) | none that outlives a call | read, write, `create` | network server, proxy | reader and writer agree field by field; messages that arrive in part |
| world file (`core/util/xml*`, `data/world.xml`) | XmlDom's reference count | parse | server | – |
| math (`core/util/math.hpp`) | none | matrices | physics | – |

The properties that make each part correct are stated in its module; the
hazards, each at its line, are in `PROJECT.json`.

## 2. Modules

    MessageChannel ── QueueOrder               abstract queue
       ├─ LocklessQueue ── LocklessQueueProofs
       └─ LockedQueue ──── LockedQueueProofs
    ThreadLifecycle
       └─ AlAudio (StreamingFile) ── AlAudioProofs
    BtPhysics (QueueOrder, Maps)
       ├─ PhysicsCaller ── PhysicsCallerProofs physics under any caller
       └─ LocalServer ──── LocalServerProofs   physics, server and clients
    ClientRegistry ─────── ClientRegistryProofs
       ├─ implemented by LocalServer           the server's side
       └─ implemented by NetServer             the clients' side
    Wire                                       messages as fields of a stream
    X11Platform                                window, contexts, loader thread
    LocalClient (QueueOrder, Maps, Wire, X11Platform)
       └─ RemoteServer ─── RemoteServerProofs
    NetServer ──────────── NetServerProofs     the server process and its clients
    MC*                                        instances for TLC

* **MessageChannel** is what a `queue<T>` promises: every message comes out once,
  oldest first (`Order = "fifo"`) or newest first (`"lifo"`).
* **LocklessQueue** is `locklessQueue`, one action per access to memory that
  other threads can see. The allocator may return a freed address at once, so
  the ABA case is part of the model. `chain` is a history variable: the linked
  items, oldest first.
* **LockedQueue** is `lockedQueue`, one action per critical section, with the
  signal as a step of its own and spurious wakeups.
* **QueueOrder** gives the other modules the order the queues above were shown to
  have. The system models use the queues through it: a push or a pop is one
  step, which the refinements justify.
* **ThreadLifecycle** is the constructor, `run`, and `finish` or
  `waitForTermination` of the objects that own a thread.
* **StreamingFile** is a streamed wav file with its two OpenAL buffers and the
  source that plays them. Samples are positions in the file. The member functions
  are operators on a stream's record; `SourcePlays` is OpenAL.
* **AlAudio** is the audio thread: `ThreadLifecycle`, whose loop passes over the
  streams. `playFile` is commented out of the interface, so `PlayFile` follows the
  comments of `streamingfile.hpp`.
* **BtPhysics** is the physics thread. A message is a record, a pop and the
  parsing of a message are separate steps, the rest of a tick is one step and
  the call of `pushClientTransforms` another. A character is its `m_state`, a
  set of bits of `ServerInputMsg`.
* **PhysicsCaller** closes it with a caller that may make any legal sequence of
  calls, and keeps the calls as history. Legal means: a fresh id for each addition,
  and one deletion at most, after the addition, which may have been ignored for its
  unknown template. It also has what a tick makes of an input
  state (`UpdateCharacterObjects`): a character in the air keeps its walk
  direction. Where Bullet puts the bodies is outside; a tick is told which
  characters stand on the ground.
* **LocalServer** composes the physics thread, the server thread and the clients'
  threads. Each function that holds `m_clients_mutex` throughout is one step.
  `shown[c]` is the set of ids that client `c` was told to draw. A step that
  calls a deleted object or follows a null pointer records it in `fault`, and
  nothing happens after it. A wait for a lock is part of the step that takes it, so
  a cycle of locks could not show; there is none, as nothing that holds
  `m_clients_mutex` waits for another thread. The limits on joins, loads and inputs
  end every history; in `RepeatSpec` a client goes on sending without end once the
  shutdown has been asked for.
* **Wire** writes a message as its fields, each with the number of its bytes, and
  reads it back with what `read` asks for. A reader that asks for other sizes than
  were written gets `Garbage`.
* **X11Platform** is `initializePlatform` and `finalizePlatform` of `LocalClient`
  and of `GlLoader`. `held` is the set of things that are open. Each stage may
  fail. The loader's start, its end and its last notify are steps here;
  `ThreadLifecycle` has the protocol behind them.
* **LocalClient** is the main thread of a client: constructor, main loop,
  dispatch into the renderer, events and keys, end. `m_drawables` is the
  renderer's map, `asked` what the server has told the client to draw. It has
  a server in the same process (`quintses.cpp`), reduced to what it sends and
  to the end that `ShutdownCompletes` guarantees. That end is two steps, as in every
  thread of the program: `m_running` is cleared, which lets the main thread delete
  the server, and the waiters are notified after the unlock (`LocalNotify`;
  `ProxyNotify` of RemoteServer, `LoaderNotify` of X11Platform, `PhysNotify` of
  BtPhysics). A notify after the deletion does nothing or ends the process. NetServer
  leaves this last notify out: what it would add is what these show.
* **RemoteServer** adds the other server, the proxy of `qntcli.cpp`: the thread
  with its io_service, posted writes, reads field by field that block, and a peer
  that may close at any time, inside a message too. An exception that nobody
  catches ends the process (`"aborted"`). The peer is a server of the program: the
  path of `readMsg` for a type it does not know (`remoteserver.cpp:130-134`) is not
  modelled. `handlers` keeps what has been posted and will never run after a stop;
  `ServerKnowsKeys` counts it as given to the server, `KeysReachPeer` does not.
* **NetServer** is `qntsrv.cpp` with `RemoteClient`: the io_service's queue of
  handlers, messages that arrive in part, the server's threads that post to it and
  close sockets, the watcher and the signal handler. The game server is reduced to
  its two client containers, its messages and the order of its end. `fault` names
  the deleted object a step uses ("dead client", "dead handler", "dead physics",
  "dead server"); nothing happens afterwards.
* **ClientRegistry** is what server and clients promise each other: a client joins
  once, speaks, leaves once, is deleted after that, and the server knows whom to
  tell. `LocalServer!KeepsRegistry` and `NetServer!KeepsRegistry` are refinements
  of it: each module shows the half that the other takes for granted.

RemoteServer takes from the server that an id is announced once, and that
transforms also concern objects the client was not told of, as in LocalServer.

Definitions that begin a comment with "Faulty variant" are not used by the
specifications. Each is a plausible mistake in the definition that follows it,
and `PROJECT.json` ("mutants") names the property that fails with it.

## 3. Runs

| run | bounds | what it shows |
|---|---|---|
| `lockless_queue` | 2 producers, 3 messages, 3 addresses | memory safety, no leak, LIFO refinement, delivery. Three messages over three addresses make a freed address come back while a push holds it |
| `locked_queue` | 2 producers, 4 messages | no lost wakeup, FIFO refinement, delivery. One producer pushes between the other's push and its signal |
| `thread_lifecycle` | AlAudio: 2 waiters, 2 streams of 1, 2 or 3 blocks, the last one short | no missed notification, clean-up before return, everybody returns; streams are heard in order and to the end, and end. Three blocks use one of the two buffers a second time; one block leaves a buffer empty; two streams share `previous_result` |
| `thread_termination` | 1 waiter | violated: the thread notifies after its owner may have deleted the object |
| `physics_fifo` | 2 characters, 1 object, 2 input states, 5 calls | the world and the motion of the characters are the ones the calls ask for; a deletion finds its object unless the addition was ignored; finish ends the thread. Five calls hold an addition, two inputs, the second of which jumps, a deletion and a call about another id |
| `server_lifo` | 2 clients, 1 of which may leave, 2 loads, 1 input, 1 baddie, 1 blocker | default build: consistency of registration, characters and drawables, unique ids, nobody loses its character; refinement of ClientRegistry. Two loads make two players, or a second character for one |
| `server_fifo` | 2 clients, 1 of which may leave, 1 load, 2 inputs of 2 values, 1 baddie, and after the request for the shutdown inputs without end as long as 2 messages at most are queued | locked build: the load and the inputs take effect, a client that leaves takes its character along, and a shutdown completes however long the clients go on sending. Three queued messages hold the shutdown with one before and one behind it, which is enough to starve it where the newest is popped first (the mutant); the invariants are proved for any number of loads and players (section 5) |
| `lifo_load` | 2 clients, 1 load, 1 input | violated: an input that overtakes the load request leaves the client under id 0 |
| `dead_client` | 2 clients, 1 load, 1 input | violated: a late message of a removed client registers it again |
| `client_fifo` | 1 object, 1 transform, 1 key, 2 key events; both kinds of server | the client draws what was asked, the server knows the keys, keys arrive, every thread ends, no thread calls the client once it has been waited for, the window outlives the loader. An object that is added, moved and deleted is enough for every pair of messages to be in flight in either order, whole or in part; two key events press the key and release it, in one call of `platformEvents` or in two |
| `early_close` | the same | violated: the proxy's io_service runs out of work before it is given any |
| `net_server` | 2 clients, 1 message each, 1 update | a client is deleted once and after its writes, the clients keep ClientRegistry, a lost peer is noticed, a shutdown ends the process. A load request, an update and the other's removal put three writes behind one deletion |

The server really stops after a shutdown, and a thread after `finish`: those
configurations, and those of the client and the server process, which end, do not
check for deadlock; `ShutdownCompletes`, `FinishEndsTheThread`, `EverybodyReturns`, `EndsWhenAsked` and
`ShutdownEndsMain` are the properties that exclude the harmful stops.
`TickPeriod`, 40 in the code, is 1 in the server runs: the baddies then always
walk left, and the players' inputs are other values.

**Fairness.** Weak fairness per thread: a thread that can take a step takes one.
Nothing is assumed about calls from outside (nobody has to push, to call `finish`
or to send a shutdown) and nothing about spurious wakeups. Users press no key and
close no window, peers send nothing and stay connected, unless they want to.

Three things outside the code are assumed to go on. A peer that has begun to write
a message writes the rest or closes: both writers of the program do it in one call.
An OpenAL source that has a buffer plays it. The shutdown of a server in the
client's process completes, which is `ShutdownCompletes` of `LocalServer`; that
server has no other client, and its own sends nothing after the shutdown message.

The lock-free loops need no stronger fairness: a failed compare-and-swap means that
another thread succeeded, and messages are finite. The main thread of the client and
the io_service threads have one weak fairness condition each: they are loops that
wait for nothing but the steps named in their guards, and key events, messages and
writes, which could keep them busy, are bounded.

## 4. What the code does not keep

* The default queue hands out the newest message first (theorem
  `ImplementsLifo`). Within a tick, additions, deletions and inputs are applied
  in reverse: `lifo_load` shows a client that never controls its character. A
  deletion that is queued in the tick of its addition follows a null pointer
  (`btphysics.cpp:303-305`) by the same cause.
* `dead_client`: `loadPlayer` and `getClientId` register whoever sent the message,
  also a client that was removed meanwhile. The character such a late
  `ServerLoadPlayerMsg` makes is never deleted either, nor the second one of a
  client that has asked for two; `NoOrphanCharacters` says that there are no others.
* `thread_termination`: `notify_all` after the unlock. The threads of the physics, of
  the server, of the proxy, of the loader and of the audio all end this way
  (`btphysics.cpp:191`, `localserver.cpp:87`, `remoteserver.cpp:89`, `glloader.cpp:45`,
  `alaudio.cpp:61`). `NoCallsAfterWait` says that this notify is all that can be left
  when the client deletes its server.
* The default queue also starves the shutdown: the server pops the newest message
  (`localserver.cpp:52`), so clients that keep sending bury the shutdown message for
  ever. `ShutdownCompletes` is therefore about the locked build, and its mutant is the
  default build's pop.
* An addition whose template is not known is ignored, and its caller is not told:
  the deletion of that id follows a null pointer (`btphysics.cpp:253-256`, `293-295`).
  `DeletionsFindTheirObject` says that there is no other such deletion. LocalServer
  deletes characters only, so the program itself does not do it.
* A connection that fails, in the constructor's `addClient` (`localclient.cpp:14`,
  `remoteserver.cpp:30-31`) or inside a message, ends the process with its window and
  contexts open and the loader's thread running; `PlatformOutlivesLoader` states both
  this and that the constructor gives everything back before that point.
* A client in the lobby is told of new transforms but not of new players
  (`localserver.cpp:184`); `PlayersSeeNewcomers` is therefore about players.
  A client that joins while the world is loading is never told of the later baddies.
* `removeClient` after `delete m_physics` uses the deleted object (`fault = "dead
  physics"`); with the network server, this is the
  ordinary shutdown with a player connected: `serverClosed` closes the socket, the
  pending read fails and `readMsg` calls `removeClient` (NetServer, "dead
  physics").
* `early_close`: the proxy's thread may find nothing to do in `m_service` before
  `addClient` starts the first read; the client then ends by itself. If the
  thread ends before `addClient` looks at `m_running`, the constructor waits for
  ever; `EndsWhenAsked` says that this (`MissedIt`) is the only end it misses.
* `RemoteClient::deleteSelf` runs while a read is pending if a write has failed
  first. The cancelled read's handler is called on the deleted client, in spite
  of "we delete ourselves asynchronously to make sure we're in the clear"
  (`remoteclient.cpp:48`); NetServer ends such a history with "dead handler".
* A failed accept is final; with no client left, `main` of `qntsrv` deletes the
  running server ("dead server").
* A message that breaks off throws out of `io_service::run` and ends the process,
  client or server.
* `previous_result` is one static for all streams: the end of one stream can end
  another before its last block is heard; `PlayedToTheEnd` bounds the loss to that
  block. A source that has run dry is refilled and never started again. A wav header
  with no channels passes `readHeaders` and leaves `m_format` uninitialised.
* A failure of the loader's thread closes the main thread's display in the place of
  its own (`glloader_x11.cpp:24`), and the exception ends the process.
* With the default queue the client applies the messages of a frame in reverse, so
  `DrawsWhatIsAsked` is stated for the locked build.

## 5. Proofs

TLAPS proves, for every value of the constants that meets the named assumptions:

* `LocklessQueueProofs`: `Spec => []Inv`, and from it `[]TypeOK`,
  `[]NoUseAfterFree`, `[]NoLeak` and `Spec => LifoSpec`. `NoUseAfterFree` is not
  inductive: that the consumer's item is allocated follows from the item being
  in the list (`OwnerInv`), which the pushes keep because they only prepend
  items that nobody else owns, and the compare-and-swap of the pop is right
  because `itemNext` still is the item's successor whenever `headNext = item`.
  `Inv` says so: the shape of the list (`ChainInv`), one owner for every item
  (`OwnerInv`) and distinct messages in allocated items (`ValueInv`, needed for
  the refinement's exactly-once). Assumption: `NULL` is neither an address nor a
  message.
* `LockedQueueProofs`: `[]NoLostWakeup` and `Spec => FifoSpec`, with the
  invariant that a consumer holds a message exactly between taking and returning
  it.
* `AlAudioProofs`: `[]CleanedUpBeforeReturn` and `[]NoMissedNotify` of
  `ThreadLifecycle`, with the invariant that relates `m_running` to where the thread
  is. Every step of the audio thread is a step of `ThreadLifecycle` or leaves it
  alone (`AudioImplementsLifecycle`), so what is proved of those threads holds of it
  (`AudioCleanupPrecedesReturn`). Of the streams, `[]HeardInOrder` and
  `[]PlayedToTheEnd`, for any number of them, any lengths and any size of the
  buffers: `StreamsInv` says that the buffers a source has still to play go on with
  what has been heard, up to where the file has been read (`Unplayed`), that while
  there is more to read both buffers are queued and the first of them is the next to
  be filled, and what a stream that is alone finds in `previous_result`.
* `PhysicsCallerProofs`: `[]CallsTakeEffect` and `[]DeletionsFindTheirObject`, for any
  legal caller (section 2) and any number of calls. `CallerInv` says that the queue holds the calls
  after the first n of them, and that the world and the motion of its characters are
  what those n ask for. Hypothesis: `Order = "fifo"`.
* `LocalServerProofs`: the nine safety properties of the two server runs, and the
  refinement of ClientRegistry. `ServerInv` holds in both builds: types (`TypeInv`),
  that identifiers come from the counter and nothing is added or deleted twice
  (`IdInv`), who is registered and whose messages are on their way (`PeopleInv`), and
  that what a client, a player's entry or the server knows as a character exists or
  is about to, and is not about to be deleted (`ViewInv`). From it follow `TypeOK`,
  `IdsAreUnique`, `NoGhosts`, `PlayersSeeNewcomers`, `KeepsItsCharacter` and
  `KeepsRegistry`. `FifoInv` adds what is true of the build with lockedQueue only: a
  character is made before the message that deletes it (`DelInv`), a client's load
  request is handled before its inputs (`LoadInv`), the last input of a client is the
  last in whichever queue it has reached and finds its character (`InputInv`), and a
  character is a player's or a baddy, with the excuses that `NoOrphanCharacters`
  names (`OrphanInv`). Hence `NoNullCharacter`, `LoadGivesCharacter`,
  `NoOrphanCharacters` and `InputTakesEffect` under
  `Order = "fifo"`; `lifo_load` shows that they need it.
* `NetServerProofs`: `[]TypeOK`, `[]DeletedOnce`, `[]WritesPrecedeDelete` and the
  refinement of ClientRegistry, for any set of clients, which need not be finite.
  `NetInv` says of each handler in the io_service's queue what state it finds its
  client in (`Sound`), that of the accepts, of the reads of a client and of its
  deletions there is at most one, under way or posted, and that a deletion is behind
  the client's writes unless an old message has registered it again.
* `RemoteServerProofs`: `[]NoCallsAfterWait`. By itself it is not inductive:
  `waitForTermination` waits for `m_running` to be false, which it also is before
  the thread has started. `EndInv` adds that `m_running` is true exactly between
  the thread's two assignments, that no thread exists before the constructor
  runs or with a local server, and that the main thread is past `addClient` only
  with a thread that has started. Then `[]PlatformOutlivesLoader`: `PlatformInv` says
  what is held for each place of the main thread and of the loader; every other step
  of the client is shown to be `Away`: it moves the main thread between places where
  everything is open, or ends the process there or, by a last notify, after the
  server was deleted. That the proxy's thread can do so only then is `EndInv`.
  `[]ServerKnowsKeys`, in both queue orders: `KeysInv` says that the bytes written so
  far are whole messages which, read back and followed by the handlers in
  `m_service`, are all that the main thread has sent (`Link`), and that the last
  input among them is the keyboard's state unless `platformEvents` is under way and
  has seen a change (`Known`).
  `[]DrawsWhatIsAsked` under `Order = "fifo"`: `FlowInv` says that while the
  connection is read, the type that has been read, the bytes that have arrived and
  those still to be written are a stream of whole messages (`Clean`), whatever pieces
  it came in, and that the renderer, given the queued messages and then those, draws
  what was asked for. The lemmas on the way are about the operators: the drawing and
  the reading of a sequence exist and follow its elements (`DrawnBy`, `ReadBy`),
  reading a stream in two parts is reading the whole (`ReadConcat`), what a template
  writes is read as the same message (`WrittenAreRead`), a clean stream stays
  clean when a message is written behind it or read off its front (`CleanMore`,
  `CleanRest`). Induction over the length is by the least counterexample
  (`NumbersUpTo`, from `WFMin`), since the library's induction theorems take an
  operator. The attempt showed that `Body` left open which of two overlapping
  cases applies to a malformed message; it now says that this is `Garbage`.
* `ClientRegistryProofs`: `RegisteredOrSpoke` follows from ClientRegistry, and so
  holds of whatever implements it.

Only model-checked: all liveness, which is outside TLAPS's reach, and what is said to
fail in the four runs that expect a violation.

## 6. Not modelled

* Bullet's, OpenGL's, OpenAL's and X11's work, and the math helpers: floating-point
  computation and libraries.
* The parsing of the world file and XmlDom's reference count: any number of baddies
  and blockers is loaded instead, because the file is copied into an empty string
  (`localserver.cpp:196`), past its end, and what is parsed is then arbitrary.
* Crashes of the unlocked walk over `m_baddies`, and 2^32 identifiers.
* What the bytes of a field look like. The audible messages, which nothing makes.
* Writes that block because the peer does not read, and a signal handler that runs
  on top of an interrupted push.
* In NetServer input messages, which can register a removed client exactly as a
  load request does (LocalServer has both), and the baddies that a newcomer is told
  of.
* Audio files that are shorter than their header says; the memory of the renderer.

## 7. Plan

Done, in this order: queues, thread lifecycle, physics, server, the proofs about
the first two, the client with its proxy, the server process, the streaming audio,
the messages on the wire, the registry that ties the two servers together, the
window with its loader.

Then the proofs: queues and threads, the end of the client process and its window,
the registry, the server, the physics thread under any caller, the server process,
the streams, and what the client draws and sends. Every safety invariant and action
property of a run that passes has its theorem.

Next: the invariants these proofs rest on say more than the properties do, and some
of it is worth stating to a reader as theorems of its own: that what a client has
written to the server is always a sequence of whole messages (`Link`), and that
NetServer never has two reads of one client under way (`NetInv`). The refinement of
`ThreadLifecycle`, proved for the audio thread, could be stated for the physics, the
server's and the proxy's threads.
