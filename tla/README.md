# genkan: TLA+ models and proofs

genkan is a Wayland login and lock screen: `genkan` is a greeter for greetd,
`genkan lock` locks a running session through `ext-session-lock-v1`, and
`genkan wallpaper` paints the desktop's background. This directory holds TLA+
models of genkan, the TLC configurations that check them on small instances, and
TLAPS proofs of what the lock and the greeter promise for every value of the
parameters. `PROJECT.json` lists runs, properties, mutants, hazards and theorems,
and maps every modelling definition to the lines of code it stands for.

    cd tla
    tlc -workers 2 -config MCLockAuth.cfg MCLockAuth     # a run
    tlapm LockAuthProofs.tla                             # the proofs about LockAuth

## The system

| Component | State it keeps | Operations | Talks to |
|---|---|---|---|
| locker presentation (`src/locker/mod.rs`, `src/conversation.rs`) | `Conversation` (attempt, status, prompt, input, page), `prompt_id`, the client, `authorized`, the frame | lock confirmed, worker event, typing, paging, submit, retry, cancel | session-lock runtime (callbacks), authentication client |
| authentication client (`src/locker/auth.rs`) | worker process, socket, reader thread, bounded event channel | begin, respond, retry, cancel, receive | presentation, worker |
| authentication worker (`crates/lock-auth`) | PAM transaction, `next_id`, a partly read message | await begin, prompt, notice, verdict, retry | client (socket pair), PAM |
| coordination and launcher (`src/locker/coordination.rs`, `launcher.rs`) | lease file, socket path, coordinator thread with its waiters, READY descriptors | enter, bind, activate, join, answer, stop; launch | other invocations, session-lock runtime |
| session-lock lifecycle (`crates/session-lock/src/lib.rs`, `runtime.rs`) | `State.lifecycle`, failure, terminate | locked, finished, fail, unlock, end of the loop | compositor, coordination, presentation |
| session-lock authentication output (`runtime.rs`, `crates/output-selection`) | surfaces, their names, sizes and roles; the handoff in progress | output added, named, removed; configured; presented, discarded; timeout; render | compositor |
| session-lock redraw and buffers (`runtime.rs`) | `RedrawState`, buffers with their generations, the overlay cache | request, frame callback, partial and full render, release | compositor, media |
| greeter application (`src/app`, `src/auth.rs`) | phase, attempt, client, closing state, power state, focus, menus | select, submit, cancel, retry, close, replies, keys | greetd, logind, outputs |
| output monitor (`src/outputs.rs`) | the outputs, the published region | follow, publish, stop | compositor, greeter |
| accounts, sessions, identity (`src/accounts.rs`, `sessions.rs`, `locker/identity.rs`) | the list being built | discover, parse, look up | AccountsService, files, NSS |
| wallpaper players (`src/wallpaper.rs`) | worker and supervisor threads, pipeline, decoder process, latest frame | start, loop, stall, fall back, fail, reap, drop | GStreamer, decoder process, consumers |
| dynamic wallpaper (`src/dynamic_wallpaper*`) | schedule, decode in flight, dissolve | select, decode, retry, dissolve, wake | clock, location, libheif |
| HEIC files (`dynamic_wallpaper/container.rs`, `heic.rs`, `stable_file.rs`) | budgets spent while reading | preflight, parse, decode, convert | libheif, moxcms, plist |
| desktop wallpaper (`src/desktop_wallpaper.rs`, `geoclue.rs`) | a layer surface per output, the solar refresh | output added, configured, removed, frame, maintain | compositor, GeoClue |
| power, command line | none of their own | single D-Bus calls, parsing | system |

What is hard about it:

- **Concurrency.** The locker's UI thread, its reader thread, the worker process,
  the coordinator thread, other invocations and the compositor interleave freely;
  the greeter's replies arrive from asynchronous tasks; players share state between
  three threads and a process.
- **Staleness.** Prompt ids restart with each PAM transaction; verdicts, replies,
  decodes and presentation feedback can outlive what they were about; a buffer or a
  cached overlay is reused for another picture than the one it was painted for.
- **Failure.** Workers crash after they promised success, owners die and leave
  their socket behind, a descriptor cannot be written, outputs vanish in the
  middle of a handoff, decoders hang, files change while they are read.
- **Waiting.** A UI thread that joins a reader that waits for the UI thread; a
  launcher that reads to the end of a descriptor; a handoff that waits for a
  frame that may never be displayed; a redraw that waits for a callback of a frame
  that another redraw replaced.
- **Limits.** Every reader of a wallpaper file bounds what a library behind it will
  allocate, and must count as the library does.

The `hazards` of `PROJECT.json` list these places by line, with the properties
that are about them.

What makes each part correct: the session is unlocked only by a PAM verdict for
the attempt the user is looking at, and what the user types reaches the prompt it
was typed for (presentation, client, worker); READY means that the compositor
holds the lock, and one owner at a time is reachable at the socket (coordination);
the lock is undone only while it holds (lifecycle); the authentication interface is
on one output at a time and never absent for good (authentication output); every
surface comes to show the latest state and nothing stale (redraw); a greeter starts
the session of the account that was authenticated and never leaves a greetd session
behind (greeter); a player that died or froze is reported, and never outlives its
owner (players); the image on screen is the scheduled one (dynamic wallpaper); what
passes a preflight is within its limits, and what is within them passes (files).

## Modules

### The locked session

**LockAuth** is the UI thread, the reader thread, the worker process and PAM, joined
by two message channels and the bounded event channel.

- *UI thread* (`lock_confirmed`, `receive_auth`, `take_authorization`,
  `push_input`, `pop_input`, `Answer`, `retry`, `cancel_attempt`, `join`,
  `StartWorker`, `StartWorkerFails`): the methods of `LockerPresentation`.
  `retry` and `cancel_attempt` are one method each in the code, but block in
  `Client::cancel` (joining the reader) and in `replace_worker` (waiting for
  Ready); these two waits are the states `joining` and `starting`, in which the UI
  thread does nothing else while the reader and the worker go on. `Answer` and
  `retry` are the two arms of `Input::Submit`.
- *Reader* (`ReaderReceive`, `ReaderSend`, `ReaderBreak`, `ReaderReap`,
  `ReaderSendLast`): `read_worker` and `send_terminal`, cut at each blocking call.
- *Worker* (`WorkerBegin`, `PamPrompt`, `PromptReply`, `PamNotice`, `PamGrant`,
  `PamDeny`, `WorkerExit`, `WorkerCrash`): `run` and `PamConversation`. PAM itself
  is external: it may prompt, notify, grant or deny in any order.

Text is abstracted to where it came from. A keystroke is the prompt that was on
display when it was typed and a response is the set of its keystrokes, which is
what the question "does the password reach the prompt it was typed for" needs.
Prompts carry the number of their transaction beside the id the code gives them;
the code compares ids only, and so do the actions.

LockAuth takes two things as given, and two modules are about them.
**WorkerChannel** has the bytes: a message is written and read in pieces, under
the deadline of `start_with_worker` that must be lifted once the worker is ready.
**PamWorker** has the callback of one PAM transaction: the list of responses is
allocated, filled and handed to PAM or freed, with a failure, a cancellation or a
panic between any two messages, and the user is compared with the one who runs the
worker after the modules have had their say. MCLockAuth puts the three side by side;
the limits and messages of the latter two are its own constants, so that the proofs
about them hold of it too.

**LockOverlay** is what the user sees of all this: prompts and notices wrapped into
pages, the masked field with its bounded input, and the frame that is rendered.

**Coordination** has any number of `genkan lock` processes with their launchers, one
lease, one socket path, the owner's coordinator thread and session-lock runtime, and
the compositor. `enter_paths`, `bind`, `activate`, `connect`, `retry`, `refused` and
`read_to_end` are the steps of `coordination::enter` and `run` between which another
process can act; `CoordinateReady`, `CoordinateAccept` and `CoordinateStop` are the
cases of a turn of `coordinate`; `locked`, `finished`, `RuntimeFails`,
`take_authorization` and `EndRun` are the handlers of the runtime; `DropJoins`,
`DropRemoves` and `DropReleases` are `Active::drop` in its order. A process may crash
between any two steps: the kernel closes what it holds, but its socket file stays
and the compositor keeps the session locked. `everLocked` and `during` are history
variables: the invocations whose lock was confirmed, and those that ran while the
session was locked.

**ScreenLock** is what Coordination promises, without sockets, threads or
descriptors: one holder at a time; the session is locked when the holder's lock is
confirmed, stays locked when the holder is lost, and is unlocked only for a holder
whose own lock is confirmed; a caller is told of success only for a confirmed lock,
its own or that of the holder it joined. `ImplementsScreenLock` instantiates it with
the lease as holder, `everLocked` as the confirmed locks, `joined` as the lock that
serves a caller, and the launcher's outcome as the answer.

**AuthenticationOutput** is the role handoff of `refresh_authentication_output`, and
a compositor that displays commits late, skips superseded ones and unplugs outputs
before the runtime hears of it. `pc` follows a turn of the loop: dispatch, then
reconcile and expire, then render. `refresh_authentication_output` ends most handlers
of the code; its parameters are the state that the handler has reached when it makes
that call, so that each handler remains one action. A configured surface may be
rendered in any turn, or in none: that is the abstraction of Redraw.

**Redraw** is what is painted, into which buffer and when: `RedrawState`, partial
redraws of the overlay, full ones, the priority between them and the wallpaper's
frames, buffer reuse by generation, the cache of the scaled overlay, releases and
frame callbacks. `Turn` is one turn of the loop with all it does. The code compares
generations for equality, so a buffer keeps whether it still has the latest of each.

**Raster** is the arithmetic: buffer sizes, where the overlay lies, which wallpaper
pixel is sampled, how the overlay is filtered. It walks over the pixels of a surface.

### The greeter

**Greeter** is `App::update` with all messages that change what authentication does,
the asynchronous tasks it starts, and greetd as an external service.

- *User* (`InputChanged`, `Submit`, `Retry`, `RetrySession`, `ChangeUser`,
  `RetryUserSelectionCancellation`, `SelectAccount`, `SelectSession`, `AskPower`,
  `CancelPower`, `ConfirmPower`, `CloseRequested`): one action per message.
- *Tasks*: a task is a record in `tasks` whose `step` is its next exchange.
  `restart` and `recover_and_begin_at` are tasks of several steps (`cancel`, then
  `recover` if that failed, then `create`), so that other tasks and messages come in
  between. `Exchange` carries one step out; the connection may break before or after
  greetd acted. A finished task leaves a message in `inbox`, and messages are received
  in any order.
- *Messages of tasks*: `Receive` applies the two filters at the head of `update`
  (`PassesClosing`, `PassesPower`), which may drop a message, and then its handler.
- *greetd* (`Serve`) is modelled from how `src/auth.rs` uses it: one session at a time
  whatever the connection, which asks, informs, is authenticated, and stays until it is
  cancelled. At the start it may hold the session of a greeter that crashed.

**GreeterFocus** is the keyboard: the focus App keeps beside that of the one widget
that takes text, the modal dialogs and the session menu. A key press is seen twice,
by the widget at once and by App's subscription later; `mail` holds the later
messages. Which replies can come in a phase is Greeter's subject.

**OutputMonitor** is the thread that follows outputs and signals App, with the region
App lays its controls out in. **Sessions** discovers desktop sessions in the
directories of `XDG_DATA_DIRS`, in whatever order files are listed; **ExecLine** is
the two strict parsers each entry must pass. **Accounts** lists users while they come
and go, and looks up the locker's user in a buffer that grows.

### Wallpapers

**WallpaperState** has the operators on what a consumer keeps of a player.
**MovPlayer** uses them with the event worker, the streaming thread and the consumer
of a looping video: crossfade over the loop, stalls, the fallback to software
decoding, failure, drop. **HeicPlayer** uses them with the supervisor thread, the
decoder process and its pipe; the decoder hangs, crashes or writes nonsense at any
point, and the host may be killed.

**DynamicSchedule** is the choice of an image by the time of day, with reference
definitions by enumeration beside it.
**DynamicPlayback** is `Playback` with its decodes, retries, dissolves, and a clock
that jumps. **DesktopSurfaces** is the layer-shell runtime of the desktop wallpaper,
**DesktopSolar** the solar schedule's refresh by place and date, **GeoClue** one
request for a location over the bus, any of whose calls may fail.

The readers of a file are each a module: **HeicDocument** (the file is bound, checked
and read while its owner renames and rewrites it), **BoxBytes** and **Container** (box
headers, strings, the walk over boxes with its budgets), **XmlMetadata**,
**PropertyList** and **HeicMetadata** (the packets, lists and schedules in it),
**IccProfile** (the text a profile makes its parser decode), **HeicPixels** (from a
decoded plane to an opaque frame). Their input is chosen while it is read and kept,
so that a property can say what the library behind the preflight will make of it.

## Runs

Components that do not share a step are checked together in one run as alternatives:
a variable `part`, chosen in the initial state, says whose behaviour this is, the next
step is a step of that part, and every other variable stands still. The pool variables
`v1`, `v2`, ... are what the instantiated modules' variables are substituted by; a
part that needs fewer leaves the rest at `Unused`. Fairness is restated for each part
(`WF_vars(part = "locker" /\ ...)`), since a step of another part is never to come.
The state space is the disjoint union of those of the parts, and a property of the
form `part = p => P` is P of that component, unweakened.

| Run | Parts and instance | Shows |
|---|---|---|
| `lock_auth` | LockAuth (event channel 2, socket 1, 2 prompts, 3 attempts, 2 notices), WorkerChannel (2 messages of nine shapes), PamWorker (lists of up to 4 messages) | who may unlock, which prompt a response reaches, that nobody waits for ever, and what this rests on |
| `authentication_output` | 2 outputs, 2 undisplayed commits, 2 feedback objects | the overlay is on one output; no handoff is stuck |
| `authentication_output_live` | 2 outputs, 1 commit, 1 feedback object | authentication comes back and becomes visible |
| `coordination` | 3 invocations, 1 waiter | READY, the socket, unlocking, the refinement of ScreenLock |
| `coordination_stale` | 2 invocations | violation: READY after the unlock |
| `ends` | Coordination (2 invocations), Greeter (2 users, 1 session, 2 attempts), OutputMonitor (8 layouts, 2 changes) | joiners are answered, launchers return, windows close, layouts arrive |
| `greeter` | Greeter (2 users, 2 sessions, 4 attempts, 2 questions, symmetric), GreeterFocus, Sessions, Accounts, ExecLine | answers, the selection, owed replies, closing, focus, discovery |
| `surfaces` | Redraw (1 surface; 2 sizes, scales, backgrounds, overlays, bounds), Raster, LockOverlay, DesktopSurfaces (2 outputs), DynamicPlayback (3 images) | what is painted is current, covered and paced |
| `redraw_live` | Redraw with 2 surfaces | neither overlay nor wallpaper starves |
| `players` | MovPlayer, HeicPlayer (4 frames, a pipe of 2) | handovers, no regression, no freeze, no orphan |
| `wallpaper` | DynamicPlayback, DesktopSurfaces, DesktopSolar, GeoClue | the scheduled image, the latest picture, the location |
| `heic_file` | Container, BoxBytes, HeicDocument, HeicPixels, PropertyList, XmlMetadata, HeicMetadata, IccProfile, DynamicSchedule | limits, approved bytes, content, the circular schedule |

### What the properties say

*lock_auth.* `AuthorizedByCurrentAttempt`: only a transaction that PAM granted for
the current attempt, in a worker that then exited with status 0, authorises.
`ResponseReachesItsPrompt`: what PAM is handed for a prompt was typed under that
prompt. `PromptIsAnswerable`: while the user may type, a live worker is waiting for
the answer to exactly the prompt on display. `WriteNeverBlocks`: at most one message
is unread by a live worker, so the UI thread's blocking writes do not stall.
`ConversationMovesOn`: the join cannot hang, a dead worker is reported, and a prompt
gets through the bounded channels. `WorkerKeepsItsWord`: messages are received as
sent however the stream is cut, a silent worker is kept and a slow start is not; the
responses of a PAM callback have one owner at any time and answer its prompts, a
grant is for the user who runs the worker, and every transaction is ended.

*authentication_output, authentication_output_live.* `OneOutputShowsAuthentication`
is about what the compositor displays and not about flags of the runtime.
`HandoffIsUnderWay`: a handoff awaits a commit that is pending or feedback that is
owed. `AuthenticationReturns`, `AuthenticationBecomesVisible`.

*coordination.* `ReadyAfterConfirmation`: READY only for a lock the compositor
confirmed. `SocketLeadsToOwner`: while an owner starts and runs, the path is its
own and leads to its listener. `UnlockOnlyWhileLocked`: an unlock follows a
confirmation and READY, and no failure. `ImplementsScreenLock`.

*ends.* `LockerAnswers`: every invocation that waits on another is answered and every
launcher returns. `GreeterMovesOn`: a window that is being closed closes though
greetd hangs, the layout the compositor ends with reaches App, and dropping the
monitor returns. `RegionIsOnScreen`: authentication is presented within the window,
and a region App does not know is one it will be told of.

*greeter.* `ResponseReachesItsQuestion`: what greetd takes as an answer was typed under
that question. `ExitStartsSelection`: when the greeter exits, greetd is to start the
selected desktop session for the user on display. `ReplyIsOwed`: a phase that waits has
exactly one reply to come and the others none, so neither a filter nor a stale attempt
strands the greeter. `RequestFitsSession`: a request over the current client finds
greetd's session in the state it is meant for. `CloseLeavesNoSession`: a window that
closes after a confirmed cancellation leaves no session in greetd. `FocusIsOffered`:
focus rests on a control that is offered and text goes to the field only if it has the
focus, Tab reaches every control, a late key for a control that is gone does nothing, a
menu gives way to what interrupts it, and the session that is being started does not
change. `DiscoveryIsDetermined`: the first directory that has an entry decides
whatever the order of files, one unreadable account loses one account, a user is
preferred only when that is certain, a name-service entry that fits is read, and an
entry passes if and only if it is unambiguous and its command is well formed.

*surfaces.* `SettledScreenIsCurrent`: a lock surface with no redraw pending shows
exactly the current frame in its size and role, region by region; that frame is of the
current conversation, no input outgrows the buffer that is wiped, and every text is
shown from its first line and, by turning pages, in full. `PixelsAreCovered`: the
overlay lies within the surface and within what a partial redraw repaints, every pixel
has wallpaper under it, filtering keeps flat colours, a preview shows what the lock
shows. `CommitsArePaced`: a callback is owed to exactly the surfaces that wait for one;
on the desktop no commit overtakes it but one of a new geometry, commits fit
their surface, and a buffer the compositor reads is not painted. `OnlySelectedAppears`:
an image comes on screen only while it is selected, however late its decode returns.

*redraw_live.* `RedrawHappens`, `MediaIsPolled`: under endless input and media, every
pending redraw is committed and the wallpaper is polled again and again.

*players.* `HandoversAreCurrent`: the loop request and the held frame are those of
this pass, a failure waits until it is taken, the process a cancellation kills is the
decoder that was not reaped. `BackgroundNeverRegresses`: no frame shows after a
failure, and neither an older frame nor the poster comes back. `PlaybackNeverFreezes`:
stalls, failures and a decoder's death reach the consumer, which drops the player;
that returns; the decoder is reaped, also when the host is killed.

*wallpaper.* `ScheduledImageIsShown`: a selected image that decodes is shown in full
before the selection moves on, and a blank screen gets a picture even if the selected
image is broken. `LatestIsShown`: once the outside is quiet a surface shows the latest
picture in its geometry, and a dissolve ends. `LocationIsSought`: locations are sought
while there is hope, sparingly, and each date gets its mapping; a request misses no
fix that it can read or that is published while it listens, stops the client it started
and reports a refusal as final.

*heic_file.* `LimitsAreExact`: what passes is within the limits as the library will
count, and a file is refused for a limit only when it is over one.
`ParserUsesApprovedBytes`: libheif reads, at the parse and at each decode, only bytes
that the preflight approved. `ContentIsKept`: colours to within rounding, the
properties of the packet and no other text, whatever the order of blocks; images that
exist, of a light and dark pair that some property states, and the primary image only
where none does. `ScheduleIsCircular`: DynamicSchedule against its reference definitions.

Each property has a mutant in `PROJECT.json`: the definition of one step changed as a
plausible mistake would change it, under which TLC finds the property violated.

### Bounds and why they are enough

- LockAuth: three attempts allow a stale one, its replacement and a retry of that;
  two prompts reach the limit and an id that two transactions share; a full event
  channel (2) with a full socket (1) and a reader holding an event is the case that
  could deadlock a join. The proofs remove these bounds for the safety properties.
  WorkerChannel has messages at and beyond every limit, and a second message whose
  first bytes may be read with the first. PamWorker's lists are one longer than
  `PAM_MAX_NUM_MSG`.
- Coordination: an owner, its successor and a joiner of either make three. One waiter
  reaches `MAX_WAITERS` with two joiners.
- AuthenticationOutput: a handoff has two ends. Two undisplayed commits are
  the least in which one supersedes another; two feedback objects allow a
  commit made again after a discard. One output is internal and the other requested,
  so that late names change the selection in both directions.
- Redraw: buffers, caches and callbacks belong to one surface, so safety needs one,
  with two of everything that a buffer may be stale in; one size at twice the scale
  has the pixels of the other, the case in which a buffer fits and must not be reused.
  Starvation needs two surfaces, and one of everything else (`redraw_live`).
- Greeter: four attempts are a login, a change of user, the second user's login and a
  retry of any of them (the change of user needs its own attempt); two questions tell
  an answer to one from an answer to the other. GreeterFocus has two late messages,
  enough for one to overtake the other's effect.
- Players: four frames overrun the pipe of two; timeouts are one or two ticks, of which
  only the order matters.
- Playback: a day of five or seven seconds with a boundary at its end, one jump of the
  clock, one decode in flight that a newer selection may outdate, and broken or flaky
  images.
- Files: limits of two or three, inputs one beyond each, and for every limit two ways
  to reach it (spread, nested, shared or repeated).

Deadlock checking is off where the system stops by design: after the unlock, when
every invocation has exited, when a window is closed, a player dropped or a file read,
or when a bound on attempts or events is used up. AuthenticationOutput and
`redraw_live` run for ever and are checked for deadlock.

### Fairness

Threads that can run do run: the runtimes' loops poll at least every `FRAME_INTERVAL`, and
blocked reads, joins and sends resume when they can. The start of a worker is bounded by
`READY_TIMEOUT`. In AuthenticationOutput a deadline passes eventually and the compositor
displays what was committed to an output that stays plugged in; rendering a changed role
has strong fairness, for `maintain_surfaces` tries in every turn and a turn in which a
buffer is free recurs. In Redraw the loop turns, and the frame callback of a committed
surface comes though it may be superseded (strong fairness, since each commit replaces the
callback that was owed). In Greeter messages are handled and the close timer expires;
tasks have no fairness, for greetd may never answer. In MovPlayer the worker, the
callback, the consumer and the clock go on, and a pipeline that is being shut down gets
there (strong fairness: it may be asked while a callback runs); samples, bus messages and
the end of a seek have none, for a pipeline may stall. In HeicPlayer the supervisor and
the consumer go on; of the decoder only its first step is assumed (`bind_to_parent`), by
which the kernel ends it with its parent. In DynamicPlayback the consumer calls its
playback, decodes return (with a failure perhaps) and time passes; in DesktopSurfaces the
loop runs and the compositor answers callbacks and releases buffers of visible surfaces;
in DesktopSolar the location worker answers, which its own timeout ensures. Nothing is
assumed of the user, PAM, crashes, hot-plugging or, in Coordination, of the compositor.

### Divergences from the documents

`rfd/0003/README.adoc:176` says that a second invocation returns success only when
the existing locker is confirmed locked. The run `coordination_stale` shows an
invocation that starts after the unlock and is told READY: the coordinator thread
remembers the confirmation and answers until `Active` is dropped, after the unlock's
roundtrip (`coordination.rs:352`). The window is short, and the session is unlocked
while the caller believes that it is locked.

`rfd/0004/README.adoc:252` says that the solar mapping is recalculated at local
midnight. After a refusal of the location (`solar_terminal`,
`src/desktop_wallpaper.rs:1126`) the desktop wallpaper gives up for the life of the
process. `LocationIsSought` and `MappingFollowsDate` are stated for what the code
does: as long as there is hope.

`geoclue.rs:195` says that a fix which arrived before the match rule was installed is
still observed. `read_location` takes a failed read of `Location` for no location
(`geoclue.rs:234`), so that after a failure the request waits for a newer fix, or for
its timeout, although there is one. `NoFixIsMissed` is stated for what the code does:
the request waits only if there is no fix, or none newer than the one it could not
read (`unseen`). It has no run of its own: a timeout is retried, so no fix is lost for good.

## Proofs

Each `...Proofs` module extends the module of its name; LockAuthProofs, PlayersProofs,
EndsProofs, GreeterProofs, SurfacesProofs and HeicFileProofs extend MCLockAuth, MCPlayers,
MCEnds, MCGreeter, MCSurfaces and MCHeicFile. None of the properties of a
behaviour is inductive as it stands; each proof has an inductive invariant, one lemma per
action that keeps it (`Invariance`), and from it the type invariant (`TypeCorrect`) and the
properties that the runs check. TLC checked every invariant on the instances of the
runs before it was proved.

| Module | Assumed of the constants | Theorems |
|---|---|---|
| LockAuthProofs | `CapacityAssumption`: both channels hold at least one message; `PamAssumption`, `ChannelAssumption`: limits are numbers, the worker's user is a user, and what WorkerChannelProofs assumes | `Authorization`, `Responses`, `Prompts`, `Writes`, `Word`, `PamOwnership`, `PamVerdict` |
| WorkerChannelProofs | `WorkerChannelAssumption`: sizes and limits are numbers, a header is not empty, the deadline is not zero, a payload holds the largest text and the largest response | `Framing`, `Timeouts` |
| AuthenticationOutputProofs | `OutputAssumption`: finitely many outputs, by which the first name among them exists | `OneOutput`, `UnderWay` |
| GreeterProofs | `GreeterAssumption`: the markers for "none" are no users or sessions, bounds are numbers; `FocusIsBounded`: there is an account, bounds are numbers | `Answers`, `Exit`, `Owed`, `Fits`, `Closes`, `FocusStaysOffered` |
| SurfacesProofs | `LockAssumption`, `OverlayAssumption`, `DesktopAssumption`, `ImagesAssumption`: limits are numbers and not zero, the markers for "nothing" are no surfaces or pictures; `PaintAssumption`: limits are numbers and not zero, the limit on bytes fits a `u32` | `ScreenIsCurrent`, `CommitsPaced`, `SelectedAppears`, `OverlayAndWallpaperLie` |
| PlayersProofs | `TimeoutAssumption`: timeouts are numbers and not zero; `MarkerAssumption`, `HeicAssumption`: the markers for "no frame" and "failed" are no frames, the pipe holds at least one | `Handovers`, `Background` |
| HeicFileProofs | `FileAssumption`: lengths and limits are numbers; `DayAssumption`: day, grain and the spacing of samples are not zero, and the spacing divides the day | `ApprovedBytes`, `CircularSchedule` |
| EndsProofs | `InvocationAssumption`: `NoOne` is no invocation, `MaxWaiters` is a number; `MonitorIsSized`: layouts are sequences of outputs, positions and sizes have a bound, windows are not empty | `Ready`, `Socket`, `Unlocking`, `Refinement`, `OnScreen` |

**LockAuth.** The invariant is a turn-taking discipline: while a worker lives, exactly
one party has the turn. For each place the worker can be in, `AwaitBegin`, `InPam`,
`AwaitResponse`, `AwaitRetry` and `Exiting` say what the two channels, the reader and
the conversation look like: the one message that changes whose turn it is travels
behind notices only (`Carried`), or the links are drained and it is the user's turn,
or the one reply is under way. To it come `LiveInv` and `ClientInv` (a live worker
belongs to the current client and the current attempt), `GrantInv` (a success in any
channel was granted, and past the reap its worker exited cleanly) and `InputInv` (what
is typed belongs to what is on display).

**What LockAuth takes as given.** `Word` is `WorkerKeepsItsWord` of MCLockAuth, proved
from the invariants of PamWorker and WorkerChannel through the instances that the run
uses. In PamWorker the list of responses is in one of three hands, and which one
follows from the place the transaction is in (`ListInv`); while the guard has it,
the messages before `index` are answered and nothing is allocated for the others
(`SlotInv`), so that a failure at any message frees exactly what there is. In
WorkerChannel the frames lie in the stream without gaps (`FrameInv`) and the receiver
has taken exactly the frames of what it received and the part of the next that it
counts (`PlaceInv`), so that the bytes it takes for a header are one; the limits by
which a frame was made decide what the receiver finds in it. `TimeInv` has the rest:
before READY the socket's timeout is what is left of the deadline, and after it none.

**Coordination.** Path, listener, coordinator thread and lifecycle are single variables
that outlive their owner; the lease is what they hang on. `LeaseInv` says who holds
it, `PathInv`, `ListenInv` and `RunInv` tie the others to the place the holder is in,
`ConfirmInv` follows everything that says "locked" back to a confirmation of the
holder's own lock, and `JoinInv` ties each connection to the owner whose listener it
reached. `Refinement` is by the same invariant: every step of Coordination is a step of
ScreenLock or leaves holder, session, confirmed locks and answers as they are.

**AuthenticationOutput.** What is displayed lags behind what the runtime knows, so the
invariant is about what may still be displayed (`MayShow`): an output whose screen, or
one of whose commits under way, shows authentication either has the role or is the one
that retires (`ShowInv`). The commit whose presentation the runtime waits for is the
last with another role on its output (`WallpaperInv`), so that when it is reported, and
the role moves on, nothing older is left to display. `OwedInv` is that this report, or
its discard, is still to come. The invariant also shows that a retiring output always
has a configured surface, so that on a timeout the role is always restored and the
refresh in `expire_authentication_retirement` (`runtime.rs:1013`) is never reached.

**Greeter.** Apart from a power action and the cancellation of a closing window, at most
one task or reply is under way at any time, whatever the user does (`OneAtATime`), and
it is of the current attempt and of the kind the phase expects (`CurrentInv`). What a
reply says of greetd's session is therefore still true when App handles it
(`ReplyInv`), and what App asks next fits the session (`TaskInv`). `CreateInv` and
`ConfirmInv` are for closing: no creation is under way once a cancellation counts.

**The players.** They are proved as MCPlayers runs them, either the video or the HEIC
player (`PartInv`). A video has one request to loop at a time: the callback that saw the
last frame has it, then the bus, then the worker that seeks (`LoopInv`), and from the
request to the seek every sample is dropped, so that nothing of the old pass replaces
the frame held for the next. For the HEIC player, the supervisor's place says whose the
decoder is (`SlotInv`), what may be on the pipe follows from the decoder's place
(`PipeInv`), and frames are in order from the one shown over those uploaded, pending and
relayed to those on the pipe (`OrderInv`): whatever the consumer takes next is later
than what it has.

**OutputMonitor.** The region is always that of the layout the thread knows
(`RegionInv`), and lies within it: some output with an area is selected
(`SelectIsOutput`), the sides of the layout enclose it (`SidesEnclose`), and the parts of
a length, scaled and rounded down, fit in what the length is scaled to (`ScaledFits`).
Every new version takes a layout that was announced (`VersionInv`). Before its
subscription starts App has the region, or there has been a version since the first
(`SeenInv`): the subscription, which has seen the first, then hears of it. Positions
and sizes are bounded by `Extent`, any number, from which layouts have sides.

**The surfaces.** A lock surface that owes no redraw shows the current frame because of
what its buffers hold (`SurfaceInv`): a buffer that a partial redraw may trust has the
current picture outside the overlay (`BuffersInv`); what a commit leaves out is pending
(`PendingInv`); the screen is current when nothing is pending, and agrees with every
trusted buffer outside the overlay when only the overlay is (`ScreenInv`); a cached
background is that of its key (`CacheInv`); and a callback is owed exactly while
`frame_pending` is set. For the overlay, what was seen of a text are the pages turned so
far, which follow each other from its first line (`OverlayInv`). A desktop surface has at
most two buffers, and waits for a callback exactly when one is owed (`DesktopInv`). A
playback decodes the selected image, or the primary one for an empty screen, and a
dissolve is to the selected image with nothing else under way (`ImagesInv`).
For Raster, `OverlayAndWallpaperLie` has three of the five parts of `PixelsAreCovered`,
for every frame and every surface within any limits: the overlay lies within
the surface and within what a partial redraw repaints, every pixel has wallpaper under it,
and no product on the way overflows. The argument is about quotients: the edges that
scaling rounds down and those that it rounds up enclose what they scale.

**The focus.** What can be focused is a sequence that has everything offered, each once
(`OrderFacts`), and the focus is in it whenever the page is settled (`OfferedInv`). A
dialog is open only over a settled page, so that no reply changes the page under it
(`DialogInv`); iced and App differ about which input has the focus only while the press
that changed it is on its way (`TypingInv`); the session menu is open only where there
are several sessions (`SeveralInv`). That Tab reaches every control in one round is a
least-number argument (`RoundHasAll`).

**The files.** The document that is opened is bound to one regular file, whatever the
path leads to later (`BoundInv`); its owner may rewrite that file, so its bytes count for
nothing after the copy was made (`DiskInv`), and the parser reads the copy, whose bytes
were all approved (`CopyInv`). That libheif finds the strings that the preflight found
(`SameString`) is about a loop: `read_cstring` searches for the first zero, the reader
takes bytes until it meets one. Such a loop is a function defined by recursion. That there
is one is shown by giving a function that satisfies the definition, as TLA+ has it only if
there is; what it yields by the least step at which it would not.

**The schedule.** The halving search of `effective_boundary_second` finds the first second
that a point has reached (`SearchFinds`), for a day of any length. The points are sorted
by giving each its rank, and ranks are a permutation, as none is taken twice and there are
as many as points (`PlaceIsTaken`, `Sorting`). What is in effect, where its dissolve
begins, and how long a sleep may be, then follow by cases of where midnight lies:
between the last boundary and now, or between now and the next (`MostRecent`, `DissolveHolds`,
`WakeHolds`). For the nearest second, the samples and the refinement around the best of
them are folds (`NearestOf`), the sun's distance grows on both sides of the second at which
it is nearest (`DistanceGrows`), and the best sample lies within one spacing of that second
(`NearestSample`), so that the refinement meets it.

Only model-checked:

- all liveness properties: fairness and ENABLED are outside the prover's reach;
- `LimitsAreExact`, `ContentIsKept` and `DiscoveryIsDetermined`: what folds over boxes,
  nested lists, texts and directories compute needs induction over data; what
  `LimitsAreExact` says of the document (`ReadIsBounded`, `PlanesFit`) follows from
  `DocumentInv` (`DocumentImplies`);
- of `PixelsAreCovered`, `FilterKeepsFlatColour` and `PreviewMatchesLock`: the weights of
  the filter are sums over folds.

## What is not modelled

- Glyphs, wrapping and fitting of text, blending, styling and widgets: pure functions
  of a text or a frame. What depends on them (pages, the region that is repainted) is
  modelled from their results.
- Keyboard objects and key repeat of the session-lock runtime: one keyboard per seat,
  created and released by capability events; keys arrive as inputs.
- The elements of the GStreamer pipeline, and the iced widget of `background.rs`.
- The sun's position: floating-point trigonometry. Its distances to an authored
  position are an input of DynamicSchedule. The conversion of calendar dates likewise.
- libheif, moxcms, the plist and XML crates: external. The models say what they
  will read, from how the code in `src/` counts for them.
- Sizes derived from video modes, and the painting of pictures on the desktop.
- Hardening and descriptor hygiene of spawned processes: done once, with no state.
- Command-line parsing and previews: no state.

## Plan

1. The weights of the filter of Raster: that they sum to the scale of the filter for
   every pair of lengths, from which `FilterKeepsFlatColour` follows.
2. `LimitsAreExact` beyond the document: `WalkMovesOn` first, as the walk of boxes is steps
   and not a fold.
