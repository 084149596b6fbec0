# Verification of the Wayland server

TLA+ models of the Wayland server for Haiku in `src/`: what each of its parts
keeps, does and promises, checked with TLC on small instances and, for the
properties that matter most, proved with TLAPS for all of them.

1. [The system](#1-the-system)
2. [Modules and code](#2-modules-and-code)
3. [Runs](#3-runs)
4. [Proofs](#4-proofs)
5. [What the models show about the code](#5-what-the-models-show-about-the-code)
6. [Not modelled](#6-not-modelled)
7. [Plan](#7-plan)

`PROJECT.json` lists the components, the runs with their properties, the faulty
variants (definitions under a comment "Faulty: ...", one of which breaks each
property), the source lines of every definition, the hazards of the code and the
theorems.

## 1. The system

The server runs inside the client's process. Two kinds of threads meet:

* the **server looper** (`WaylandServer`), which dispatches the client's
  requests; whoever touches the state of the protocol holds its lock;
* one **window looper** per `BWindow`, started by the system, which dispatches
  what the `app_server` and the user send: mouse, keyboard, drops, draws,
  activations, resizes, quit requests.

A window's handler that wants the server takes a `WaylandEnv`: it gives its own
looper's lock away, waits for the server's lock, and has both back at the end.
A request that removes a view has to wait for such a handler
(`WaylandEnv::Wait`), giving up both locks in turn. All state is in memory; a
crash takes client and server together, and messages are neither lost nor
duplicated. What makes the code hard is order: of handlers and requests, of the
queues of several windows, and of configure events and the client's answers.

| Component | State | Operations | Hard | Right when |
|---|---|---|---|---|
| `WaylandEnv`, `AppKitPtrs` | locks of server and windows, `fActiveWlEnv`, `fWaitSem` | open, wait for, close an env | interleaving, lost wakeups, lock order, starvation | a view stays under its handler; waits end |
| Views and roles (`HaikuCompositor`, `HaikuSubcompositor`, `HaikuXdgToplevel`, `HaikuXdgPopup`) | surfaces, their views and windows, tree of subsurfaces, `fToplevel`/`fPopup` | create and destroy roles and surfaces, attach, detach, quit | removal of a subtree in several steps | no view without its role, no window deleted under its views, focus never dangles |
| Surface state (`HaikuSurface`, `HaikuShm`, `HaikuViewporter`) | current and pending state, dirty fields, content serial, native cache, references | attach, damage, commit, draw | skipped redraws, stale cache, buffers reused or freed | the screen shows what was committed; buffers are counted and given back |
| Frame callbacks (`HaikuSurface`, `WaylandView`, `DoublyLinkedList`) | pending and committed list, links of each callback | frame, commit, draw, pulse | two threads at one list | each callback is answered once, in order, if something will |
| Toplevel configure (`HaikuXdgSurface`, `HaikuXdgToplevel`, `HaikuServerDecoration`, `HaikuScale`, `DoTrack` of `HaikuSeat`) | serials, geometries, remembered width, frame, limits, mode, the edge dragged | configure, ack, geometry, commit, resize by the user or by the seat, fullscreen | crossing messages, fractional scale | sizes settle, nobody undoes a resize not seen |
| Popup position (`HaikuXdgPositioner`) | positioner state, popup rectangle | setters, flip, slide | two axes, boundaries | each axis by its rules, inside the work area |
| Pointer focus (`HaikuSeat`) | focus, what it is tracked for, grab, buttons | moves, presses, releases, drops, move and resize requests | one mouse, several queues | focus follows the mouse, grabs and presses end |
| Keyboard, text input (`HaikuSeat`, `HaikuTextInput`, `XkbKeymap`) | focus, who entered, keys and modifiers told, confirmed string | activation, keys, modifiers, keymap, input method events, commit | late deactivation, tables that must fit each other | focus follows the active window, no key stays pressed, a key means to the client what it means to Haiku, a string is committed once |
| Data device (`HaikuDataDeviceManager`) | sources, the device's source, pending drop, clipboard watcher | selection, drag, drop, finish, release | several ends of one use, releases heard in several windows | no dangling source, one end per use, current selection |
| Data conversion (`HaikuDataSource`, `HaikuDataOffer`) | offered types, message, offer | to and from `BMessage` | a type lost on the way | data comes back, what is offered can be received |

Interaction: the data device hooks into the seat's mouse messages
(`DragAndDrop` composes the two); requests and draws of surface state are single
steps because the env and the server lock serialise them, which is what
`WaylandEnv` shows; the seat's focus pointers are cleared when a surface dies,
in `WaylandEnv` and in both focus modules.

## 2. Modules and code

Names of actions and variables are the code's. Every module that has theorems is
written without recursive operators; its theorems are in `<Module>_proofs`.

**WaylandEnv** (`WaylandEnv.h`, `AppKitPtrs.h`, roles in `HaikuCompositor.cpp`,
`HaikuSubcompositor.cpp`, `HaikuXdgToplevel.cpp`, `HaikuXdgPopup.cpp`). `pc` gives
each thread's place; each step is what runs between two lock operations. A request
goes from `idle` through `locked` to a role's creation (`CreateWindow`,
`AttachWindow`) or to `Detach`, the loop of `RemoveDescendantsAndSelf`, and `Wait`
(`waitRelease` ... `waitLooper`, one label per lock or semaphore operation). A
window dispatches a message, opens an env (`OpenEnv`: gives its looper up, waits
for the server), runs the handler, and closes it. `looper[w]` is owner and nesting
count, as `BLooper` has them; `LockedPtr` is a nested lock. **ViewLifecycle** is
the abstract specification: surfaces are created, shown, entered by handlers, get
the focus, are removed and destroyed; a view with a handler running on it is never
removed.

**SurfaceState** (`HaikuSurface`, `WaylandView::Draw`, `DrawSurfaceTree`,
`EnsureNativeCache`, `HaikuShmBuffer`, `HaikuViewport`). One surface and its
subsurfaces, with buffers that they may share. One action per request;
`HandleCommit` is the whole commit: state, content serial, buffer and release,
place and extent of the view, invalidation, and the window that
`XdgSurfaceHook` shows when there is a buffer (`fSurfaceInitalized`). The steps of
the `app_server` and the window are `AttachWindow`, `Detach`, `BeginUpdate` and
`Draw`. A window starts hidden (`open`), and hidden windows are not drawn. `bounds`
says which views have valid bounds: a surface without buffer and viewport has none,
and `Draw` of a root without them returns before it draws anything, subsurfaces
included. Buffer contents are versions; `committed` remembers the version a commit
with damage covered, `owed` the releases, `unplaced` the subsurfaces whose move
waits for the root's commit: these three are history. **DoubleBuffer** is the
abstract specification: a current and a pending state, of which a commit makes one
of the other.

**XdgConfigure** (`XdgSurfaceHook::HandleCommit`, `HaikuXdgToplevel`,
`WaylandWindow::FrameResized`, `HaikuServerDecoration`, `HaikuScale.h`). One
dimension of the size, in native pixels for the window and logical ones for the
client, with the rounding of `HaikuScale.h` written out. `wire` holds configures
on their way. The `BWindow` is modelled from its use: `ResizeTo` posts a
`B_WINDOW_RESIZED`, of which the window keeps the last, and clamps to the limits.
A decoration starts in a mode of its own, `Initial`, until the client asks for one.
The seat's interactive resize is in it too (`HandleResize`, `MouseMoved`,
`MouseUp`): `track` is the edge and the `wndWidth` that `DoTrack` remembers, and a
mouse move asks the client for a size that nothing in the window backs yet.

**FrameCallbacks** (`HaikuSurface::HandleFrame`, the part of `HandleCommit` that takes
the callbacks, `CallFrameCallbacks`, `WaylandView::Pulse` and `Draw`,
`util/DoublyLinkedList.h`). The list is there link by link, and a step of
`TakeFrom` or `Remove` is one access to memory that both threads use. `asked` and
`committed` are the queues the client means; `raced` says that both threads were at
the committed list, which is a data race: from there every outcome is possible, and
the model only lets what had begun go on (`Over`).

**XdgPositioner** (`HaikuXdgPositioner.cpp`, `HaikuXdgPopup::UpdatePosition`).
`GetPosition`, `UnconstrainByFlip`, `UnconstrainBySlide` and
`UnconstrainByResize` are operators on rectangles with both edges inclusive, as
`BRect` has them; the setters and the popup that asks for a position are the
state machine. Coordinates are integers.

**PointerFocus** (`HaikuSeatGlobal::MessageReceived`, `SetPointerFocus`,
`DoTrack`, `WaylandView::MessageReceived`). `Handled` is the handler as a
function of the seat; `mail` the queue of each window. A message is posted to all
windows and heard by each view of theirs, which is what the event mask the views
set asks for; each view has its own transit. `Window` is the window a view is in,
`Target` is the surface that a view's messages are routed to. A drop says whether
the dropped message has the field `be:drag_message`, as another application's
may: `EndsDrag` is the code's `isDrag`.

**KeyboardFocus** (`SetKeyboardFocus`, `WaylandView::WindowActivated`, the keyboard's
part of `HaikuSeat.cpp`, `HaikuTextInput.cpp`). `mail` again; `told` is what enter
and leave events said, `pressed` and `mask` what a keyboard was told of keys and
modifiers. **Keymap** is what it uses of `WaylandKeycodes.h` and `XkbKeymap.cpp`:
the table of codes, the masks, and the keymap text as a function from codes to a
type and symbols, of which a later statement about a code replaces an earlier one.

**DataDevice** (`HaikuDataDeviceManager.cpp`). Every path that uses a source or
ends a use. `owed[s]` counts uses less ends; `missed` is history, and says that the
watcher could not lock the clipboard when it was last told of a change.
**DragAndDrop** composes
`PointerFocus` with an instance of `DataDevice`: the device's hooks run in the
step in which the seat handles the message. **DataTransfer** is the conversion
of types between clients, `BMessage` and offers, contents being named by what
made them.

The `MC` modules give the constants of the instances.

### What is assumed of the client and of Haiku

* A client destroys a role before its surface and makes no loop of subsurfaces.
  The server does not check either.
* In `XdgConfigure` the client sets the size of a configure it has acked; other
  sizes come from itself (`Size`). `inOrder` says that it chose geometry and
  decoration when it mapped, no resize was clamped by its limits, and under server
  decoration no drag by the seat asked for a size while another resize was unseen or
  unanswered; `SizesSettle` and `NoResizeLoop` speak of such clients, since no
  document says what should win otherwise (section 5 says what happens).
* A drag leaves the window a width. The code has no such limit at the top left.
* A lock's and a semaphore's waiters are woken in turn, a looper goes on
  dispatching its queue, messages of one window arrive in order.

### Abstractions

* `SurfaceState`: regions, offsets and viewport rectangles are members of a small
  set; the tree is fixed and surfaces are not destroyed there (they are in
  `WaylandEnv`, which has no buffers). Clipping and the frame's place on the screen
  are left out, and the offscreen bitmap is taken to be allocated. `ScreenCurrent` and
  `ContentShown` are about a `Settled` window: shown, its root with an extent, no draw
  owed or under way. They leave out subsurfaces without a view, which no commit of
  theirs has drawn again.
* `PointerFocus`: no positions, wheel or motion events. `calm` and `orphaned` are
  history: all messages had been handled when the mouse last moved; the surface in
  focus lost its view. When a window goes its queue goes.
* `KeyboardFocus`: keys do not repeat; a confirmed string is only "there".
* `Keymap`: symbols are what they come from, a key's name or an entry of Haiku's
  tables, not their spelling; one group; no dead keys.
* `FrameCallbacks`: one surface; of its view only whether a draw is owed. Memory of a
  callback that was answered may be used for the next.
* `XdgConfigure`: one dimension; the offset of the geometry is left out.
* `DataDevice`: the device exists from the start and is not released.
* `DragAndDrop`: the clipboard and drags from surfaces without a view are left to
  `DataDevice`; the user starts a drag with a button down. `dragged`, `fate`,
  `sound`, `clean`, `early` are history.
* `DataTransfer`: empty data counts as absent; URLs, UTF-16 and pictures are only
  named. Types that are the names of string fields are excluded from
  `OfferedIsReceivable`.

## 3. Runs

Deadlock is checked in all of them.

| Run | Instance | Shows |
|---|---|---|
| `locks` | three surfaces in a chain, a toplevel window and a popup window, the desktop may close the toplevel; 1.9 million states | `EnvKeepsView`, `EnvAsserts`, `FocusAlive`, `NoBadDeletion`, `NoCircularWait`, `WakeupNotLost`, and that `ViewLifecycle` is implemented |
| `locks_live` | one surface, two windows | `DetachCompletes`, `EnvCloses`, `WindowCloses` |
| `popup_quit` | a popup window that is asked to quit | violates `NoBadDeletion` (section 5) |
| `surface_state` | a window with a subsurface; the client draws both and may use one buffer for both, destroy it and create it anew, write into it, move the subsurface or give it a viewport; native cache on; 520 thousand states | `ContentShown`, `ScreenCurrent`, `CountsHolders`, `ReleasesBalance`, and that `DoubleBuffer` is implemented |
| `frame_callbacks` | three callbacks, with and without the frame rate limit, on a toplevel or a subsurface; 21 thousand states | `ListsAreQueues`, `EnvKeepsApart`, `CallbacksAnswered` |
| `xdg_configure` | scale 5/4, two sizes of the client, one of the user, limits that clamp, fullscreen, two modes, both edges dragged; 4.3 million states | `SizesSettle`, `NoResizeLoop`, `UnseenResizeStands`, `LookFollowsMode` |
| `decoration_default` | a decoration whose client asks for no mode | violates `DefaultModeUntilAsked` (section 5) |
| `positioner` | popups that fit, stick out on either side by one or more, or are one larger than the work area | `AxesIndependent`, `SlideFits` |
| `pointer_focus` | a window with a subsurface and another window, one button, one `wl_pointer`; 2.9 million states | `FocusTold`, `GrabEnds`, `NoStuckButton`, `FocusFollowsMouse` |
| `keyboard_focus` | two windows, a keyboard and a text input, a shift key, an option key and a letter; 1.5 million states | `FocusTold`, `FocusFollowsActivation`, `CommittedOnce`, `NoStuckKey`, `SymbolsAgree` |
| `data_device` | three sources, two uses each, three clipboard notifications, each of which may find the clipboard locked; and all subsets of the types that are converted, and of what can be read of them; 87 thousand states | `SourceKnown`, `EndsOnce`, `SelectionCurrent`, `OwnDataComesBack`, `OfferedIsReceivable` |
| `drag_and_drop` | two windows, two buttons, one source; 2.5 million states | `LostDragEnds`, `CleanDropWaits` |

### Bounds, and why they are enough

* `locks`: removal of a subtree is recursive, so a chain of three surfaces has a
  view above, at and below each step; two windows are needed for a handler in one
  while the other is being closed. A third window would add nothing that two
  handlers waiting for one lock do not. Nothing else is bounded.
* `MaxMail` = 2: two messages per queue are enough for every order of any two
  messages in two windows, and for a view that hears the first of them while the
  second waits. `pointer_focus` has the subsurface, `drag_and_drop` the second
  button, so that presses and releases overlap. In `keyboard_focus` a modifier posts
  two messages at once, which fills a queue; `SymbolsAgree` looks at all 107 keys, of
  which only three are pressed, since a key is looked up without regard to the others.
* `MaxSerial` = 3, `MaxWrite` = 1: a rendered copy, a write after it with or without
  damage, and a commit after that which may take the copy for current. One buffer is
  used again under its old name, as an address is. In `surface_state` the client
  draws both surfaces (`Drawing`), and besides that either moves the subsurface or writes
  into the buffer, not both, with three commits of new content between the two surfaces
  (`MaxSerials` = 5); or it draws the root once and asks for the two members of the
  subsurface's viewport, which share a bit, and for frame callbacks (`Arranging`). What
  this leaves out (all at once, the other members, more surfaces and buffers) is
  covered by the theorems.
* `data_device` runs `DataDevice` and `DataTransfer` one at a time, each while the other is
  in its initial state: they have no variable in common, so a state of the two together
  is one of each, and no property is about both.
* Three callbacks: two in the list, so that there is a first, a last and a link between
  them, while a third is committed or asked for.
* `MaxAsked` = 3 resizes by user, client or seat, and `MaxWish` = 2 geometries: three
  resizes may be under way against one commit, and a second one may follow. At a scale of
  5/4 the sizes 4 and 5 share a neighbourhood of native sizes, the user's 7 is no image
  of a logical size, and a mouse that moves by 2 goes over 1.6 logical pixels.
* `MaxUses` = 2, `MaxChanges` = 3: a use after a use, notifications that arrive
  after the next write. The source of `drag_and_drop` may be destroyed and named
  again, so drag follows drag.
* The rectangles of `positioner` leave every comparison of the code one short, equal
  and one over.

Symmetry is used for the sources in `data_device`, for windows and buttons in
`drag_and_drop` and for windows in `keyboard_focus`, which check invariants only.

### Fairness

`FairSpec` of `FrameCallbacks`: weak fairness of the server, which goes on with the
commit it is in; strong fairness of the steps of the window, which may have to wait for
the server's lock, of pulses, which a timer of the window makes, and of a draw that is
owed. `CallbacksAnswered` does not say that the client ever commits.

`FairSpec` of `WaylandEnv`, for its three liveness properties only:

* strong fairness of the steps with which the server goes on with a request it has
  begun; not of dispatching another, which the client need not send;
* strong fairness of the steps of a window's handler, window by window; not of new
  messages, which nobody need send;
* strong fairness of handling the quit message that the server posted.

Strong, because most of these steps take a lock that others take and release; Haiku
wakes the waiters of a semaphore in the order they came. `DetachCompletes` has an
escape: a view that gets message after message without end may open an env each
time before `Wait` has the looper back, and then `Detach` never ends. That is what
the code does, and the property says so.

## 4. Proofs

All theorems hold for every value of the constants that satisfies the named
assumptions of the modules: sentinels that differ from what they stand beside, the
default in the set of values, finitely many subsurfaces where they are counted, a
scale of at least 1, bounds that are natural numbers. Four theorems have an assumption
of their own in their statement, explained below with their arguments: `DeletionIsGood`,
`FocusGoesWithMouse`, `SizesAgree` and `ClientsFindSymbols`.

| Module | Theorems | Argument |
|---|---|---|
| `WaylandEnv_proofs` | `TypeCorrect`, `HandlersKeepTheirView`, `AssertsHold`, `RolesOwnViews`, `FocusNeverDangles`, `NoLostWakeup`, `LocksInOrder`, `NobodyWaitsInCircles`, `DeletionIsGood`, `LifecycleImplemented` | `IInv`, below; the refinement step by step from it |
| `SurfaceState_proofs` | `TypeCorrect`, `BuffersCounted`, `BuffersReturned`, `DoubleBuffered`, `ScreenShowsCommits`, `CommittedContentShown` | counting; `ViewportKept`; `ContentInv` |
| `XdgConfigure_proofs` | `SizesRoundTrip`, `TypeCorrect`, `LooksFollow`, `UnseenResizesStand`, `NoFeedback`, `SizesAgree` | arithmetic; `LookInv`; `SerialInv`; `LoopInv` and `SettleInv`, below |
| `FrameCallbacks_proofs` | `TypeCorrect`, `EnvExcludes`, `ListsStayQueues` | who holds the lock; `ListInv`, below |
| `XdgPositioner_proofs` | `PopupsKeepTheirSize`, `SlidingPopupsFit`, `AxesAreIndependent` | case analysis of the adjustments, axis by axis |
| `PointerFocus_proofs` | `TypeCorrect`, `EnterAndLeavePair`, `GrabsHaveAFocus`, `GrabsEnd`, `ButtonsComeUp`, `FocusGoesWithMouse` | `Sound` is kept by every function on the seat; `QInv` on what the queues promise; `CalmInv`, from a move on |
| `PointerFocus_proofs`, of `DragAndDrop` | `DragKeepsSeat`, `SeatKeepsPromises`, `DragKeepsDevice`, `LostDragsEnd`, `CleanDropsWait` | each step is one of the seat's and one of the device's, or leaves them alone; `DragInv`, below |
| `KeyboardFocus_proofs` | `TypeCorrect`, `EnterAndLeavePair`, `StringsCommittedOnce`, `FocusIsActive`, `NoKeySticks`, `ClientsFindSymbols` | nobody outside the list has entered; no confirmed string survives a step; `QueueInv` on what follows what in the queues; `MaskInv` and the tables of `Keymap` |
| `DataDevice_proofs` | `TypeCorrect`, `SourcesAreKnown`, `SourcesEndOnce`, `SelectionsAreCurrent` | `EndOwed`: the device's source is owed an end |
| `DataDevice_proofs`, of `DataTransfer` | `OwnDataReturns`, `OffersAreReceivable` | what each conversion adds can be found again (`Joined`, `Findable`) |

**The invariant of `WaylandEnv`.** `EnvKeepsView` is not inductive: that the server
removes no view under a handler depends on what it knows at each label of `Wait`,
on who holds which lock how often, and on which views the request will still
remove. `IInv` has a part for each:

* `RoleInv`: roles belong to surfaces that are alive, a window has one, and a
  surface without a role has no view;
* `TreeInv`: a view in a window is its root's, or its parent has a view there too;
* `LooperInv`: owner and count of each looper's lock, as a function of where the
  threads are;
* `ActiveInv`: `fActiveWlEnv` is set exactly for the views of handlers between
  opening and closing an env;
* `DetachInv`: where `Detach` is, and that the view it is at lies below the
  one it was called for. `Below` says so with the set of surfaces on the way
  (`Path`), in place of a recursive definition, which the provers could not use;
* `RequestInv`: what the other requests that work in two steps have checked;
* `WaitInv`: the locals of `Wait`, and the state of the semaphore; from it
  `WakeupNotLost` and, with `LooperInv`, `LockOrder`;
* `RouteInv`: there is a way from the view of a handler up to the surface its
  message was routed to, which is therefore alive when it gets the focus;
* `FocusAlive`, and `QuitInv`: who has agreed to quit has no role.

Each part has a lemma that every step keeps it. `NobodyWaitsInCircles` needs one more,
`ServerInv`: who has the server lock, as a function of where the threads are.
`WaitsFor` has the owners of the lock a thread is about to take, and for the sleep in
`Wait` the window whose env is to close. A window waits for one that has the server lock,
or for the server thread (`WindowWaits`); the server thread, when it waits, has no lock
of a shown window, so neither those it waits for nor those they wait for wait for it
(`ServerWaits`).
Hence no set of threads waits within itself, however many windows there are. With
`WakeupNotLost`, without which `Wait` could sleep for an env that is closed already,
no thread is blocked by others that are blocked. `LockOrder` is a part of the reason.

`DeletionIsGood` assumes that the desktop asks no popup to quit
(`UserQuits \cap Popup = {}`), without which it is false (section 5), and that
subsurfaces form no loop.

**`SurfaceState`.** `BuffersCounted` needs only types beside the counts; the lemma
`HoldersChange` says how the number of holders changes when one of them does.
`DoubleBuffered` needs `ViewportKept`: source and destination share one field bit,
and the one that was not asked for is still pending from the last commit, so taking
both over loses nothing. `ScreenShowsCommits` has two causes of an old picture to
exclude. A commit that asks for no draw leaves what is shown alone, since only members
that no picture depends on have changed. A `Draw` that returns early has invalid
bounds, and the commit that makes them valid asks for another: the window is settled
after a commit only if its root had an extent before (`CommitSettles`).
`CommittedContentShown` follows from `ContentInv`: what is
attached is marked as new content, pixels are never older than what was committed, a
cached copy with the current serial is at least as new as the last commit, and so
is the screen.

**`XdgConfigure`.** `SizesRoundTrip`: a logical size that is rounded to native
pixels and back is the same, for every scale of at least 1. That is what ends the
resizes between window and client at fractional scales. `SerialInv`:
configures reach the client in the order of their serials, and it acks nothing it
has not read. Drags are in both: whatever the mouse does, they leave the frame alone.
`LookInv` adds to `LookFollowsMode` that a window without a decoration has no border,
nor has one with a decoration in its initial mode.

`NoFeedback` counts. `Owed` is what the client is still to be sent for what has
happened already: its first configure, the one its first size causes, one for limits
that wait for a commit, and one for each resize that will reach `FrameResized` with a
size that is not `fWidth`. `LoopInv` says that the configures sent and those owed
exceed what was asked for by three at most. A commit that resizes the window makes the
resulting `FrameResized` find the size it already has, by `SizesRoundTrip`, so it adds
nothing to what is owed.

`SizesAgree` follows one size from end to end. `SettleInv` says where it is: in the
window or about to be handled (`Told`), remembered by the server, and on its way to the
client, if the client is not to lead with another geometry at its next commit (`Ahead`,
of `Target`, the size the client has in the end). Once nothing is on its way these are
one size. `ZerosFirst` and `Start` are about the beginning, when configures leave the
size to the client. The theorem assumes `NoSliver`: nobody makes the window narrower
than half a logical pixel. Such a size rounds to 0, and a configure with 0 lets the
client choose, so that the server remembers no size and the two need not agree.
Both rest on `OrderInv`: what a client that is in order has and has not done yet.

**`FrameCallbacks`.** `EnvKeepsApart` follows from `LockInv`: a thread that is at the list
with the limit disabled has the server's lock. `ListsAreQueues` says nothing about
the moments at which the links are half written, and is inductive only with what they
are then: `TakenInv` for each label of `TakeFrom`, `RemovedInv` for each label of
`Remove`, `PendingInv` and `QueuesInv` for the list nobody is at. That the elements
of a queue are alive and differ (`ElementInv`) is what lets a link be written without
another one changing. That none leaks is `NoneLeaks`: a callback enters `alive` with
`asked`, stays in the queues when a commit joins them, and leaves both when it is
answered. The theorem holds for any number of callbacks.

**`XdgPositioner`.** `PlacePopup` flips and then slides; `AxisRules` are both along one
axis. `FlipsApart` shows that whether one axis flips does not depend on whether the
other did, although the code tries the second on what the first left; the rest
follows axis by axis.

**`KeyboardFocus`.** `FocusFollowsActivation` and `NoStuckKey` are about settled states
and say nothing of how they are reached. `QueueInv` does, of every state:

* `FollowInv`: in the queue of a window that is not active every activation and every
  press is followed by a deactivation, and if it has the focus a deactivation is pending;
* `CalmInv`: with activations one at a time nothing contradicts the active window, which
  has the focus or will;
* `KeysInv`: what is pressed in a queue is held, or let go of later in that queue, by a
  release or a deactivation;
* `PressedInv`: a key a keyboard has pressed is held, or let go of in the queue of the
  window in focus.

With the queues empty the two properties are what is left of it.

`ClientsFindSymbols` has two halves. `MaskInv` is about the messages: since modifiers
changed in the active window, either its queue brings the last ones, behind the
activation that gives it the focus, or every keyboard was told them already, also one
that was created or given a new keymap since. The other half is about the tables: the
107 keys have 107 codes (`CodesDiffer`), so no statement of the keymap replaces another
(`StatementStands`), and the bits of the mask that choose a level are those of shift and
option (`MaskBits`). The theorem assumes that no key of the model is caps lock, whose
tables Haiku has and the keymap has not (section 5). Like the other lock keys it is not
among the keys a keyboard reports as held, and the runs have none.

**`PointerFocus`.** That enter and leave pair is a fact about the seat alone, whatever
the messages say. That a grab ends and a button comes up is not: a message handled late
may press, grab or take the focus again. What makes it true is what is still waiting
behind it, and `QInv` says so:

* `MailInv`: whatever a message makes a view do is undone by a later one in the same
  queue, or is still true of the user's mouse. A button it says is down is let go of
  in a later release before anything else says that it is up (`LetGo`); a view it says
  the mouse is over is left again (`Leaves`); a drag it says is over the view is taken
  away or dropped (`DragEnds`);
* `HearInv`: the surface in focus has a view that still hears of the release of each
  button of its track, of the end of a drag, and of the mouse leaving it, unless the
  view was removed (`orphaned`);
* `Track`: only a drag grabs without a button down.

A view hears through the queue of its window while messages may go to an ancestor, so
this needs `WindowAssumption`: messages are passed on inside one window. With empty
queues and no button down nothing is left that could be heard, so there is no grab.
`FocusGoesWithMouse` starts there: a move that finds all messages handled finds no grab
and no other surface in focus, and `CalmInv` follows its own messages through the
queues. It assumes that no view passes its messages on (section 5 says why).

**`DragAndDrop`.** `DragKeepsSeat` and `DragKeepsDevice` are refinements: with the
variables of the other left out, every step of the composition is a step of
`PointerFocus` or leaves the seat and the queues alone, and the same for `DataDevice`.
So all that is proved of the two holds when they work together (`SeatKeepsPromises`),
and `QInv` is at hand for the drag. How a drag ends is decided when the mouse is let go,
and `DragInv` follows what was in the queues then:

* `Grabs`: who is tracked for a drag has the grab, so that no move takes the focus from it;
* `SoundInv`: as long as the drag is `sound` no view was lost, and there is no drop
  unless the user dropped on a view of ours;
* `AwayInv`: after the mouse was let go elsewhere some view is still to hear of the
  release; if the seat tracks the drag for a surface, a view of that surface will first
  hear that the drag has left it. Every message that says that the drag is over a view
  is followed by those two (`AllTaken`): handled late, it changes nothing about
  the end;
* `CleanInv`: after a drop on the view the drag is tracked for, either the drop was
  handled and is pending, or the seat waits for it and its queue holds the drop with
  nothing but the release before it (`Awaits`).

With empty queues no release is left to come, so a source still in use after a drag that
was let go of elsewhere contradicts `AwayInv`.

**`DataTransfer`.** The conversion is one sequence of assignments, so the proof
is about functions rather than steps. `OwnDataReturns`: the server keeps what the source
wrote under a name of its own beside what it converted, and `Joined` has both in the
offer; whatever is found first for a type came from that type, or from one that is the
same text. `OffersAreReceivable`: each statement that offers a type also leaves data
where `Found` looks for it, and keeps what the earlier ones left (`Findable`, with a
lemma for each statement). `MimeAssumption` has the types that the code adds by name
among all types.

**Only model-checked**: the liveness properties of `WaylandEnv` and of `FrameCallbacks`
(fairness and `ENABLED` are beyond the proof system). Every other property of the
passing runs is a theorem. `RolelessHasNoView`, `LockOrder`, `SizeKept`, `GrabHasFocus`,
the two refinements of `DragAndDrop` and type correctness are only proved.

## 5. What the models show about the code

* **`popup_quit`.** `WaylandPopupWindow::QuitRequested` (`HaikuXdgPopup.cpp:35-41`)
  agrees even when its popup is alive. The window deletes itself with the view of a
  surface in it, which `~WaylandView` says must not be: "bad deletion"
  (`HaikuCompositor.cpp:173`). A toplevel window refuses
  (`HaikuXdgToplevel.cpp:51-58`).
* **`decoration_default`.** A new decoration is in mode None until the client asks
  (`HaikuServerDecoration.h:22`), and its window is shown without a border, while the
  protocol's description has it in the default mode announced
  (`protocols/server-decoration.xml:52-54`), which is Server
  (`HaikuServerDecoration.cpp:45`). `LookFollowsMode` is about decorations whose
  client asked for a mode.
* `FocusFollowsActivation` fails without `calm`: when several activations are under
  way the last to be handled wins.
* `FocusFollowsMouse` fails for a subsurface without input of its own: its window
  hears each message twice, with contradicting transits.
* A source that is replaced while it is in use is never told that it ended
  (`owed` stays positive; `EndsOnce` is the bound from below).
* `SelectionCurrent` is about changes the watcher could read: when the clipboard cannot
  be locked (`HaikuDataDeviceManager.cpp:742`) the client keeps the offer it had
  until the next change (`missed`).
* `ReleasesBalance` holds, but the release for a buffer committed twice is for one
  that stays on the screen.
* A window whose root has neither buffer nor viewport is not drawn, with whatever
  its subsurfaces have committed (`Draw`, 359).

* **Frame callbacks.** `Pulse` empties the list of committed callbacks in the window's
  thread without a `WaylandEnv` (`HaikuCompositor.cpp:415`) while a commit appends to it
  in the server's (748): the two meet (`raced`), and then a callback may be lost or
  freed memory linked. With the frame rate limit disabled they do not
  (`EnvKeepsApart`), but then nothing calls the callbacks of a subsurface, whose own
  `Draw` returns at once (355), and a commit with a callback and no other change asks
  for no draw (714): `Due` leaves both out.
* **Keys.** A keyboard that enters is told no modifiers and no keys, so what was pressed
  before is unknown to it until it changes (`current` in `SymbolsAgree`). Haiku's tables
  for caps lock never get into the keymap, whose levels are shift and option only; what
  caps lock does is left to the client.
* **Resize by the seat.** Only the top left and bottom right of the edges do anything.
  The bottom right keeps the limits, the top left does not and may ask for a size of
  zero, which lets the client choose, or less. `DragTopLeft` starts each time from a
  width that was cut to whole logical pixels: at a fractional scale the right edge
  drifts. A size the client committed while a resize was unseen was not applied, and
  never is when the drag asks for that very size, because `fWidth` already has it
  (`HaikuSeat.cpp:648`): the reason for the third condition of `inOrder`. A motion to
  where the mouse was last is dropped (584) although the window may have moved
  under it.

The first two points are findings; the others are what the code does and no document of
it denies. `PROJECT.json` lists most of them, with others, as hazards.

## 6. Not modelled

* **Interactive move**, where a window is placed during an interactive resize,
  **cursors** and the **wheel**: arithmetic of positions that nothing else reads.
* **The spelling of the keymap text**, its second group and dead keys.
* **Release of the data device, of a decoration, and other objects that outlive what
  they point to** (`fToplevel` of an xdg_surface, `fSurface` of a viewport or of a
  subsurface whose surface went first): reads of freed memory are no states of these
  models.
* **A popup's background**, which it copies from its parent.
* **Pools** (`HaikuShm`), **output**, **xdg_shell**, **start-up**: system calls, or
  objects without state. **Protocol glue**, **tracing**, **linked
  list**, protocol descriptions and patches: no behaviour of their own.

## 7. Plan

Order of the modules, by how much depends on them: `WaylandEnv` with
`ViewLifecycle`; `SurfaceState` with `DoubleBuffer`; `XdgConfigure`, with the resize
by the seat; `XdgPositioner`; `PointerFocus`; `KeyboardFocus` with `Keymap`;
`DataDevice`; `DragAndDrop`, which composes `PointerFocus` and `DataDevice`;
`DataTransfer`; `FrameCallbacks`. These exist. Next:

1. Proofs: the safety properties of the passing runs are proved; what is left is what
   the steps of 2 to 5 add.
2. `PointerFocus`: positions as a small set, and cursor surfaces; then wheel events.
3. `DataDevice`: release of the device, accept and actions.
4. `SurfaceState`: destruction of a surface with a buffer, a popup's background.
5. The lifecycle of `locks` extended to the focus of a drag.
