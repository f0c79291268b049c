# LabAnalyser in TLA+

LabAnalyser is a Qt 6 program in C++ that shows and changes the data of
measurement devices. Devices are plugins; they publish parameters, data and
states under ids such as `Device::Group::Name`. The user drags an id from a tree
onto a widget of a form (`.ui` file) or onto a plot of a figure window, and from
then on the widget shows the id and sets it. The bindings, the figures and the
forms together are an *experiment*, which is saved to and loaded from XML. A TCP
server lets MATLAB read and set ids.

This directory holds models of the parts of the program whose correctness
depends on the order of events, the runs that check them with TLC, and proofs
checked by TLAPS. Paths below are relative to `src/src/` unless they start with
`docs/`.

## 1. Inventory

### Threads and control flow

Everything except the plugins' own work runs in the GUI thread. Plugin threads
reach it by queued signals of `MessengerClass`. Within the GUI thread a handler
runs to its end, with four exceptions that matter here:

- a modal dialog (`QInputDialog` in `DropWidgets/QSlider.cpp:89` and
  `DropWidgets/DropWidgetIndicatorBinding.h:35`) runs a *nested event loop*:
  queued plugin messages and timers are handled before the drop goes on;
- a load calls `processEvents` after each form (`UIFunctions/MainWindowFormLoader.cpp:127`):
  the user, the messages of devices, timers and even another load come in the
  middle of it;
- `deleteLater` (`UIFunctions/SubPlotMainWindow.cpp:62`) lets a closed figure live
  on until control is back in the event loop;
- `QTimer::singleShot` (push button, table, deferred `CloseProject`) runs a piece
  of a handler later, when what it was started for may be gone.

### Components

| component | state | operations | interacts by | modelled |
|---|---|---|---|---|
| Data manager (`DataManagement/ContainerStore`, `WidgetBindingRegistry`, `DataManagementClass`, `DataManagementSetClass`) | one mapper per id with the vector `Objects` of its subscribers; a map object name to id | publish, bind, erase, set, lookups that insert | direct calls from widgets, plots, loader, remote control | Bindings, DataManagement |
| Figure and plot registry (`DataManagement/DataRegistry`, `MainWindowFigureFactory`, `SubPlotMainWindow`) | plot name to pointer and number, sorted number vectors | open, close, rename, number | figure factory, experiment reader, plots | PlotRegistry |
| Remote control (`RemoteControl/`) | current socket, frame buffer | accept, read, decode, reply, abort, disconnect | sockets; reads the mappers, sends `set` | RemoteControl, Wildcard |
| Drop-widget adapters (`DropWidgets/`) | presentation of the bound id, timers | drop, remove connection, time-out, table rows, set and get a value | data manager | DataManagement, TableCells, ParameterValue, NumberWidgets, ListViews, ComboBoxes, partly |
| Plot widget (`DropWidgets/Plots/PlotWidget`) | graphs, their ids and data; XY and FFT flags, axis; two timers; cursors | add, remove, axis, spectra, update, save, load; place and move cursors | data manager, registry | DataManagement, PlotData, Cursors, partly |
| Experiment files (`LoadSave/xmlexperiment*`) | – | save; load windows, forms, devices, connections | all of the above | in DataManagement, PlotRegistry, Project and TableCells, partly |
| Project lifecycle (`app/mainwindow`, `MainWindowProject*`) | `isloading`, `SavePath`, timers | start, load, save, close, deferred close, quit | messenger, timers | Project |
| Messenger (`DataMessengerClass`, `MessageDispatchPolicy`) | – | dispatch of a message into intents | signals, queued across threads | in Project and ParameterValue, partly |
| Device registry and plugins (`DeviceRegistry`, `loadplugin`, `PluginLeasePool`) | devices; names and paths in a second map | add, close, clear | save asks devices by name | Project, partly |
| UI layout edit mode (`UIFunctions/UiLayoutEditMode`) | marks on moved widgets, undo history, dirty forms | move, undo, save dirty forms | project save | LayoutEdit, partly |
| Interface data (`plugins/InterfaceDataType`) | typed value | conversions from and to text and double | every message | DataExchange, partly |
| Exports and imports (`Export/`, `Import/`) | – | parameter file; archive of all channels; MAT; HDF5 | messenger | DataExchange, DataArchive, partly |
| MATLAB connector (`MatlabRemoteConnector/`) | per-port connection and last reply | connect, get, wildcard get, set | TCP | Connector |
| Explorer trees, output log, tray, LED indicators, plot measurements | presentation, numerics | – | – | no (see 7) |

### What is hard

`PROJECT.json` lists each hazard at its line. In short: dialogs that let the
project be closed or an id be republished under a drop that holds a pointer; raw
pointers to widgets in the mappers; names, not addresses, as the keys of
bindings, so that two objects of one name share a slot; a loop that erases while
it indexes; lookups that insert null mappers; a load that finds plots by name
while the old project's plots are still alive; renaming plots one by one into
names that other plots hold at the moment; a search for the first free number in
a vector that renames and closes rearrange; several TCP clients and one frame
buffer; frames that arrive in pieces; a matcher that backtracks to the last star; a close
that a timer puts off until it may hit the next project; a save that looks up by
name what another map still names; queued values that cross each other; a table
whose rows come two seconds after it; moves that are saved as hints about
neighbours; numbers that travel as text; files that end too early; data that arrive faster than a
plot takes them over, and an XY plot that is rebuilt graph by graph; cursors that move
together on an axis that is zoomed under them; a drop of several ids that binds to the first of
them; a combo box that sends its text when it is emptied.

## 2. Modules

| module | what it is |
|---|---|
| `Bindings` | abstract: who is subscribed to which id, as counts; what the data manager promises |
| `BindingsProofs` | TLAPS proofs that it keeps these promises, for all constants |
| `DataManagement` | detailed: vectors, erase loop, null mappers, dialogs, timers, forms, figures, load; implements `Bindings` |
| `DataManagementProofs` | TLAPS proofs of its invariants and of the refinement, for all constants |
| `Induction` | TLAPS lemmas: induction over data, and folds |
| `PlotRegistry` | `DataRegistry`'s numbers, names and pointers with figures, save and reload |
| `RemoteControl` | the TCP server with its clients |
| `RemoteControlProofs` | TLAPS proofs of who is served and of what is acted upon, for all constants |
| `Connector` | the MATLAB client: calls that give up, wildcard gets |
| `ConnectorProofs` | TLAPS proofs that answers are current, whole and in order, for all constants |
| `Wildcard` | `matchesWildcard` step by step |
| `Project` | startup, loading, saving and closing a project, its devices and their messages |
| `ProjectProofs` | TLAPS proofs of its invariants, for all constants |
| `ParameterValue` | one parameter's value in widgets, container and device, with messages under way |
| `NumberWidgets` | a number with limits in sliders, spin boxes and displays |
| `ListViews` | lists of texts in list views: binding, editing, loading |
| `ComboBoxes` | selections in combo boxes: binding, picking, loading |
| `TableCells` | the table widget: rows, names of cells, timers, save and load |
| `LayoutEdit` | the layout editor: moves, undo, and the marks that a save applies |
| `DataExchange` | parameters as text: editors, remote control, explorer, parameter files |
| `DataArchive` | the archive of all channels: export, damage, import |
| `PlotData` | what a plot shows of its containers: graphs, spectra, XY plots, save and load |
| `Cursors` | a plot's two cursors: tools, moves, synchronisation |
| `MCDataManagement`, `MCProject` | instances for TLC |
| `MCBindings` | `Bindings` and `PlotData`, side by side |
| `MCRemoteControl` | the server and `DataExchange`, side by side |
| `MCDropWidgets` | `ParameterValue`, `NumberWidgets`, `ListViews`, `ComboBoxes`, `TableCells` and `Cursors`, side by side |
| `DropWidgetsProofs` | TLAPS proofs of all their invariants, for all constants |
| `MCComponents` | `Connector`, `LayoutEdit`, `PlotRegistry`, `Wildcard` and `DataArchive`, side by side |
| `ComponentsProofs` | TLAPS proofs about `PlotRegistry` and `DataArchive`, for all constants |

### Bindings

`stored` are the ids with a mapper, `binding` is `WidgetBindingRegistry`,
`entries[id][o]` counts the elements of `mapper->Objects` that point to `o`,
`graphs[p][id]` the graphs a plot draws for an id, `life` whether an object is
open, dying (its figure is closed, the deferred delete is pending) or gone.
`adopted` is a history variable: plot names that a load connected while they were
dying. `DropGraphs`, `CloseFigure` and `CloseForm` leave open *which* entries an
erase takes; `Erased` says what a call erases at least: one entry if there is one
(the loop in the code erases more or fewer, depending on adjacency).

### DataManagement

`objects[id]` is the vector itself, in order, and `EraseMatching` is the loop of
`DataManagementClass.cpp:227-242` including the element it skips after each
erase. `mapper[id]` distinguishes `"absent"`, `"null"` (inserted by
`std::map::operator[]` in `LookupOrInsert`) and `"mapper"`. `dialog` holds the drop
that is waiting for the user, with the state of the container pointer that the
indicator keeps across it. A load is a sequence of steps (`LoadWindow`, `LoadId`,
`LoadConnection`); after a form it runs the event loop, in which anything happens,
another load included (`MaxLoads`). `fault` records a crash: a
call through a dangling pointer, a use of a deleted container or widget after a
dialog, or a null mapper followed by the writer. These crashes are reachable in
the model, as they are in the code; the properties say when.

`B == INSTANCE Bindings WITH ...` is the refinement mapping: counts of the
vectors, `NoId` bindings read as none, ids under a real mapper as `stored`.
The temporal property `ImplementsBindings == B!Spec` has TLC check every step.

Decisions: deferred deletes happen before the next user input (`Idle`), but
plugin messages and timers may come first (`EventLoop`). Whether a slider asks
for its limits, or an indicator for a bit, depends on the value of the id, hence
both `Drop` and `DropAndAsk`. A drop of several ids on a plot is several
`DropOnPlot`. A form's widgets unsubscribe when the dock is destroyed. A new
window is not created at the address of an object that some vector still names
(`CanCreate`): reuse of an address is not modelled. `TimeOut` of a button that is
held down only restarts the timer, a stutter. `MaxGraphs` bounds the graphs of one plot and
its entries for one id (`RoomFor`), `MaxDrops` the graphs of all plots that the user may add to. A wired button stays wired after
its connection is removed, as in the code.

### PlotRegistry

Names are their numbers: plot `k` is `"Plot#" (k+1)`, figure `k` is `"Figure#" k`.
Operations are functions on a record of the live state, composed as the code
composes its calls: `CreateFigure` is one `CreatePlot` per plot, each with the
number search; `ReadFigure` creates a figure under temporary names and renames
plot after plot; `LoadExperiment` is the whole file in one step, because the
reader runs in one event. `Bindings!Create` requires that open plots have
distinct names; `NamesDistinct`, a part of `PlotsAreKnown`, is the justification. Plots of forms are
registered without a number under names that no figure plot has and are left out.

### RemoteControl and Wildcard

A request is two pieces, the size prefix and the rest; TCP delivers any prefix of
what is under way. `inbox` is a socket's own read buffer, `buffer` the one shared
`FrameSplitter`. `HeaderReceived` reads the *current* socket, whichever socket
emitted `readyRead`, and `Rounds` is its inner loop: an incomplete frame stops it,
an invalid prefix or a reply that cannot be encoded aborts the connection, a
malformed frame is passed over. An abort emits `disconnected` at once, so the slot
`ResetIfCurrent` runs inside the handler. Kinds of requests stand for what the
decoder tells apart. Handling a `set` is taken not to run a nested event loop.

`Wildcard` has one action per branch of the loop and compares its answer with
`Matches`, the recursive definition of matching.

### Connector

The client of one port: `port` is `states[port]`, `waiting` the place in `receiveReply` where a
call waits, `get` the run of `Get.m`. `Discard` is `states.erase(port)`, which every failure ends
in. The two-second deadline is `ReceiveFails`, possible at any time while a call waits; a send may
fail in the same way. Each connection has requests under way (`up`) and parts of replies (`down`),
and the server handles a request when it likes, so replies may be late. The server's part
takes over what `RemoteControl` shows: it serves whole requests of the connection accepted last.
A reply that would be too large aborts the connection, whatever it is about. `seen` is what
each id was while `Get.m` ran.

### Project

`loads` is a stack: the user may load a project while a load is in `processEvents`.
`EventLoop` says when events are handled, `UserInput` when the windows take input.
`CloseProject` is `MainWindow::CloseProject` with its timer, and `CloseEverything` is
`MainWindowProjectCleanup::Close`. The device registry's two maps are `devices` and
`paths`; `connected` are the devices whose messages arrive and `active` those that
were loaded and not told to close, both of which the code keeps in Qt's connections
and in the plugins. `SaveTo` is the loop of `UIDataManagementSetClass.cpp:85-95`: every
device is told "save" once per name, and one in the GUI thread may answer by closing
the project between two of them. `phase` follows `ParseInputArguments`, which loads
the command line's experiments before the event loop exists: a close of the main
window (the tray icon's menu has it) cannot end the program then.

History variables record what the user and the devices asked for: `owed` that a close
of the present project was asked for, `missing` what of the project's file was left
out or closed, `mixed` that one load ran inside another. A file is what was saved in
it; that a save writes the dirty forms first, and gives up when it cannot, is
`LayoutEdit`'s.

### ParameterValue

A number is the set of its bits. A check box shows and sets one of them
(`QCheckBoxD`, `Bit`), a field the number. Messages to and from the device are
queues; `answers` distinguishes devices that report a value they were set to from
those that do not. `conns` counts the connections of a widget's signal: repeated
ones are legal (`DropWidgetBinding.h`) and send the value repeatedly, except that a
box drops the others when it is updated. `wish`, `raced` and `untold` say when a
difference between container and device is somebody's, and not the code's.

### NumberWidgets

The number of one integer parameter, its limits (`MinValue`, `MaxValue`) and the widgets
that show it: sliders scale it to their positions, and what they send is cut off to an
integer (or one less: `p/100.0 * (max-min) + min` in floating point); spin boxes keep it
in the range they got from the limits when they were dropped, or from the form when they were
loaded; progress bars ignore what is not in their range. No widget is told of new
limits: `UpdateRequest` asks the device, and its answer makes them look. Until then a
widget is `stale`, as it is between its binding and the first value. The device's
messages are not modelled here, it may set any number at any time, which allows every
order of answers. A slider that is dropped without limits asks for them in two dialogs,
unbound, while the device goes on.

### ListViews

`rows` is the view's string list, `value` the containers of the parameters that are lists, and of
others that are not (`Number`). `Drop` is one event, so it is one step: `DropItem` for each
item of the selection in turn, each with the `SendNewValue` that its signal makes. A branch
of the explorer may be selected with its leaves, and has no id. An edit sends what the view shows
(`SentList`); the container takes it and updates all its views, which is what
`MessengerClass` does with the `set` in the same thread. A device that is sent a list for
a number is taken to answer with a number. `unseen` are the views that were not updated since
a load bound them, or that a drop bound to another parameter than they show. A list that is
written by the remote control, or read from a file, is for a view the same as one set by the device
(`DeviceSets`).

### ComboBoxes

A selection is the offered texts and one text that is selected, which need not be among them. `Clear`
models that Qt emits `currentIndexChanged` when the last item goes; `IndexChanged` is what the
connection does with it. `dropEvent` disconnects before it empties the combo box,
`RemoveConnection` takes the binding away and leaves the connection: both orders keep the
signal from becoming a value. States are never shown again after the drop, as `SetVariantData`
requires a parameter. `foreign` are the ids whose text came from a parameter file, or from
a combo box that still had its form's items.

### TableCells

A row shows `L::0`, `L::1`, ... up to the first id that is not published. Cells are
named by the number of rows at their creation and bound by name, so `number` may be
shared by two rows; `robbed` are the rows that were. `file` keeps labels from the
bottom up, as `SaveToXML` does; `LoadFromXML` starts one timer per row. That the
two-second timers fire after the load is over is assumed; a `processEvents` of the load
that lasts longer only makes them find fewer elements, which `faithful` covers.

### LayoutEdit

`items` is what `QLayout` holds, `children` the order of `QObject::children`, in which a
save applies the marks. `mark` stands for the dynamic properties
`LabAnalyserLayout...`. `MoveInGrid`, `MoveWithinBox` and `MoveIntoBox` are the branches of
`MoveInGrid` and `MoveInBox`; `Displaced` is the widget that gives way. A grid has one
row. `Put` models that `QLayout` refuses a widget that owns it.

### DataExchange and DataArchive

A value in `DataExchange` is a number of a small width, a fraction of which text keeps
one digit and a double two, a word, a list, or something that has no text. Every
conversion is a function of type and value; `GetString` and `FromText` are what
`QString::number` and `toInt` do, `FromDouble` leaves open what the code leaves
undefined (a double that the integer type cannot hold). The writer's unchecked writes
let a parameter file end anywhere, in the middle of a number too.

`DataArchive` models `QSaveFile` as all or nothing, a file that was cut short later
(`CutShort`), and the import's loop up to the first channel it cannot read.

### PlotData

`plot` holds the graphs in order, `mXYPlot`, `__isFFT` and `ID_X`. A graph has the data it
draws (`x`, `y`), and `spectrum` is what its spectrum was computed from. A container's
two vectors are one datum: a number, so that older and newer differ, and a time base, of
which `Samples` gives the size. `UpdateGraphs` is `Updated`, behind `Tick` its checks
for an update by the timer; `Drop` and `UpdateData` force one. `quiet` and `due` are the
two elapsed times, which `Rest` and `Wait` let pass.

Each early return is kept: an update with a graph that has no data changes nothing,
`CalculateFFT` stops at the first graph it cannot transform, an XY plot waits for data at
the same times, and `SetAsXAxis` hides the axis even when the sizes differ.
`RemoveSelectedGraph` removes every other selected graph (several are selected only after
a load of a plot that draws its axis twice). The tool button toggles the spectrum in an XY
plot too, which the menu does not. `Save` and `Load` go through `XData`, the connections in
the order of the containers, and one `ConnectToID` each, before data arrive.

Decisions: the plot is the only subscriber, so `DeleteEntryOfObject` leaves every second
of its entries (`DataManagement` has the loop itself). A load replaces the containers, as
its devices publish again. The saved file is the plot's part only. The time offset `Tmin`,
styles, ranges and labels are left out, and so is whether a window is visible:
an invisible plot takes over data without painting them.

### Cursors

`at` and `active` are `CursorA` and `CursorB`, `mode` is `CurrentToolMode`, `range` the x axis.
Positions are integers and `Extent` bounds them; distances are even, so that halves
are exact. `MadeActive` is what `setCursorsVisible` and `setToolMode` share. `Moved` is
`setCursorPosition` with its three cases: not synchronised, wider than the axis, shifted
back on the axis. A drag may leave the axis. `Reload` is a save and a load of the plot, in
which the synchronisation is not kept. The modal dialog of `setCursorSyncEnabled` is one
step with its answer.

### MCBindings, MCComponents, MCDropWidgets and MCRemoteControl

These components share no state with each other, as far as they
are modelled, so one specification runs several: `part` chooses the component of a
behaviour, and each property is the one of its module, under `part`'s guard where it has
to be. Their modules state assumptions on constants as definitions, which these modules
assume.

## 3. Runs

| run | shows | bounds |
|---|---|---|
| `bindings`: bindings | types; a widget name is subscribed at most once and where the registry says (`HomeByName`); nothing destroyed is subscribed, except after an adopting load (`NoDangling`) | 2 ids, 2 widgets of one name, 2 plots of one name, 1 graph per id and plot |
| `bindings`: data | when data and user rest, a plot shows the newest data and their spectra (`Settles`); an XY plot keeps its hidden axis and comes back with it (`AxisComesBack`) | 2 containers, 3 time bases of 1 or 2 samples, 3 graphs, 1 datum each (and again after each load), 4 actions of the user |
| `dm_widgets` | the code's structure implements `Bindings`; an answered drop finds a mapper | slider, LED, button, two cells of one name, two forms, 2 ids, one file |
| `dm_plots` | the same for plots, with several graphs of one id; a dangling call needs an adopted plot | figure plot, successor after a reload, form plot, 2 ids, 3 graphs |
| `dm_timeout` (violation) | an unbound button's time-out inserts a binding and a null mapper | as `dm_widgets` |
| `dm_graphs` (violation) | removing graphs unsubscribes a plot that still draws the id | one figure, 2 ids, 3 graphs |
| `project` | the registry's two maps agree; a save finds its devices; devices and projects end together; the save path names the project; a deferred close happens, and to the project it was meant for | a device in the GUI thread, a threaded one, a form, 2 files, 2 loads one inside the other, 2 timers, 1 queued message |
| `remote_control`: server | whole requests, in order, once; the latest client is served; gets are answered | 2 clients, 2 requests of 5 kinds |
| `remote_control`: exchange | a whole file restores what text tells; one that is not sets a prefix; what is confirmed or entered arrives as far as text tells it | 2 parameters of every type; integers of 1, 2 and 3 bits for 8/16, 32 and 64 |
| `drop_widgets`: value | bound widgets show the container; container and device agree when all is quiet, and no bit is lost, unless there was a race | 2 bits, a box, a field, 2 messages each way |
| `drop_widgets`: numbers | bound widgets show the number, under the limits they have been told of; the number goes the way the user moves a slider or a spin box (`EditsFollowHand`) | a slider of 5 positions, a spin box, a display; limits that rise, fall or are not there; numbers in and beyond them |
| `drop_widgets`: table | subscribed cells exist and show their element; cells are updated unless robbed of their name; rows come back after save and load | 3 elements of 2 labels, 2 rows |
| `drop_widgets`: cursors | visible cursors are active; synchronised ones keep distance and order, and a move leaves them on the axis; a saved plot brings them back | 2 axis ranges, 2 distances, positions -1 to 7 |
| `drop_widgets`: lists | bound views show their list (`ShowsContainer`); adding and deleting an entry changes that entry only, unless the view had not seen the list (`EditsFollowHand`) | 2 views, a list of up to 2 entries, a number, a signal, selections of up to 2 items |
| `drop_widgets`: combo boxes | bound combo boxes show offer and text; what is selected is offered, unless it is foreign | 2 combo boxes, one with items in its form, a parameter and a state, 3 texts in 2 offers |
| `components`: connector | a get returns what the id was meanwhile, never a late reply; a wildcard get without an error lacks nothing that was there; an answer comes after the sets before it | 2 ids, one a part of the other, 2 connections, 2 calls of `Get.m` and `Set.m`, 1 change by others |
| `components`: layout | widgets keep a place; after single saved moves the file shows the screen; undo restores | 2 forms, one with a group that is a grid, 6 widgets, 2 moves |
| `components`: plots | plot and figure names stay distinct, and the registry points to open plots only (`PlotsAreKnown`); number vectors sorted | 3 figures of 1 or 2 plots, 3 plots |
| `components`: wildcard | the matcher returns, and is right on ids without a star (`MatcherIsRight`) | ids up to 5, patterns up to 4 characters |
| `components`: archive | imports publish a prefix and touch nothing else | 2 channels, 1 root, values of three kinds |
| `plot_registry_reload` (violation) | a reload loses registry entries | as plots |
| `list_view_binding` (violation) | a number selected before a list gets the view | as lists |
| `layout_only_moves` (violation) | a group dropped into itself leaves every layout | as layout |

Why the bounds are enough. *Bindings*: every action concerns one id and one
object and its namesakes, so two of each show every interference; more of them,
and more graphs, are covered by the proofs. *DataManagement*: three entries of one
id are the first case in which one call of the erase loop takes two of them; two
windows of each kind allow the old project and the new to overlap. *PlotRegistry*:
three plots in two figures are the smallest case in which a saved name is the
temporary name of another plot, and in which a gap of the numbers has numbers on
both sides. *RemoteControl*: two clients are one that is current and one that
takes over; two requests allow a malformed one in front of a good one and half of
one in front of another. *Connector*: two calls are one that gives up and the one that its
late reply would meet; a second connection follows a lost one; a part of an id is the case in which
asking for an id that is gone lists another. *Project*: one device of each kind, since
actions concern one device or all; two loads are a load and one inside it; the proofs
cover all numbers. *ParameterValue*: two messages each way let a click meet an answer
and a further change. *NumberWidgets*: three numbers between
the limits and five positions do not match, so positions round up and down. *TableCells*: two rows are the first to share a name.
*LayoutEdit*: two moves are the first that disturb each other; the group gives a move
between box and grid and the group dropped into itself. *DataExchange*: the widths are
small but distinct, with the same order, so each range has numbers that the next
narrower has not. *PlotData*: two containers are an axis and a curve; a third graph is one too
many for an XY plot; three time bases are two of one size and a shorter one, so that data
may be of unequal sizes, of equal sizes at other times, and too few for a spectrum; four
actions are make an XY plot, save, change, load. Instances with two data for each
container and with five and, simulated, nine actions found nothing else. *Cursors*: a
distance that fits both ranges and one that fits none. *ListViews*: two views of
one list are one that is edited and one that must follow; a selection of two has each kind of item first and
behind. *ComboBoxes*: two offers that share one text allow a text to be offered before a change and
after it, or only before. Deadlock checking is off in
`remote_control` (connections end, requests are bounded, a program ended by an exception
stops), `components` (the matcher returns, actions are bounded), `drop_widgets` and
`list_view_binding` (a crash stops the program) and `layout_only_moves`, on everywhere else.

Fairness. `RemoteControl!Fairness` is weak fairness of the server as a whole: the
event loop does not stop while some socket is ready. It does not assume that any
particular socket has its turn. `Wildcard`, and `MCComponents` for it, assume that a running
function takes its next step. `PlotData!Spec`, and `MCBindings` for it, assume that Qt goes on serving timers (weak fairness
of the three timer steps together). `Project!FairSpec` assumes that a pending timer is served
(weakly: only as long as the event loop runs) and that a load goes on; not that a device
or the user does anything. No client is assumed to do anything.

## 4. Findings

- `plot_registry_reload`: `DataRegistry::RenamePlotPointer` (`DataRegistry.cpp:40`)
  moves what is registered under the old *name*. Open figure A (one plot) and B
  (two plots), close A, save, load: the new plots are `Plot#1`, `Plot#2` and are
  renamed in turn to `Plot#2`, `Plot#3`; the second rename moves the first plot's
  entry. `docs/modernization/XML_CONTRACTS_3B.md:32` says a load preserves the
  registry mapping and the requested names.
- `dm_timeout`: `QPushButtonD::TimeOut` (`QPushButton.cpp:88`) looks its container up
  through an inserting lookup. `docs/modernization/PLAN.md:391-392` calls an unbound
  time-out "a safe no-op". The next save dereferences the null mapper.
- `dm_graphs`: `DeleteEntryOfObject(id, plot)` erases by plot where a plot may draw
  an id several times; remaining graphs are no longer called back, against
  `docs/modernization/PLOT_CONTRACTS_3J.md:20`.
- `list_view_binding`: `QListViewD::dropEvent` (`DropWidgets/QListView.cpp:106`) tests each selected
  item and binds the view to the first of the selection, which may be a number; its next edit
  makes the number's container a list. With a branch selected first there is no id, and the null
  mapper of the empty id is dereferenced (`crashed`). `docs/modernization/BEHAVIOR_INVENTORY.md:1272`
  says that only list parameters are bound.
- `layout_only_moves`: a group with a layout of its own that is dropped on that
  layout is removed from its old layout before `QLayout::addWidget` refuses it
  (`UIFunctions/UiLayoutEditMode.cpp:181-197`). `UiLayoutEditMode.h:13-14` says the
  editor "only moves existing widgets".

What the passing runs had to make exceptions for, and a reader of the code should
know:

- A save dereferences a null device (`UIDataManagementSetClass.cpp:90`) when a device of
  the GUI thread answers "save" with `CloseProject`, or after the main window was closed
  while the command line's experiment was loading (`SaveFindsDevices`, `reopened`).
- A load inside another resets `isLoading` for both (`MainWindowProjectActions.cpp:70`);
  the save path may then name a file whose contents were never in the project
  (`SavePathNamesProject`, `mixed`).
- The explorer's edit of a parameter does not reach the device (`mainwindow.cpp:408` calls
  the receiver), and two bits that are set within one round trip of an answering
  device may undo each other (`ContainerIsDevice`, `NoLostBit`).
- Rows of a table that were added after others were removed share the names of their
  cells; the older row is no longer updated (`CellsAreUpdated`, `robbed`). Each save and
  load turns the table upside down (`RowsComeBack`), and rows that are still due are
  not saved (`whole`).
- After more than one unsaved move the saved form may show another order than the screen
  (`OneMoveIsSaved`, `drift`).
- 64-bit integers beyond 32 bits come back from a parameter file as 0, reals with six
  digits, texts without surrounding blanks, lists longer (`Told`); the explorer's dialog
  proposes 0 for every integer (`Confirmed`). A parameter without a value
  throws what nobody catches, in both files.
- A `Set` from MATLAB returns before the server has it, and is lost without a word when another
  client was accepted or the connection is replaced; only a `Get` over the same connection tells
  (`SetsArriveFirst`). A `Get` of an id that is not published returns a list of ids that contain
  it, within a wildcard `Get` too (`WildcardIsWhole`).
- A plot with one graph that has no data is never updated, an XY plot whose graphs have data
  at different times neither, and spectra behind a graph that cannot be transformed stay
  old (`Settles`). An XY plot of more than two graphs, or of two of one
  container, which a drop of several ids with shift makes, may come back without its axis
  (`AxisStays`, `odd`).
- A list whose last entry is deleted has one blank entry (`Only`, `SentList`). A view that was loaded is
  empty until its device answers; what is dropped on it before replaces the device's list
  (`EditsFollowHand`, `unseen`), and a combo box may be set to an item of its form that the
  device does not offer (`SelectedIsOffered`, `foreign`). A text that is not offered is shown as the first
  offered one, and picking that one is no change (`ComboShowsSelection`).
- Synchronised cursors are no longer so after a save and load (`CursorsKeep`, `Reload`).
- The wildcard matcher compares literally before it looks for a star (`RemoteControlServer.cpp:37`), so a
  `*` of the pattern is used up by a `*` of the id: `*` does not match the id `*a`
  (`docs/modernization/MATLAB_REMOTE_CONNECTOR.md:86` has it match anything). `MatcherIsRight` is checked
  on ids without stars; plugins do not rule them out.
- The archive's export writes channels beyond the 1 GiB that its import reads.

## 5. Proofs

`BindingsProofs` proves, for every choice of ids, widgets, plots, names and bound
that satisfies `NamesAssumption` (every object has a name; a plot and a widget
never share one; `None` is no id):

| theorem | property |
|---|---|
| `TypeInvariant` | `TypeOK` |
| `MapperExistsInvariant` | `MapperExists` |
| `HomeByNameInvariant` | `HomeByName` |
| `CoveredInvariant` | `Covered` |
| `NoDanglingInvariant` | `NoDangling` |

There are two inductive invariants. `Registry` is `TypeOK /\ MapperExists /\
HomeByName`, inductive by itself: rebinding a widget takes it from the container
its name is bound to, and `HomeByName` says that this is the only one
(`DetachedWidget`). `Alive` adds that subscribed widgets are open, that subscribed
plots are open unless adopted, that open plots have names of their own, and
`Covered`. `NoDangling` is not inductive: that closing a plot with one erasing call
per graph leaves nothing behind needs `Covered` (never more entries than graphs),
and that the calls are not spent on entries of a namesake needs `OwnNames`
(`ErasedOpen`). Each has one lemma per action; `Erased`, `Redrawn`, `Detached` and
`Cleared` have lemmas of their own.

`ProjectProofs` does the same for `Project`, for every choice of devices,
forms, files, what the files hold, the command line and the bounds, under
`ProjectAssumption` (threaded devices are devices, no form is a device, the command line
names files, `None` is no path, devices and forms are finite):

| theorem | property |
|---|---|
| `TypeInvariant` | `TypeOK` |
| `NamesHaveDevicesInvariant` | `NamesHaveDevices` |
| `SaveFindsDevicesInvariant` | `SaveFindsDevices` |
| `NoDeviceOutlivesProjectInvariant` | `NoDeviceOutlivesProject` |
| `LoadedProjectStaysInvariant` | `LoadedProjectStays` |
| `SavePathNamesProjectInvariant` | `SavePathNamesProject` |

`IInv` adds to them what they rest on. `Agree`: active, connected and registered devices
are the same, which makes a device in the registry one that can be told to close.
`Leaves`: once the main window was closed in a load, whoever works was loaded since, and
the program exits with its last load. `Nesting`: as long as no load began inside another,
there is one at a time, `isloading` is its flag and the project has no path yet.
`Owes`: a timer that will find a project, loaded or about to be, was asked for.
There is one lemma per action.

`SavePathNamesProject` needs more, for the window may be closed or another file saved while
a load is under way, and `RemoveDevices` keeps the paths. `Progress` says what a load that
is the only one has before it: everything of its file that is neither in the project nor
known to be missing, in an order in which no form follows a device (`Orderly`), so that the event
loop, which runs after forms only, never finds a device. `Named` is what is left of it when the
load ends. The contents of a file are read in the order of `SetToSeq`, of which the
proof uses only that it holds every member (`SetToSeqCovers`).

`DropWidgetsProofs` proves what the runs of `MCDropWidgets` check as invariants. A behaviour of the
instance is one of each of its six components (`EveryPart`), which have an inductive invariant
each; a theorem speaks of all of them.

| theorem | property |
|---|---|
| `TypesAreRight` | `TypeOK` |
| `ContainersAreShown` | `ShowsContainer` |
| `ShownIsContainerInvariant` | `ShownIsContainer`, its half about `ParameterValue` |
| `HandsAreFollowed` | `EditsFollowHand` |
| `SelectionsAreOffered` | `SelectedIsOffered` |
| `CellsAreCalledBack` | `CellsAreUpdated` |
| `TablesComeBack` | `RowsComeBack` |
| `CursorsKeepDistance`, `CursorsAreKept` | `CursorsKeep`, of the instance and of `Cursors` |
| `ContainerIsDeviceInvariant` | `ContainerIsDevice` |
| `NoLostBitInvariant` | `NoLostBit` |

`ParameterValue`, for every choice of bits, boxes, fields and queue lengths that satisfies
`ValueAssumption` (each box has a bit, no box is a field, no value is a question):
`ContainerIsDevice` and `NoLostBit` speak of states in which nothing is under way; `VInv` says what is
under way before. `Answered`: a device that answers has said last what it holds.
`Calm`, as long as nobody raced: values go before questions (`Ordered`), the last of them is
what the container holds and what is wanted (`LastIsWanted`), a device that answers gets one
value at a time (`OneValue`), and reports under way agree with the container, or the
last of them with the device when all values have arrived (`Consistent`). A race ends when
the last report leaves nothing under way, and re-establishes it.

`Cursors`, for all ranges, distances and positions that satisfy `CursorsAssumption` (ranges are not
empty, distances positive): the invariant says that cursors are active together; the rest is
arithmetic (`MovedTogether`: a pair that is moved ends on the axis, shifted or with the axis widened).

`NumberWidgets`, for all widgets, limits and values that satisfy `NumberAssumption`. The function that
rounds a number to what a widget can show is a constant of which only its range is assumed
(`FormRange`); that a move goes the way of the hand follows from the monotonicity of the conversion
between steps and numbers, over limits that rise or fall.

`ListViews` and `ComboBoxes`, for all widgets, texts and lists that satisfy `ListAssumption` and
`ComboAssumption`. What a view shows is the container's list, once that was set since the binding;
that the selection is offered rests on what every callback, drop and load leaves in the box's items.

`TableCells`, for all tables and elements that satisfy `TableAssumption`. `CellsAreUpdated` is not
inductive: a callback finds its cell by the row's number in the binding's name, so `CellInv` relates
rows, bindings and the objects of the containers, and says of which rows the numbers are shared.
For `RowsComeBack`, `FileInv` says of a load under way that the labels of the rows that are there,
followed by those that wait for their timers, are the file's, which holds the saved ones bottom up
(`Reverse`), as long as nobody has edited the table since (`faithful`).

`ComponentsProofs` proves for `PlotRegistry`, with any finite number of plots (`BoundsAssumption`), and
for `DataArchive`, with any channels, each once, and any values and names (`ArchiveAssumption`):

| theorem | property |
|---|---|
| `PlotsStayKnown` | `PlotsAreKnown` |
| `ImportsBringPrefixes` | `ImportIsAPrefix`, an action property |

`PlotsAreKnown` is not inductive. A rename deletes the plot's old name, whichever plot that name
points to, so after a load a name may point to another plot of the same figure. `Points` says that it
is one of the same figure; a close is right because it takes all of them. While the plots of a
figure are renamed one after the other, one may already be called what a later one still is;
`Renaming` says that its number is then in the sorted vector twice, so that erasing one leaves it
taken, and `RenamedAll` that nobody shares a name at the end. That the names of a file are free when
its figures are loaded, and that there are plots enough for them, follows from the file's having been saved from
a project in which names were different (`FileOK`, `SavedNames`). The sorted insertion, the removal
from it and the search for the first free number have lemmas of their own (`InsertsSorted`,
`RemovesOne`, `UniqueIsFree`); the folds over plots, names and figures are inductions (`Induction`).

`ImportIsAPrefix` compares an import with what the program held when it wrote the file, so
`ArchiveInv` says that the file is that, with fewer payloads at most, and that its descriptors have
different ids and a value each; the first because the list is made from a map
(`DescriptorsAreWhole`, an induction over the channels), the second because an export without a value
throws. What is published is then a first part of the descriptors, up to one that cannot be
read (`PublishedIs`); a channel below the root is read back from its one descriptor, since ids
below a root are different if the ids are (`RootIsCut`, `BelowIs`).

`RemoteControlProofs` proves, for all clients, kinds and numbers of requests that satisfy
`ClientsAssumption` (`NoClient` is no client, every kind is one of the five):

| theorem | property |
|---|---|
| `LatestIsServedInvariant` | `LatestIsServed` |
| `WholeRequestsInOrderInvariant` | `WholeRequestsInOrder` |

For the first, `IInv` adds what the variables hold that decide who is served; one lemma
(`EndKeepsPlace`) is about every way a connection ends. What `HeaderReceived` does with the
frames plays no part, only whether it ends in an abort.

For the second it does. `WInv` adds `Served`: of the current client's requests some first `k` are
done (`AreFirst`), the pieces in the splitter go on with the next one (`Continues`), and those under
way go on where the splitter ends. `Before` says of a client that waits that all it sent is under way,
and `Queue` that nobody waits twice, so that a client becomes current with an empty splitter at the
beginning of its stream. `SendsOn` lengthens a stream, `MovesOn` cuts it where TCP does, and
`RoundKeeps` is one round of the loop: a whole frame at the border is the next request
(`FrameIsRequest`), and the border moves on by one. `RoundsKeep` is the loop, by induction over it.
Without the reset of the splitter the invariant is lost at the first step of the new client.

`ConnectorProofs` proves, for all ids, values, patterns, matches and numbers of connections, calls
and changes that satisfy `ConnectorAssumption` (`None` is nothing else):

| theorem | property |
|---|---|
| `TypeInvariant` | `TypeOK`: a call that waits has the connection opened last, and it is open |
| `AnswersAreCurrentInvariant` | `AnswersAreCurrent` |
| `WildcardIsWholeInvariant` | `WildcardIsWhole` |
| `SetsArriveFirstAlways` | `SetsArriveFirst`, an action property |

The protocol has no number by which a reply names its request, so all of them rest on what is under
way on the connection of the port (`Call`). Between calls nothing comes back, because a call that
gave up has closed its connection. Of a call that waits, either the request is the last that the
server has not read (`Asking`), or every request is handled and what comes back is the one reply, or
its rest, or nothing any more (`Begun`, `Going`). A reply is `Fresh` when it is sent, since `seen` has
noted every value (`Noted`), and stays so while Get.m runs, since `seen` only grows (`FreshStays`).
`Gathering` says the same of what `getWildcard` has so far, and that its list lacks nothing that was
there from the start; that the server's list has every id that matches is an induction over the ids
(`ListedFinds`). For `SetsArriveFirst`, sets that the server has not are under way (`Due`), and when
an answer comes nothing is. If a call that gives up kept its connection, `Call` would be lost there.

`DataManagementProofs` proves, for every choice of ids, objects, windows, files and bounds that
satisfies `WindowsAssumption` (as in `Bindings`; the plots of a window have names of their own,
figures hold plots only, the empty id is no id):

| theorem | property |
|---|---|
| `TypeInvariant` | the types of its variables |
| `AnswerFindsMapperInvariant` | `AnswerFindsMapper` |
| `DanglingNeedsAdoptionInvariant` | `DanglingNeedsAdoption` |
| `ManagerImplementsBindings` | `ImplementsBindings` |

The last says that `Spec` implies `Bindings!Spec` under the refinement mapping, so what
`BindingsProofs` proves holds of the manager with its vectors, too. The invariant `Inv` has two
halves. `Local` are types, which window an object is in, and the two properties. `P!Registry` and
`P!Alive` are the invariants of `BindingsProofs`, read through the mapping, and each half needs the
other: that a call of the erase loop, which skips the element behind each one it erases, still does
what `Bindings` asks of it rests on a widget's name having one entry (`Homed`, from `HomeByName`)
and on how many graphs a plot draws; and the second half is carried over a step by
`BindingsProofs`, because the step is one of `Bindings`. So there are two lemmas for most actions:
`Step...` shows the step of `Bindings` from what happens to the vectors, `Sound...` that the
action, whatever its dialogs, files and faults, is such a step or a stutter and keeps `Local`.
`StepSound` puts them together; initial states map to initial states (`MappedInit`).

Its first half has what the proofs need to know about the data: how appending and erasing change how
often an element occurs, and for a vector of any length that the erase loop takes
nothing of another name and at least one of the name if there is one (`EraseLoses`); what the calls
`AddElement`, `DeleteEntry`, `ClearAllGraphs` and their repetitions over a window do to every
count.

These, the loop of the server and the list of a wildcard get are inductions over data. The library's induction theorems
take an operator as a parameter, which the provers cannot instantiate; `Induction` states
what is needed with sets and functions instead. A set of naturals stands for the predicate
(`NaturalInduction`, from the well-foundedness of `<`), and the steps of a fold are a function
(`FoldExists`, `FoldPrefixes`): the recursive function behind `FoldLeft` is defined by `CHOOSE`, so
first a function is shown to satisfy the recursion, then it is read as the sequence of the fold's
intermediate values.

Only model-checked: the properties of `DataExchange`, `PlotData` and `LayoutEdit`;
`Wildcard` for good (recursion), and every liveness property (`GetIsAnswered`, `Settles` and those of
`Project`).

## 6. Plan

Done, in this order: `Bindings`, its proofs, `DataManagement` with the refinement,
`PlotRegistry`, `RemoteControl`, `Wildcard`, `Connector`, `Project`, `ParameterValue`, `TableCells`,
`LayoutEdit`, `DataExchange`, `DataArchive`, the proofs about `Project`, `PlotData`, `Cursors`,
`NumberWidgets`, the proofs about `ParameterValue`, `Cursors` and `RemoteControl`, `ListViews`,
`ComboBoxes`, the proof of the refinement of `Bindings`, the proofs of the server's stream and of the MATLAB
client, those about the other drop widgets, `PlotRegistry` and the archive. Left:

1. Proofs that single moves of `LayoutEdit` are saved and undone, and that edits of `DataExchange` arrive.
2. The dirty flag of the prompts composed with `Project`.
3. The text that labels make of a value, and the tabs of an experiment file.

## 7. Not modelled, and why

What LEDs and labels display (as subscribers they are in `DataManagement`); limits of floating-point parameters;
painting, layout of figures, labels, log texts, the explorer's trees; floating-point
processing of plots and measurements, zoom and axis ranges of plots; the MAT and HDF5 formats (third-party
writers) and zstd; tray icon; QCustomPlot (vendored); how `QPluginLoader` keeps
libraries. Of experiment files: tabs, widget texts and the dock state. Of layouts:
spacers, form layouts, layouts without a widget of their own. That an address is used
again for another object. The prompts and their dirty flag (`docs/modernization/`
BEHAVIOR_INVENTORY.md:515-528 describes it): `Project` takes any of a prompt's answers at
any time, which allows more than the flag does.

## 8. Running

    tlc -workers 2 -config MCDataManagement_plots.cfg MCDataManagement.tla
    tlc -workers 2 -config MCComponents.cfg MCComponents.tla
    tlapm BindingsProofs.tla

Operators named `Mut...` are deliberate errors of the definitions they precede;
substituting one for its definition makes the property named for it in
`PROJECT.json` fail. Nothing else uses them.
