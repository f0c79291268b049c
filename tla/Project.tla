------------------------------ MODULE Project ------------------------------
(***************************************************************************)
(* The life of a project: loading, saving and closing it, the devices      *)
(* (plugins) that belong to it, and the messages that devices send.        *)
(*                                                                         *)
(* The GUI thread runs one handler at a time.  A load gives control back   *)
(* to the event loop after each form (processEvents), so that the user,    *)
(* the queued messages of device threads and the CloseProject timer come   *)
(* in the middle of it.  A device that lives in the GUI thread answers     *)
(* within the handler that calls it, a threaded one through the queue.     *)
(* Command-line arguments are loaded before the main window is shown and   *)
(* before the event loop runs; the tray icon is there already.             *)
(***************************************************************************)
EXTENDS Naturals, Sequences, SequencesExt, FiniteSets

CONSTANTS
    Devices,        \* devices, by name; each is described by one .LAdev file
    Threaded,       \* the devices whose messages are queued
    Forms,          \* form files
    Files,          \* paths of experiment files
    Saved,          \* what each file holds before the program starts
    StartFiles,     \* the experiments named on the command line
    None,           \* no path
    MaxLoads,       \* bound: loads, one inside the other
    MaxTimers,      \* bound: pending CloseProject timers
    MaxQueue        \* bound: queued messages

Elements == Forms \cup Devices

ASSUME ProjectAssumption ==
    /\ Threaded \subseteq Devices /\ Forms \cap Devices = {}
    /\ Saved \in [Files -> SUBSET Elements]
    /\ StartFiles \in Seq(Files)
    /\ None \notin Files
    /\ IsFiniteSet(Devices) /\ IsFiniteSet(Forms)
    /\ MaxLoads \in Nat /\ MaxTimers \in Nat /\ MaxQueue \in Nat

VARIABLES
    phase,      \* "before", "arguments", "after": startup; "running";
                \* "leaving": quit during a load; "exited"
    arguments,  \* the files of the command line still to load
    loads,      \* stack of loads: [path, rest], the elements still to read
    pumping,    \* the load on top is in the processEvents after a form
    isloading,  \* MainWindow::isloading
    timers,     \* how many CloseProject single shots are pending
    queue,      \* messages posted by threaded devices
    savePath,   \* MainWindow::SavePath
    disk,       \* file |-> the elements saved in it
    forms,      \* the forms of the project
    devices,    \* DeviceRegistry::Devices
    paths,      \* DeviceRegistry::DevicePaths
    connected,  \* devices connected with the messenger
    active,     \* devices that work: loaded, and not told to close since
    fault,      \* "none", or how the process crashed
    \* history
    mixed,      \* a load began inside another since the project was closed
    missing,    \* elements of the project's file that were left out or closed
    owed,       \* a close of the present project was asked for by a device,
                \* or before the project was loaded
    late,       \* devices loaded after the main window was closed
    reopened    \* the main window was closed, and the program goes on

registry == <<devices, paths, connected, active>>
load == <<phase, arguments, loads, pumping, isloading>>
history == <<mixed, missing, owed, late, reopened>>
vars == <<load, timers, queue, savePath, disk, forms, registry, fault, history>>

-----------------------------------------------------------------------------
(* The registry of devices, as functions of its state.                     *)

Registry == [devices |-> devices, paths |-> paths, connected |-> connected,
             active |-> active]

Becomes(r) == /\ devices' = r.devices /\ paths' = r.paths
              /\ connected' = r.connected /\ active' = r.active

\* A device is told to close while its messages still reach the messenger.
MutCleanup(r, S) == [devices |-> r.devices, paths |-> r.paths,
                     connected |-> r.connected, active |-> r.active \ S]

\* DeviceRegistry::Cleanup of the devices in S: disconnected first, and told
\* to close then, so that nothing a device answers comes back.
Cleanup(r, S) == [devices |-> r.devices, paths |-> r.paths,
                  connected |-> r.connected \ S, active |-> r.active \ S]

\* DeviceRegistry::Close
CloseDevice(r, d) ==
    LET cleaned == Cleanup(r, {d})
    IN  [devices |-> r.devices \ {d}, paths |-> r.paths \ {d},
         connected |-> cleaned.connected, active |-> cleaned.active]

\* DeviceRegistry::RemoveDevices keeps the paths.
RemoveDevices(r) ==
    LET cleaned == Cleanup(r, r.devices)
    IN  [devices |-> {}, paths |-> r.paths,
         connected |-> cleaned.connected, active |-> cleaned.active]

\* The paths are forgotten to be cleared.
MutClearProjectDevices(r) == RemoveDevices(r)

ClearProjectDevices(r) ==
    LET removed == RemoveDevices(r)
    IN  [devices |-> removed.devices, paths |-> {},
         connected |-> removed.connected, active |-> removed.active]

\* AddLegacyPlugin and NewDeviceRegistration of a device that is not there.
AddLegacyPlugin(r, d) ==
    [devices |-> r.devices \cup {d}, paths |-> r.paths \cup {d},
     connected |-> r.connected \cup {d}, active |-> r.active \cup {d}]

-----------------------------------------------------------------------------
Init == /\ phase = "before" /\ arguments = StartFiles
        /\ loads = <<>> /\ pumping = FALSE /\ isloading = FALSE
        /\ timers = 0 /\ queue = <<>> /\ savePath = None
        /\ disk = Saved
        /\ forms = {}
        /\ devices = {} /\ paths = {} /\ connected = {} /\ active = {}
        /\ fault = "none"
        /\ mixed = FALSE /\ missing = {} /\ owed = FALSE /\ late = {}
        /\ reopened = FALSE

\* Events are handled by the event loop, at startup by two calls of
\* processEvents around the arguments, and after each form of a load.
EventLoop ==
    /\ fault = "none"
    /\ IF loads = <<>> THEN phase \in {"before", "after", "running"} ELSE pumping

\* The windows take input when the main window is open; before that only the
\* tray icon does.
UserInput == EventLoop /\ phase = "running"

Direct == connected \ Threaded

-----------------------------------------------------------------------------
(* Closing a project.                                                      *)

\* MainWindowProjectCleanup::Close
CloseEverything ==
    /\ Becomes(ClearProjectDevices(Registry))
    /\ forms' = {}
    /\ savePath' = None
    /\ missing' = {}
    /\ mixed' = (mixed /\ loads # <<>>)
    /\ reopened' = FALSE
    /\ UNCHANGED late

\* MainWindow::CloseProject; while a load is going on it is tried again by a
\* timer.
CloseProject ==
    IF isloading
    THEN /\ timers < MaxTimers  \* bound
         /\ timers' = timers + 1
         /\ UNCHANGED <<savePath, forms, registry, mixed, missing, late, reopened>>
    ELSE CloseEverything /\ UNCHANGED timers

\* The menu's Close_Project, answered by Discard.
UserCloses ==
    /\ UserInput
    /\ CloseProject
    /\ owed' = isloading
    /\ UNCHANGED <<load, queue, disk, fault>>

\* The timer is started again as long as a load is going on.
TimerFires ==
    /\ EventLoop
    /\ timers > 0
    /\ IF isloading
       THEN UNCHANGED <<timers, savePath, forms, registry, mixed, missing, late, reopened>>
       ELSE CloseEverything /\ timers' = timers - 1
    /\ UNCHANGED <<load, queue, disk, fault, owed>>

-----------------------------------------------------------------------------
(* Messages of the devices.                                                *)

\* A CloseProject of a device; messages of other kinds change nothing here.
Closes == /\ CloseProject
          /\ owed' = isloading

\* A threaded device posts a message; it need not be told anything first.
DevicePosts(d) ==
    /\ fault = "none" /\ phase # "exited"
    /\ d \in connected \cap Threaded
    /\ Len(queue) < MaxQueue  \* bound
    /\ queue' = Append(queue, d)
    /\ UNCHANGED <<load, timers, savePath, disk, forms, registry, fault, history>>

\* A posted message is handled whatever became of the device in between.
Deliver ==
    /\ EventLoop
    /\ queue # <<>>
    /\ queue' = Tail(queue)
    /\ Closes
    /\ UNCHANGED <<load, disk, fault>>

\* A device in the GUI thread sends CloseProject of its own accord.
DeviceCloses(d) ==
    /\ EventLoop
    /\ d \in Direct
    /\ Closes
    /\ UNCHANGED <<load, queue, disk, fault>>

-----------------------------------------------------------------------------
(* Loading.                                                                *)

\* The writer's order: forms, then devices in the order of their names.
Contents(path) == SetToSeq(disk[path] \cap Forms) \o SetToSeq(disk[path] \cap Devices)

\* What was asked for before the project is there closes it when it is there.
StartLoad(path) ==
    /\ Len(loads) < MaxLoads  \* bound
    /\ IF isloading
       THEN /\ timers < MaxTimers  \* bound
            /\ timers' = timers + 1
            /\ owed' = TRUE
            /\ UNCHANGED <<savePath, forms, registry, missing, late, reopened>>
            /\ mixed' = TRUE
       ELSE /\ CloseEverything
            /\ owed' = (timers > 0 \/ queue # <<>>)
            /\ UNCHANGED timers
    /\ loads' = <<[path |-> path, rest |-> Contents(path)]>> \o loads
    /\ isloading' = TRUE /\ pumping' = FALSE

\* MainWindowProjectActions::LoadExperiment, after its dialogs.
LoadExperiment(path) ==
    /\ UserInput
    /\ StartLoad(path)
    /\ UNCHANGED <<phase, arguments, queue, disk, fault>>

\* ParseInputArguments, one experiment.
LoadArgument ==
    /\ phase = "arguments" /\ loads = <<>> /\ fault = "none"
    /\ arguments # <<>>
    /\ StartLoad(Head(arguments))
    /\ arguments' = Tail(arguments)
    /\ UNCHANGED <<phase, queue, disk, fault>>

\* The steps of ParseInputArguments around the arguments.
Startup ==
    /\ loads = <<>> /\ fault = "none"
    /\ \/ phase = "before" /\ phase' = "arguments"
       \/ phase = "arguments" /\ arguments = <<>> /\ phase' = "after"
       \/ phase = "after" /\ phase' = "running"
    /\ UNCHANGED <<arguments, loads, pumping, isloading, timers, queue, savePath,
                   disk, forms, registry, fault, history>>

Reading(S) == /\ loads # <<>> /\ fault = "none"
              /\ Head(loads).rest # <<>> /\ Head(Head(loads).rest) \in S
Element == Head(Head(loads).rest)
Continue == loads' = <<[Head(loads) EXCEPT !.rest = Tail(@)]>> \o Tail(loads)

\* LoadForm: a form that is missing is reported and passed over.
LoadForm ==
    /\ Reading(Forms)
    /\ \/ forms' = forms \cup {Element} /\ pumping' = TRUE /\ UNCHANGED missing
       \/ missing' = missing \cup {Element} /\ pumping' = FALSE /\ UNCHANGED forms
    /\ Continue
    /\ UNCHANGED <<phase, arguments, isloading, timers, queue, savePath, disk,
                   registry, fault, mixed, owed, late, reopened>>

\* A description that is missing is passed over, too.
SkipDevice ==
    /\ Reading(Devices)
    /\ missing' = missing \cup {Element}
    /\ pumping' = FALSE
    /\ Continue
    /\ UNCHANGED <<phase, arguments, isloading, timers, queue, savePath, disk,
                   forms, registry, fault, mixed, owed, late, reopened>>

\* LoadPlugin: the new device is registered, and "load" goes to every device.
\* One in the GUI thread may answer with CloseProject, which a load puts off.
LoadDevice ==
    /\ Reading(Devices)
    /\ Element \notin devices
    /\ Becomes(AddLegacyPlugin(Registry, Element))
    /\ \/ UNCHANGED <<timers, owed>>
       \/ /\ isloading /\ (Direct \cup {Element}) \ Threaded # {}
          /\ timers < MaxTimers  \* bound
          /\ timers' = timers + 1
          /\ owed' = TRUE
    /\ late' = IF phase = "leaving" THEN late \cup {Element} ELSE late
    /\ pumping' = FALSE
    /\ Continue
    /\ UNCHANGED <<phase, arguments, isloading, queue, savePath, disk, forms,
                   fault, mixed, missing, reopened>>

\* isloading is not reset.
MutEndOfLoad ==
    /\ loads' = Tail(loads)
    /\ pumping' = (Tail(loads) # <<>>)
    /\ phase' = IF phase = "leaving" /\ Tail(loads) = <<>> THEN "exited" ELSE phase
    /\ UNCHANGED <<arguments, isloading, queue, disk, forms, registry, fault, mixed,
                   missing, late, reopened>>

EndOfLoad ==
    /\ loads' = Tail(loads)
    /\ pumping' = (Tail(loads) # <<>>)
    /\ isloading' = FALSE
    /\ phase' = IF phase = "leaving" /\ Tail(loads) = <<>> THEN "exited" ELSE phase
    /\ UNCHANGED <<arguments, queue, disk, forms, registry, fault, mixed, missing, late, reopened>>

\* The path is kept although the load failed.
MutFailLoad ==
    /\ loads # <<>> /\ fault = "none"
    /\ timers < MaxTimers
    /\ timers' = timers + 1
    /\ savePath' = Head(loads).path
    /\ UNCHANGED owed
    /\ EndOfLoad

\* The file cannot be opened or parsed, or a device in it cannot be loaded,
\* one whose name is taken among them: the manager sends itself a
\* CloseProject, which is put off; an outer load may have reset isloading
\* under this one, and then it is not.
FailLoad ==
    /\ loads # <<>> /\ fault = "none"
    /\ IF isloading
       THEN /\ timers < MaxTimers  \* bound
            /\ timers' = timers + 1
            /\ UNCHANGED <<savePath, forms, registry, mixed, missing, late, reopened>>
       ELSE CloseEverything /\ UNCHANGED timers
    /\ loads' = Tail(loads)
    /\ pumping' = (Tail(loads) # <<>>)
    /\ isloading' = FALSE
    /\ phase' = IF phase = "leaving" /\ Tail(loads) = <<>> THEN "exited" ELSE phase
    /\ UNCHANGED <<arguments, queue, disk, fault, owed>>

FinishLoad ==
    /\ loads # <<>> /\ fault = "none"
    /\ Head(loads).rest = <<>>
    /\ savePath' = Head(loads).path
    /\ UNCHANGED <<timers, owed>>
    /\ EndOfLoad

-----------------------------------------------------------------------------
(* Saving, and what the user does with forms, devices and the program.     *)

\* The devices of the names taken before the loop are looked up one after the
\* other, and "save" goes to every device each time.  After the answer of a
\* device to the k-th call has closed the project there is none left.
SaveTo(path) ==
    \E k \in 0..Cardinality(paths) :
        LET names == SetToSeq(paths)
            found == {i \in 1..Len(names) : names[i] \in devices}
            calls == IF k = 0 THEN 1..Len(names) ELSE 1..k
            lost == calls \ found # {} \/ (k > 0 /\ k < Len(names) /\ ~isloading)
        IN  /\ k > 0 => Direct # {}
            /\ disk' = IF path = None THEN disk
                       ELSE [disk EXCEPT ![path] = forms \cup paths]
            /\ fault' = IF lost THEN "null device" ELSE fault
            /\ IF k > 0 /\ ~lost THEN Closes
               ELSE /\ missing' = IF path \in Files \cap {savePath} THEN {} ELSE missing
                    /\ UNCHANGED <<timers, savePath, forms, registry, mixed, owed,
                                   late, reopened>>
            /\ UNCHANGED queue

\* on_actionSave and Save-as, which does not change SavePath; a Save-as that
\* is cancelled saves to no path.
SaveExperiment ==
    /\ UserInput
    /\ \E path \in Files \cup {None} : SaveTo(path)
    /\ UNCHANGED load

CloseForm(f) ==
    /\ UserInput
    /\ f \in forms
    /\ forms' = forms \ {f}
    /\ missing' = missing \cup {f}
    /\ UNCHANGED <<load, timers, queue, savePath, disk, registry, fault, mixed, owed, late, reopened>>

\* RemoveDevice of the explorer's menu.
RemoveDevice(d) ==
    /\ UserInput
    /\ d \in devices
    /\ Becomes(CloseDevice(Registry, d))
    /\ missing' = missing \cup {d}
    /\ UNCHANGED <<load, timers, queue, savePath, disk, forms, fault, mixed, owed, late, reopened>>

\* closeEvent, from the window or from the tray.  Without an event loop to
\* leave, at startup, the program goes on and shows its window; in a load it
\* ends with the load.
Quit ==
    /\ EventLoop
    /\ phase # "leaving"
    /\ Becomes(RemoveDevices(Registry))
    /\ savePath' = None
    /\ phase' = CASE phase \in {"before", "arguments", "after"} -> phase
                  [] loads # <<>> -> "leaving"
                  [] OTHER -> "exited"
    /\ reopened' = (phase' # "exited")
    /\ UNCHANGED <<arguments, loads, pumping, isloading, timers, queue, disk,
                   forms, fault, mixed, missing, owed, late>>

\* A process that crashed or exited stays as it is.
Ended == (fault # "none" \/ phase = "exited") /\ UNCHANGED vars

-----------------------------------------------------------------------------
CloseStep == UserCloses \/ TimerFires
MessageStep == Deliver \/ \E d \in Devices : DevicePosts(d) \/ DeviceCloses(d)
LoadStep == \/ \E path \in Files : LoadExperiment(path)
            \/ LoadArgument \/ Startup
            \/ LoadForm \/ SkipDevice \/ LoadDevice \/ FailLoad \/ FinishLoad
UserStep == \/ SaveExperiment \/ Quit
            \/ \E f \in Forms : CloseForm(f)
            \/ \E d \in Devices : RemoveDevice(d)

Next == CloseStep \/ MessageStep \/ LoadStep \/ UserStep \/ Ended

Spec == Init /\ [][Next]_vars
-----------------------------------------------------------------------------
(* Properties.                                                             *)

\* The timer is served, and the load goes on.
FairSpec == /\ Spec
            /\ WF_vars(TimerFires)
            /\ WF_vars(LoadForm \/ SkipDevice \/ LoadDevice \/ FailLoad \/ FinishLoad)

TypeOK ==
    /\ phase \in {"before", "arguments", "after", "running", "leaving", "exited"}
    /\ arguments \in Seq(Files)
    /\ loads \in Seq([path : Files, rest : Seq(Elements)])
    /\ {isloading, pumping, mixed, owed, reopened} \subseteq BOOLEAN
    /\ isloading => loads # <<>>
    /\ pumping => loads # <<>>
    /\ timers \in 0..MaxTimers
    /\ queue \in Seq(Threaded) /\ Len(queue) <= MaxQueue
    /\ savePath \in Files \cup {None}
    /\ disk \in [Files -> SUBSET Elements]
    /\ forms \subseteq Forms
    /\ devices \cup paths \cup connected \cup active \cup late \subseteq Devices
    /\ missing \subseteq Elements
    /\ fault \in {"none", "null device"}

\* DeviceRegistry keeps devices and paths in two maps, and the save takes the
\* names from one and the devices from the other: the maps agree, unless the
\* main window was closed and the program went on.
NamesHaveDevices == reopened \/ phase = "exited" \/ paths = devices

\* A save dereferences the device of every name it took before its loop: it
\* finds one, unless a device of the GUI thread answers "save" by closing the
\* project, or the main window was closed during startup and came back.
SaveFindsDevices == fault = "null device" => reopened \/ Direct # {}

\* A device works only while the project knows it, and is heard only then;
\* when the process ends, whoever still works was loaded after the main
\* window had been closed.
NoDeviceOutlivesProject ==
    /\ active = devices /\ connected = devices
    /\ phase = "exited" => active \subseteq late

\* What is saved under SavePath replaces the file: whatever the file holds is
\* in the project or was closed by the user or missing when it was read,
\* unless one load began inside another.
SavePathNamesProject ==
    loads = <<>> /\ savePath # None /\ ~mixed /\ fault = "none"
        => disk[savePath] \ missing \subseteq forms \cup devices

\* A project that was loaded without an error is not closed by a timer,
\* unless a device or an earlier project asked for it.
LoadedProjectStays ==
    loads = <<>> /\ savePath # None /\ ~mixed /\ timers > 0 => owed

\* Once no load begins any more, every close that was put off is carried out.
DeferredCloseHappens ==
    <>[](loads = <<>> /\ phase = "running" /\ fault = "none") => []<>(timers = 0)
=============================================================================
