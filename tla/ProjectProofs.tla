---------------------------- MODULE ProjectProofs ----------------------------
(***************************************************************************)
(* Proofs about Project, for any devices, forms, files and bounds.         *)
(***************************************************************************)
EXTENDS Project, FiniteSetTheorems, SequenceTheorems, TLAPS

Load == [path : Files, rest : Seq(Elements)]

-----------------------------------------------------------------------------
(* The inductive invariant.                                                *)

\* The messenger's connections and the working devices are those of the map.
Agree == active = devices /\ connected = devices

\* After quitting in a load, whoever works was loaded since.
Leaves == /\ phase \in {"leaving", "exited"} => active \subseteq late
          /\ phase = "exited" => loads = <<>>

\* As long as no load began inside another, there is one at a time, isloading
\* is its flag, and the project has no path before its end.
Nesting == loads # <<>> /\ ~mixed => Len(loads) = 1 /\ isloading /\ savePath = None

\* A timer that will find a project, loaded or about to be, was asked for.
Owes == ~mixed /\ timers > 0 /\ (loads # <<>> \/ savePath # None) => owed

IInv == /\ TypeOK /\ Agree /\ NamesHaveDevices /\ Leaves /\ SaveFindsDevices
        /\ Nesting /\ Owes

USE ProjectAssumption DEF ProjectAssumption, Elements, Load

-----------------------------------------------------------------------------
(* The registry.                                                           *)

\* What CloseEverything leaves: an empty project that was not reopened.
LEMMA Closed ==
    ASSUME CloseEverything, Agree
    PROVE  /\ devices' = {} /\ paths' = {} /\ connected' = {} /\ active' = {}
           /\ forms' = {} /\ savePath' = None /\ reopened' = FALSE /\ late' = late
           /\ missing' = {} /\ mixed' = (mixed /\ loads # <<>>)
  BY DEF CloseEverything, Becomes, ClearProjectDevices, RemoveDevices, Cleanup, Registry, Agree

\* Close takes the device out of both maps and out of the messenger.
LEMMA ClosedDevice ==
    ASSUME NEW d, Becomes(CloseDevice(Registry, d))
    PROVE  /\ devices' = devices \ {d} /\ paths' = paths \ {d}
           /\ connected' = connected \ {d} /\ active' = active \ {d}
  BY DEF Becomes, CloseDevice, Cleanup, Registry

\* A loaded plugin is in both maps, connected and at work.
LEMMA AddedDevice ==
    ASSUME NEW d, Becomes(AddLegacyPlugin(Registry, d))
    PROVE  /\ devices' = devices \cup {d} /\ paths' = paths \cup {d}
           /\ connected' = connected \cup {d} /\ active' = active \cup {d}
  BY DEF Becomes, AddLegacyPlugin, Registry

\* RemoveDevices empties the map of devices and keeps their paths.
LEMMA RemovedDevices ==
    ASSUME Becomes(RemoveDevices(Registry)), Agree
    PROVE  /\ devices' = {} /\ paths' = paths /\ connected' = {} /\ active' = {}
  BY DEF Becomes, RemoveDevices, Cleanup, Registry, Agree

\* The sequence of a finite set holds members of it.
LEMMA SetToSeqType ==
    ASSUME NEW S, IsFiniteSet(S)
    PROVE  SetToSeq(S) \in Seq(S) /\ Len(SetToSeq(S)) = Cardinality(S)
<1> DEFINE n == Cardinality(S)
<1>1. n \in Nat /\ \E f : f \in Bijection(1..n, S)
  BY FS_CardinalityType DEF ExistsBijection
<1>2. PICK f : f \in Bijection(1..n, S)
  BY <1>1
<1>3. f \in [1..n -> S] /\ IsInjective(f)
  BY <1>2 DEF Bijection, Injection, IsInjective
<1>4. SetToSeq(S) \in [1..n -> S]
  BY <1>3 DEF SetToSeq
<1> HIDE DEF n
<1> QED
  BY <1>1, <1>4 DEF n

\* A load reads elements.
LEMMA ContentsType ==
    ASSUME TypeOK, NEW path \in Files
    PROVE  Contents(path) \in Seq(Elements)
<1>1. IsFiniteSet(disk[path] \cap Forms) /\ IsFiniteSet(disk[path] \cap Devices)
  BY FS_Intersection
<1>2. /\ SetToSeq(disk[path] \cap Forms) \in Seq(disk[path] \cap Forms)
      /\ SetToSeq(disk[path] \cap Devices) \in Seq(disk[path] \cap Devices)
  BY <1>1, SetToSeqType
<1>3. /\ SetToSeq(disk[path] \cap Forms) \in Seq(Elements)
      /\ SetToSeq(disk[path] \cap Devices) \in Seq(Elements)
  BY <1>2
<1> QED
  BY <1>3 DEF Contents

-----------------------------------------------------------------------------
(* Closing.                                                                *)

\* CloseEverything out of any handler that leaves the loads alone.
LEMMA CloseEverythingKeeps ==
    ASSUME IInv, CloseEverything, ~isloading, fault = "none", fault' = "none",
           UNCHANGED load, disk' \in [Files -> SUBSET Elements],
           queue' \in Seq(Threaded), Len(queue') <= MaxQueue,
           timers' \in 0..MaxTimers, owed' \in BOOLEAN
    PROVE  IInv'
<1> USE DEF IInv, load
<1>1. TypeOK'
  BY Closed DEF TypeOK
<1>2. Agree' /\ NamesHaveDevices' /\ SaveFindsDevices'
  BY Closed DEF Agree, NamesHaveDevices, SaveFindsDevices
<1>3. Leaves'
  BY Closed DEF Leaves
<1>4. Nesting' /\ Owes'
  BY Closed DEF Nesting, Owes, TypeOK
<1> QED
  BY <1>1, <1>2, <1>3, <1>4

\* A request to close is carried out, or put off and owed.
LEMMA CloseProjectKeeps ==
    ASSUME IInv, CloseProject, fault = "none", fault' = "none",
           UNCHANGED load, disk' \in [Files -> SUBSET Elements],
           queue' \in Seq(Threaded), Len(queue') <= MaxQueue, owed' = isloading
    PROVE  IInv'
<1>1. CASE isloading
  <2> USE <1>1 DEF IInv, load, registry
  <2>1. /\ timers' \in 0..MaxTimers
        /\ UNCHANGED <<savePath, forms, registry, mixed, missing, late, reopened>>
    BY DEF CloseProject, TypeOK
  <2>2. TypeOK'
    BY <2>1 DEF TypeOK
  <2>3. Agree' /\ NamesHaveDevices' /\ SaveFindsDevices' /\ Leaves'
    BY <2>1 DEF Agree, NamesHaveDevices, SaveFindsDevices, Leaves
  <2>4. Nesting' /\ Owes'
    BY <2>1 DEF Nesting, Owes
  <2> QED
    BY <2>2, <2>3, <2>4
<1>2. CASE ~isloading
  <2>1. CloseEverything /\ UNCHANGED timers
    BY <1>2 DEF CloseProject
  <2>2. timers' \in 0..MaxTimers /\ owed' \in BOOLEAN
    BY <1>2, <2>1 DEF IInv, TypeOK
  <2> QED
    BY <1>2, <2>1, <2>2, CloseEverythingKeeps
<1> QED
  BY <1>1, <1>2

\* Close_Project of the menu.
LEMMA UserClosesKeeps ==
    ASSUME IInv, UserCloses
    PROVE  IInv'
<1>1. /\ CloseProject /\ owed' = isloading /\ fault = "none" /\ fault' = "none"
      /\ UNCHANGED load /\ queue' = queue /\ disk' = disk
  BY DEF UserCloses, UserInput, EventLoop
<1> QED
  BY <1>1, CloseProjectKeeps DEF IInv, TypeOK

\* The timer waits for the end of the load or closes the project.
LEMMA TimerFiresKeeps ==
    ASSUME IInv, TimerFires
    PROVE  IInv'
<1>1. /\ fault = "none" /\ fault' = "none" /\ timers > 0
      /\ UNCHANGED load /\ queue' = queue /\ disk' = disk /\ owed' = owed
  BY DEF TimerFires, EventLoop
<1>2. CASE isloading
  <2>1. UNCHANGED vars
    BY <1>1, <1>2 DEF TimerFires, vars, history
  <2> QED
    BY <2>1 DEF IInv, vars, load, registry, history, TypeOK, Agree, NamesHaveDevices,
                Leaves, SaveFindsDevices, Direct, Nesting, Owes
<1>3. CASE ~isloading
  <2>1. CloseEverything /\ timers' = timers - 1
    BY <1>3 DEF TimerFires
  <2> QED
    BY <1>1, <1>3, <2>1, CloseEverythingKeeps DEF IInv, TypeOK
<1> QED
  BY <1>2, <1>3

-----------------------------------------------------------------------------
(* Messages.                                                               *)

\* A device thread posts a message.
LEMMA DevicePostsKeeps ==
    ASSUME IInv, NEW d \in Devices, DevicePosts(d)
    PROVE  IInv'
<1> USE DEF IInv, DevicePosts, load, registry, history
<1>1. TypeOK'
  BY DEF TypeOK
<1>2. Agree' /\ NamesHaveDevices' /\ Leaves' /\ SaveFindsDevices' /\ Nesting' /\ Owes'
  BY DEF Agree, NamesHaveDevices, Leaves, SaveFindsDevices, Direct, Nesting, Owes
<1> QED
  BY <1>1, <1>2

\* A posted CloseProject is handled, whoever sent it.
LEMMA DeliverKeeps ==
    ASSUME IInv, Deliver
    PROVE  IInv'
<1>1. /\ CloseProject /\ owed' = isloading /\ fault = "none" /\ fault' = "none"
      /\ UNCHANGED load /\ queue # <<>> /\ queue' = Tail(queue) /\ disk' = disk
  BY DEF Deliver, Closes, EventLoop
<1>2. queue' \in Seq(Threaded) /\ Len(queue') <= MaxQueue
  BY <1>1 DEF IInv, TypeOK
<1> QED
  BY <1>1, <1>2, CloseProjectKeeps DEF IInv, TypeOK

\* A device in the GUI thread closes the project.
LEMMA DeviceClosesKeeps ==
    ASSUME IInv, NEW d \in Devices, DeviceCloses(d)
    PROVE  IInv'
<1>1. /\ CloseProject /\ owed' = isloading /\ fault = "none" /\ fault' = "none"
      /\ UNCHANGED load /\ queue' = queue /\ disk' = disk
  BY DEF DeviceCloses, Closes, EventLoop
<1> QED
  BY <1>1, CloseProjectKeeps DEF IInv, TypeOK

-----------------------------------------------------------------------------
(* Loading.                                                                *)

\* The first load of the program, or the first inside another.
LEMMA StartLoadKeeps ==
    ASSUME IInv, NEW path \in Files, StartLoad(path), phase \in {"arguments", "running"},
           phase' = phase, arguments' \in Seq(Files), UNCHANGED <<queue, disk, fault>>,
           fault = "none"
    PROVE  IInv'
<1> USE DEF IInv
<1>1. /\ loads' = <<[path |-> path, rest |-> Contents(path)]>> \o loads
      /\ isloading' = TRUE /\ pumping' = FALSE
  BY DEF StartLoad
<1>2. /\ loads' \in Seq(Load) /\ loads' # <<>>
      /\ loads = <<>> => Len(loads') = 1
  BY <1>1, ContentsType DEF TypeOK
<1>3. CASE isloading
  <2> USE <1>3 DEF registry
  <2>1. /\ mixed' = TRUE /\ owed' = TRUE /\ timers' \in 0..MaxTimers
        /\ UNCHANGED <<savePath, forms, registry, missing, late, reopened>>
    BY DEF StartLoad, TypeOK
  <2>2. TypeOK'
    BY <1>1, <1>2, <2>1 DEF TypeOK
  <2>3. Agree' /\ NamesHaveDevices' /\ Leaves' /\ SaveFindsDevices' /\ Nesting' /\ Owes'
    BY <2>1 DEF Agree, NamesHaveDevices, Leaves, SaveFindsDevices, Nesting, Owes
  <2> QED
    BY <2>2, <2>3
<1>4. CASE ~isloading
  <2>1. CloseEverything /\ timers' = timers /\ owed' = (timers > 0 \/ queue # <<>>)
    BY <1>4 DEF StartLoad
  <2>2. TypeOK'
    BY <1>1, <1>2, <2>1, Closed DEF TypeOK
  <2>3. Agree' /\ NamesHaveDevices' /\ Leaves' /\ SaveFindsDevices'
    BY <2>1, Closed DEF Agree, NamesHaveDevices, Leaves, SaveFindsDevices
  <2>4. Nesting' /\ Owes'
    BY <1>1, <1>2, <1>4, <2>1, Closed DEF Nesting, Owes, TypeOK
  <2> QED
    BY <2>2, <2>3, <2>4
<1> QED
  BY <1>3, <1>4

\* The user loads an experiment, maybe inside another load.
LEMMA LoadExperimentKeeps ==
    ASSUME IInv, NEW path \in Files, LoadExperiment(path)
    PROVE  IInv'
<1>1. /\ StartLoad(path) /\ phase = "running" /\ phase' = phase /\ fault = "none"
      /\ arguments' = arguments /\ UNCHANGED <<queue, disk, fault>>
  BY DEF LoadExperiment, UserInput, EventLoop
<1> QED
  BY <1>1, StartLoadKeeps DEF IInv, TypeOK

\* An experiment of the command line is loaded.
LEMMA LoadArgumentKeeps ==
    ASSUME IInv, LoadArgument
    PROVE  IInv'
<1>1. /\ StartLoad(Head(arguments)) /\ phase = "arguments" /\ phase' = phase /\ fault = "none"
      /\ arguments # <<>> /\ arguments' = Tail(arguments) /\ UNCHANGED <<queue, disk, fault>>
  BY DEF LoadArgument
<1>2. Head(arguments) \in Files /\ arguments' \in Seq(Files)
  BY <1>1 DEF IInv, TypeOK
<1> QED
  BY <1>1, <1>2, StartLoadKeeps

\* The steps of startup around the arguments.
LEMMA StartupKeeps ==
    ASSUME IInv, Startup
    PROVE  IInv'
<1> USE DEF IInv, Startup, registry, history
<1>1. TypeOK'
  BY DEF TypeOK
<1>2. Agree' /\ NamesHaveDevices' /\ Leaves' /\ SaveFindsDevices' /\ Nesting' /\ Owes'
  BY DEF Agree, NamesHaveDevices, Leaves, SaveFindsDevices, Direct, Nesting, Owes
<1> QED
  BY <1>1, <1>2

\* The load on top reads its next element.
LEMMA Reads ==
    ASSUME TypeOK, NEW S, Reading(S), Continue
    PROVE  /\ Element \in S /\ loads # <<>> /\ fault = "none"
           /\ loads' \in Seq(Load) /\ loads' # <<>> /\ Len(loads') = Len(loads)
<1> USE DEF Load
<1>1. /\ loads # <<>> /\ Head(loads).rest # <<>> /\ Element \in S /\ fault = "none"
  BY DEF Reading, Element
<1>2. loads \in Seq(Load)
  BY DEF TypeOK
<1>3. Head(loads) \in Load /\ Tail(loads) \in Seq(Load) /\ Len(Tail(loads)) = Len(loads) - 1
  BY <1>1, <1>2, HeadTailProperties
<1>4. Head(loads).rest \in Seq(Elements)
  BY <1>3
<1>5. Tail(Head(loads).rest) \in Seq(Elements)
  BY <1>1, <1>4, HeadTailProperties
<1> DEFINE top == [Head(loads) EXCEPT !.rest = Tail(Head(loads).rest)]
<1>6. top \in Load
  BY <1>3, <1>5
<1>7. loads' = <<top>> \o Tail(loads)
  BY DEF Continue
<1> HIDE DEF top, Load
<1>8. /\ <<top>> \in Seq(Load) /\ Len(<<top>>) = 1 /\ Len(loads) \in Nat
  BY <1>2, <1>6, LenProperties
<1>9. /\ loads' \in Seq(Load) /\ Len(loads') = 1 + (Len(loads) - 1)
  BY <1>3, <1>7, <1>8, ConcatProperties
<1>10. Len(loads') = Len(loads) /\ loads' # <<>>
  BY <1>1, <1>2, <1>8, <1>9, EmptySeq
<1> QED
  BY <1>1, <1>9, <1>10

\* A form is loaded or missing.
LEMMA LoadFormKeeps ==
    ASSUME IInv, LoadForm
    PROVE  IInv'
<1> USE DEF IInv, registry
<1>1. /\ Element \in Forms /\ loads # <<>>
      /\ loads' \in Seq(Load) /\ loads' # <<>> /\ Len(loads') = Len(loads)
  BY Reads DEF LoadForm
<1>2. TypeOK'
  BY <1>1 DEF TypeOK, LoadForm
<1>3. Agree' /\ NamesHaveDevices' /\ Leaves' /\ SaveFindsDevices' /\ Nesting' /\ Owes'
  BY <1>1 DEF LoadForm, Agree, NamesHaveDevices, Leaves, SaveFindsDevices, Direct, Nesting, Owes
<1> QED
  BY <1>2, <1>3

\* A device whose description is missing is passed over.
LEMMA SkipDeviceKeeps ==
    ASSUME IInv, SkipDevice
    PROVE  IInv'
<1> USE DEF IInv, registry
<1>1. /\ Element \in Devices /\ loads # <<>>
      /\ loads' \in Seq(Load) /\ loads' # <<>> /\ Len(loads') = Len(loads)
  BY Reads DEF SkipDevice
<1>2. TypeOK'
  BY <1>1 DEF TypeOK, SkipDevice
<1>3. Agree' /\ NamesHaveDevices' /\ Leaves' /\ SaveFindsDevices' /\ Nesting' /\ Owes'
  BY <1>1 DEF SkipDevice, Agree, NamesHaveDevices, Leaves, SaveFindsDevices, Direct, Nesting, Owes
<1> QED
  BY <1>2, <1>3

\* A device is in both maps, connected and at work; the close that it may ask
\* for is owed.
LEMMA LoadDeviceKeeps ==
    ASSUME IInv, LoadDevice
    PROVE  IInv'
<1> USE DEF IInv
<1>1. /\ Element \in Devices /\ loads # <<>> /\ fault = "none"
      /\ loads' \in Seq(Load) /\ loads' # <<>> /\ Len(loads') = Len(loads)
  BY Reads DEF LoadDevice
<1>2. /\ devices' = devices \cup {Element} /\ paths' = paths \cup {Element}
      /\ connected' = connected \cup {Element} /\ active' = active \cup {Element}
  BY AddedDevice DEF LoadDevice
<1>3. /\ timers' \in 0..MaxTimers /\ owed' \in BOOLEAN
      /\ owed' = TRUE \/ (timers' = timers /\ owed' = owed)
  <2>1. timers \in 0..MaxTimers /\ owed \in BOOLEAN
    BY DEF TypeOK
  <2>2. CASE UNCHANGED <<timers, owed>>
    BY <2>1, <2>2
  <2>3. CASE timers < MaxTimers /\ timers' = timers + 1 /\ owed' = TRUE
    <3>1. timers' \in 0..MaxTimers
      BY <2>1, <2>3
    <3>2. owed' = TRUE /\ owed' \in BOOLEAN
      BY <2>3
    <3> QED
      BY <3>1, <3>2
  <2> QED
    BY <2>2, <2>3 DEF LoadDevice
<1>4. /\ late' = IF phase = "leaving" THEN late \cup {Element} ELSE late
      /\ pumping' = FALSE
      /\ UNCHANGED <<phase, arguments, isloading, queue, savePath, disk, forms,
                     fault, mixed, missing, reopened>>
  BY DEF LoadDevice
<1>5. TypeOK'
  BY <1>1, <1>2, <1>3, <1>4 DEF TypeOK
<1>6. Agree' /\ NamesHaveDevices' /\ Leaves' /\ SaveFindsDevices'
  BY <1>1, <1>2, <1>4 DEF Agree, NamesHaveDevices, Leaves, SaveFindsDevices
<1>7. Nesting' /\ Owes'
  BY <1>1, <1>3, <1>4 DEF Nesting, Owes
<1> QED
  BY <1>5, <1>6, <1>7

\* The load on top ends.
LEMMA Ends ==
    ASSUME TypeOK, loads # <<>>, loads' = Tail(loads)
    PROVE  /\ loads' \in Seq(Load) /\ Len(loads') = Len(loads) - 1
           /\ loads' = <<>> <=> Len(loads) = 1
           /\ Head(loads).path \in Files
<1>1. loads \in Seq(Load)
  BY DEF TypeOK, Load
<1>2. /\ Head(loads) \in Load /\ Tail(loads) \in Seq(Load)
      /\ Len(Tail(loads)) = Len(loads) - 1 /\ Len(loads) \in Nat
  <2> HIDE DEF Load, Elements, ProjectAssumption
  <2> QED
    BY <1>1
<1>3. Tail(loads) = <<>> <=> Len(loads) - 1 = 0
  BY <1>2, EmptySeq
<1>4. Head(loads).path \in Files
  BY <1>2 DEF Load
<1> QED
  BY <1>2, <1>3, <1>4

\* A load that comes to its end gives the project its path.
LEMMA FinishLoadKeeps ==
    ASSUME IInv, FinishLoad
    PROVE  IInv'
<1> USE DEF IInv, registry, FinishLoad, EndOfLoad
<1>1. /\ loads' \in Seq(Load) /\ Len(loads') = Len(loads) - 1
      /\ loads' = <<>> <=> Len(loads) = 1
      /\ Head(loads).path \in Files
  <2>1. loads # <<>> /\ loads' = Tail(loads)
    OBVIOUS
  <2> QED
    BY <2>1, Ends
<1>2. TypeOK'
  BY <1>1 DEF TypeOK
<1>3. Agree' /\ NamesHaveDevices' /\ Leaves' /\ SaveFindsDevices'
  BY <1>1 DEF Agree, NamesHaveDevices, Leaves, SaveFindsDevices, Direct
<1>4. Nesting' /\ Owes'
  BY <1>1 DEF Nesting, Owes
<1> QED
  BY <1>2, <1>3, <1>4

\* A load that fails closes the project, at once or by a timer.
LEMMA FailLoadKeeps ==
    ASSUME IInv, FailLoad
    PROVE  IInv'
<1> USE DEF IInv
<1>1. /\ loads # <<>> /\ fault = "none" /\ loads' = Tail(loads)
      /\ pumping' = (Tail(loads) # <<>>) /\ isloading' = FALSE
      /\ phase' = IF phase = "leaving" /\ Tail(loads) = <<>> THEN "exited" ELSE phase
      /\ UNCHANGED <<arguments, queue, disk, fault, owed>>
  BY DEF FailLoad
<1>2. /\ loads' \in Seq(Load) /\ Len(loads') = Len(loads) - 1
      /\ loads' = <<>> <=> Len(loads) = 1
  BY <1>1, Ends
<1>3. CASE isloading
  <2> USE <1>3 DEF registry
  <2>1. /\ timers' \in 0..MaxTimers
        /\ UNCHANGED <<savePath, forms, registry, mixed, missing, late, reopened>>
    BY DEF FailLoad, TypeOK
  <2>2. TypeOK'
    BY <1>1, <1>2, <2>1 DEF TypeOK
  <2>3. Agree' /\ NamesHaveDevices' /\ Leaves' /\ SaveFindsDevices'
    BY <1>1, <1>2, <2>1 DEF Agree, NamesHaveDevices, Leaves, SaveFindsDevices
  <2>4. Nesting' /\ Owes'
    BY <1>1, <1>2, <2>1 DEF Nesting, Owes
  <2> QED
    BY <2>2, <2>3, <2>4
<1>4. CASE ~isloading
  <2>1. CloseEverything /\ timers' = timers
    BY <1>4 DEF FailLoad
  <2>2. TypeOK'
    BY <1>1, <1>2, <2>1, Closed DEF TypeOK
  <2>3. Agree' /\ NamesHaveDevices' /\ Leaves' /\ SaveFindsDevices'
    BY <1>1, <1>2, <2>1, Closed DEF Agree, NamesHaveDevices, Leaves, SaveFindsDevices
  <2>4. Nesting' /\ Owes'
    BY <1>1, <1>2, <1>4, <2>1, Closed DEF Nesting, Owes, TypeOK
  <2> QED
    BY <2>2, <2>3, <2>4
<1> QED
  BY <1>3, <1>4

-----------------------------------------------------------------------------
(* Saving, forms, devices and the end.                                     *)

\* A crash of a save means that a name had no device, and the maps differ only
\* after a reopening, or that a device in the GUI thread answered.
LEMMA SaveCrashes ==
    ASSUME TypeOK, NamesHaveDevices, phase = "running", NEW i \in 1..Len(SetToSeq(paths)),
           SetToSeq(paths)[i] \notin devices
    PROVE  reopened
<1>1. paths \subseteq Devices
  BY DEF TypeOK
<1>2. IsFiniteSet(paths)
  BY <1>1, FS_Subset
<1>3. SetToSeq(paths) \in Seq(paths)
  BY <1>2, SetToSeqType
<1>4. SetToSeq(paths)[i] \in paths
  BY <1>3, LenProperties
<1> QED
  BY <1>4 DEF NamesHaveDevices

\* A save, in which a device in the GUI thread may close the project.
LEMMA SaveExperimentKeeps ==
    ASSUME IInv, SaveExperiment
    PROVE  IInv'
<1> USE DEF IInv
<1>1. /\ phase = "running" /\ fault = "none" /\ UNCHANGED load
  BY DEF SaveExperiment, UserInput, EventLoop
<1>2. PICK path \in Files \cup {None} : SaveTo(path)
  BY DEF SaveExperiment
<1> DEFINE names == SetToSeq(paths)
           found == {i \in 1..Len(names) : names[i] \in devices}
           calls(k) == IF k = 0 THEN 1..Len(names) ELSE 1..k
           lost(k) == calls(k) \ found # {} \/ (k > 0 /\ k < Len(names) /\ ~isloading)
<1>3. PICK k \in 0..Cardinality(paths) :
        /\ k > 0 => Direct # {}
        /\ disk' = IF path = None THEN disk ELSE [disk EXCEPT ![path] = forms \cup paths]
        /\ fault' = IF lost(k) THEN "null device" ELSE fault
        /\ IF k > 0 /\ ~lost(k) THEN Closes
           ELSE /\ missing' = IF path \in Files \cap {savePath} THEN {} ELSE missing
                /\ UNCHANGED <<timers, savePath, forms, registry, mixed, owed,
                               late, reopened>>
        /\ UNCHANGED queue
  BY <1>2 DEF SaveTo
<1> HIDE DEF names, found, calls, lost
<1>4. disk' \in [Files -> SUBSET Elements]
  BY <1>3 DEF TypeOK
<1>5. queue' \in Seq(Threaded) /\ Len(queue') <= MaxQueue
  BY <1>3 DEF TypeOK
<1>6. CASE k > 0 /\ ~lost(k)
  <2>1. CloseProject /\ owed' = isloading /\ fault' = "none"
    BY <1>1, <1>3, <1>6 DEF Closes
  <2> QED
    BY <1>1, <1>4, <1>5, <2>1, CloseProjectKeeps
<1>7. CASE k = 0 \/ lost(k)
  <2>0. ~(k > 0 /\ ~lost(k))
    BY <1>7
  <2>1. /\ missing' \in {{}, missing}
        /\ UNCHANGED <<timers, savePath, forms, registry, mixed, owed, late, reopened>>
        /\ UNCHANGED load
        /\ fault' \in {"none", "null device"}
    <3>1. /\ missing' = IF path \in Files \cap {savePath} THEN {} ELSE missing
          /\ UNCHANGED <<timers, savePath, forms, registry, mixed, owed, late, reopened>>
      BY <1>3, <2>0
    <3>2. fault' \in {"none", "null device"}
      BY <1>1, <1>3
    <3> QED
      BY <1>1, <3>1, <3>2
  <2>2. TypeOK'
    BY <1>4, <1>5, <2>1 DEF TypeOK, load, registry
  <2>3. Agree' /\ NamesHaveDevices' /\ Leaves' /\ Nesting' /\ Owes'
    BY <2>1 DEF Agree, NamesHaveDevices, Leaves, Nesting, Owes, load, registry
  <2>4. fault' = "null device" => reopened \/ Direct # {}
    <3>1. CASE k = 0
      <4>1. ASSUME NEW i \in 1..Len(names), i \notin found
            PROVE  reopened
        BY <1>1, <4>1, SaveCrashes DEF names, found
      <4>0. ~(k > 0)
        BY <3>1
      <4>2. lost(k) => calls(k) \ found # {}
        BY <4>0 DEF lost
      <4>3. calls(k) = 1..Len(names)
        BY <3>1 DEF calls
      <4>4. lost(k) => reopened
        BY <4>1, <4>2, <4>3
      <4> QED
        BY <1>1, <1>3, <4>4
    <3>2. CASE k > 0
      BY <1>3, <3>2
    <3>3. k = 0 \/ k > 0
      <4>1. paths \subseteq Devices
        BY DEF TypeOK
      <4>2. Cardinality(paths) \in Nat
        BY <4>1, FS_Subset, FS_CardinalityType
      <4> QED
        BY <4>2
    <3> QED
      BY <3>1, <3>2, <3>3
  <2>5. SaveFindsDevices'
    BY <2>1, <2>4 DEF SaveFindsDevices, Direct, registry
  <2> QED
    BY <2>2, <2>3, <2>5
<1> QED
  BY <1>6, <1>7

\* The user closes a form.
LEMMA CloseFormKeeps ==
    ASSUME IInv, NEW f \in Forms, CloseForm(f)
    PROVE  IInv'
<1> USE DEF IInv, CloseForm, load, registry
<1>1. TypeOK'
  BY DEF TypeOK
<1>2. Agree' /\ NamesHaveDevices' /\ Leaves' /\ SaveFindsDevices' /\ Nesting' /\ Owes'
  BY DEF Agree, NamesHaveDevices, Leaves, SaveFindsDevices, Direct, Nesting, Owes
<1> QED
  BY <1>1, <1>2

\* The user removes a device.
LEMMA RemoveDeviceKeeps ==
    ASSUME IInv, NEW d \in Devices, RemoveDevice(d)
    PROVE  IInv'
<1> USE DEF IInv
<1>1. /\ devices' = devices \ {d} /\ paths' = paths \ {d}
      /\ connected' = connected \ {d} /\ active' = active \ {d}
  BY ClosedDevice DEF RemoveDevice
<1>2. /\ phase = "running" /\ fault = "none" /\ missing' = missing \cup {d}
      /\ UNCHANGED <<load, timers, queue, savePath, disk, forms, fault, mixed,
                     owed, late, reopened>>
  BY DEF RemoveDevice, UserInput, EventLoop
<1>3. TypeOK'
  BY <1>1, <1>2 DEF TypeOK, load
<1>4. Agree' /\ NamesHaveDevices' /\ Leaves' /\ SaveFindsDevices' /\ Nesting' /\ Owes'
  BY <1>1, <1>2 DEF Agree, NamesHaveDevices, Leaves, SaveFindsDevices, Nesting, Owes, load
<1> QED
  BY <1>3, <1>4

\* Nobody works after RemoveDevices; the maps differ until the process ends or
\* the project is closed.
LEMMA QuitKeeps ==
    ASSUME IInv, Quit
    PROVE  IInv'
<1> USE DEF IInv
<1>1. devices' = {} /\ paths' = paths /\ connected' = {} /\ active' = {}
  BY RemovedDevices DEF Quit
<1>2. /\ fault = "none" /\ savePath' = None /\ reopened' = (phase' # "exited")
      /\ phase' = CASE phase \in {"before", "arguments", "after"} -> phase
                    [] loads # <<>> -> "leaving"
                    [] OTHER -> "exited"
      /\ UNCHANGED <<arguments, loads, pumping, isloading, timers, queue, disk,
                     forms, fault, mixed, missing, owed, late>>
  BY DEF Quit, EventLoop
<1>3. /\ phase' \in {"before", "arguments", "after", "leaving", "exited"}
      /\ phase' = "exited" => loads = <<>>
  BY <1>2 DEF EventLoop, TypeOK, Quit
<1>4. TypeOK'
  BY <1>1, <1>2, <1>3 DEF TypeOK
<1>5. Agree' /\ NamesHaveDevices' /\ Leaves' /\ SaveFindsDevices' /\ Nesting' /\ Owes'
  BY <1>1, <1>2, <1>3 DEF Agree, NamesHaveDevices, Leaves, SaveFindsDevices, Nesting, Owes
<1> QED
  BY <1>4, <1>5

-----------------------------------------------------------------------------
(* The theorems.                                                           *)

\* The program starts without a project.
LEMMA Initially ==
    ASSUME Init
    PROVE  IInv
<1> USE DEF Init, IInv
<1>1. TypeOK
  <2>1. /\ arguments \in Seq(Files) /\ loads \in Seq([path : Files, rest : Seq(Elements)])
        /\ queue \in Seq(Threaded) /\ Len(queue) = 0
    BY EmptySeq
  <2>2. disk \in [Files -> SUBSET Elements]
    OBVIOUS
  <2>3. {isloading, pumping, mixed, owed, reopened} \subseteq BOOLEAN
    OBVIOUS
  <2> QED
    BY <2>1, <2>2, <2>3 DEF TypeOK
<1>2. Agree /\ NamesHaveDevices /\ Leaves /\ SaveFindsDevices /\ Nesting /\ Owes
  BY DEF Agree, NamesHaveDevices, Leaves, SaveFindsDevices, Nesting, Owes
<1> QED
  BY <1>1, <1>2

\* A step that changes nothing.
LEMMA UnchangedKeeps ==
    ASSUME IInv, UNCHANGED vars
    PROVE  IInv'
  BY DEF IInv, vars, load, registry, history, TypeOK, Agree, NamesHaveDevices,
         Leaves, SaveFindsDevices, Direct, Nesting, Owes

\* Every step keeps the invariant.
LEMMA Steps ==
    ASSUME IInv, [Next]_vars
    PROVE  IInv'
<1>1. CASE CloseStep
  BY <1>1, UserClosesKeeps, TimerFiresKeeps DEF CloseStep
<1>2. CASE MessageStep
  BY <1>2, DeliverKeeps, DevicePostsKeeps, DeviceClosesKeeps DEF MessageStep
<1>3. CASE LoadStep
  BY <1>3, LoadExperimentKeeps, LoadArgumentKeeps, StartupKeeps, LoadFormKeeps,
     SkipDeviceKeeps, LoadDeviceKeeps, FailLoadKeeps, FinishLoadKeeps DEF LoadStep
<1>4. CASE UserStep
  BY <1>4, SaveExperimentKeeps, QuitKeeps, CloseFormKeeps, RemoveDeviceKeeps DEF UserStep
<1>5. CASE Ended \/ UNCHANGED vars
  BY <1>5, UnchangedKeeps DEF Ended
<1> QED
  BY <1>1, <1>2, <1>3, <1>4, <1>5 DEF Next

\* The invariant holds in every state of every behaviour.
THEOREM Invariant == Spec => []IInv
<1>1. Init => IInv
  BY Initially
<1>2. IInv /\ [Next]_vars => IInv'
  BY Steps
<1> QED
  BY <1>1, <1>2, PTL DEF Spec

\* The state has its type, whatever the nesting of loads and the messages.
THEOREM TypeInvariant == Spec => []TypeOK
<1>1. IInv => TypeOK
  BY DEF IInv
<1> QED
  BY <1>1, Invariant, PTL

\* DeviceRegistry's two maps agree until the main window is closed.
THEOREM NamesHaveDevicesInvariant == Spec => []NamesHaveDevices
<1>1. IInv => NamesHaveDevices
  BY DEF IInv
<1> QED
  BY <1>1, Invariant, PTL

\* A save finds the device of every name, but for the two cases stated.
THEOREM SaveFindsDevicesInvariant == Spec => []SaveFindsDevices
<1>1. IInv => SaveFindsDevices
  BY DEF IInv
<1> QED
  BY <1>1, Invariant, PTL

\* A device works and is heard only while the project knows it.
THEOREM NoDeviceOutlivesProjectInvariant == Spec => []NoDeviceOutlivesProject
<1>1. IInv => NoDeviceOutlivesProject
  BY DEF IInv, Agree, Leaves, NoDeviceOutlivesProject
<1> QED
  BY <1>1, Invariant, PTL

\* No timer closes a project that was loaded well, unless it was asked to.
THEOREM LoadedProjectStaysInvariant == Spec => []LoadedProjectStays
<1>1. IInv => LoadedProjectStays
  BY DEF IInv, Owes, LoadedProjectStays
<1> QED
  BY <1>1, Invariant, PTL

-----------------------------------------------------------------------------
(***************************************************************************)
(* What is saved under SavePath replaces a file that the project holds.    *)
(* The proof rests on the invariant above, and on the order in which a     *)
(* load reads: forms, after which the event loop runs and may save or      *)
(* close anything, and then devices, with no event loop in between.        *)
(***************************************************************************)
Rest == Head(loads).rest

\* No form is read after a device.
Orderly(r) == \A i, j \in DOMAIN r : i < j /\ r[i] \in Devices => r[j] \in Devices
OnlyDevices(r) == \A i \in DOMAIN r : r[i] \in Devices
Covers(r, S) == \A e \in S : \E i \in DOMAIN r : r[i] = e

\* What is in the project, or was left out or closed.
Known == missing \cup forms \cup devices

\* A load has read, or will read, all of its file; the event loop runs only
\* while there is no device.
Progress ==
    loads # <<>> /\ ~mixed /\ fault = "none" =>
        /\ paths = devices
        /\ pumping => devices = {}
        /\ Orderly(Rest)
        /\ devices = {} \/ OnlyDevices(Rest)
        /\ Covers(Rest, disk[Head(loads).path] \ Known)

\* What the project's file holds is known.
Named ==
    loads = <<>> /\ savePath # None /\ ~mixed /\ fault = "none" =>
        paths = devices /\ disk[savePath] \subseteq Known

PInv == IInv /\ Progress /\ Named

-----------------------------------------------------------------------------
(* Sequences.                                                              *)

\* The sequence of a finite set holds all of its members.
LEMMA SetToSeqCovers ==
    ASSUME NEW S, IsFiniteSet(S)
    PROVE  Covers(SetToSeq(S), S)
<1> DEFINE n == Cardinality(S)
<1>1. n \in Nat /\ \E f : f \in Bijection(1..n, S)
  BY FS_CardinalityType DEF ExistsBijection
<1>2. PICK f : f \in Bijection(1..n, S)
  BY <1>1
<1>3. f \in [1..n -> S] /\ IsInjective(f)
  BY <1>2 DEF Bijection, Injection, IsInjective
<1>4. SetToSeq(S) \in [1..n -> S] /\ IsInjective(SetToSeq(S))
  BY <1>3 DEF SetToSeq
<1>5. SetToSeq(S) \in Injection(1..n, S)
  BY <1>4 DEF Injection, IsInjective
<1>6. Cardinality(1..n) = Cardinality(S)
  BY <1>1, FS_Interval
<1> HIDE DEF n
<1>7. SetToSeq(S) \in Surjection(1..n, S)
  BY <1>5, <1>6, FS_Injection
<1> QED
  BY <1>4, <1>7 DEF Covers, Surjection

\* Forms come first, and nothing of the file is left out.
LEMMA ContentsCover ==
    ASSUME TypeOK, NEW path \in Files
    PROVE  Orderly(Contents(path)) /\ Covers(Contents(path), disk[path])
<1> DEFINE F == SetToSeq(disk[path] \cap Forms)
           D == SetToSeq(disk[path] \cap Devices)
<1>1. IsFiniteSet(disk[path] \cap Forms) /\ IsFiniteSet(disk[path] \cap Devices)
  BY FS_Intersection
<1>2. F \in Seq(disk[path] \cap Forms) /\ D \in Seq(disk[path] \cap Devices)
  BY <1>1, SetToSeqType
<1>3. Covers(F, disk[path] \cap Forms) /\ Covers(D, disk[path] \cap Devices)
  BY <1>1, SetToSeqCovers
<1>4. disk[path] \subseteq Elements
  BY DEF TypeOK
<1>5. Contents(path) = F \o D
  BY DEF Contents
<1> HIDE DEF F, D
<1>6. F \in Seq(Elements) /\ D \in Seq(Elements)
  BY <1>2
<1>7. /\ F \o D \in Seq(Elements)
      /\ Len(F \o D) = Len(F) + Len(D) /\ Len(F) \in Nat /\ Len(D) \in Nat
      /\ \A i \in 1..Len(F) : (F \o D)[i] = F[i]
      /\ \A i \in 1..Len(D) : (F \o D)[i + Len(F)] = D[i]
  BY <1>6
<1>8. /\ DOMAIN F = 1..Len(F) /\ DOMAIN D = 1..Len(D)
      /\ DOMAIN (F \o D) = 1..Len(F) + Len(D)
  BY <1>6, <1>7
<1>9. /\ \A i \in 1..Len(F) : F[i] \in Forms
      /\ \A i \in 1..Len(D) : D[i] \in Devices
  BY <1>2
<1>10. ASSUME NEW i \in DOMAIN (F \o D), NEW j \in DOMAIN (F \o D), i < j,
              (F \o D)[i] \in Devices
       PROVE  (F \o D)[j] \in Devices
  <2>1. i \notin 1..Len(F)
    BY <1>7, <1>9, <1>10
  <2>2. j - Len(F) \in 1..Len(D) /\ j = (j - Len(F)) + Len(F)
    BY <1>7, <1>8, <1>10, <2>1
  <2> QED
    BY <1>7, <1>9, <2>2
<1>11. ASSUME NEW e \in disk[path]
       PROVE  \E i \in DOMAIN (F \o D) : (F \o D)[i] = e
  <2>1. CASE e \in Forms
    <3>1. PICK i \in 1..Len(F) : F[i] = e
      BY <1>3, <1>8, <2>1 DEF Covers
    <3> QED
      BY <1>7, <1>8, <3>1
  <2>2. CASE e \in Devices
    <3>1. PICK i \in 1..Len(D) : D[i] = e
      BY <1>3, <1>8, <2>2 DEF Covers
    <3>2. i + Len(F) \in DOMAIN (F \o D) /\ (F \o D)[i + Len(F)] = e
      BY <1>7, <1>8, <3>1
    <3> QED
      BY <3>2
  <2> QED
    BY <1>4, <2>1, <2>2
<1> QED
  BY <1>5, <1>10, <1>11 DEF Orderly, Covers

\* What holds of a sequence when its head is taken off.
LEMMA TailKeeps ==
    ASSUME NEW r \in Seq(Elements), r # <<>>, Orderly(r)
    PROVE  /\ Orderly(Tail(r))
           /\ Head(r) \in Devices => OnlyDevices(Tail(r))
           /\ OnlyDevices(r) => Head(r) \in Devices
           /\ \A S : Covers(r, S) => Covers(Tail(r), S \ {Head(r)})
<1>1. /\ Tail(r) \in Seq(Elements) /\ Len(r) \in Nat \ {0} /\ Len(Tail(r)) = Len(r) - 1
      /\ Head(r) = r[1]
      /\ \A i \in 1..Len(r) - 1 : Tail(r)[i] = r[i + 1]
  OBVIOUS
<1>2. DOMAIN r = 1..Len(r) /\ DOMAIN Tail(r) = 1..Len(r) - 1
  BY <1>1
<1> DEFINE t == Tail(r)
<1>3. \A i \in 1..Len(r) - 1 : t[i] = r[i + 1] /\ i + 1 \in 1..Len(r)
  BY <1>1
<1>4. DOMAIN t = 1..Len(r) - 1
  BY <1>2
<1> HIDE DEF t
<1>5. ASSUME NEW i \in DOMAIN t, NEW j \in DOMAIN t, i < j, t[i] \in Devices
      PROVE  t[j] \in Devices
  <2>1. i + 1 \in DOMAIN r /\ j + 1 \in DOMAIN r /\ i + 1 < j + 1
    BY <1>1, <1>2, <1>4, <1>5
  <2>2. t[i] = r[i + 1] /\ t[j] = r[j + 1]
    BY <1>3, <1>4
  <2> QED
    BY <1>5, <2>1, <2>2 DEF Orderly
<1>6. ASSUME Head(r) \in Devices, NEW i \in DOMAIN t
      PROVE  t[i] \in Devices
  <2>1. 1 \in DOMAIN r /\ i + 1 \in DOMAIN r /\ 1 < i + 1
    BY <1>1, <1>2, <1>4
  <2>2. t[i] = r[i + 1]
    BY <1>3, <1>4
  <2> QED
    BY <1>1, <1>6, <2>1, <2>2 DEF Orderly
<1>7. OnlyDevices(r) => Head(r) \in Devices
  BY <1>1, <1>2 DEF OnlyDevices
<1>8. ASSUME NEW S, Covers(r, S), NEW e \in S \ {Head(r)}
      PROVE  \E i \in DOMAIN t : t[i] = e
  <2>1. PICK i \in 1..Len(r) : r[i] = e
    BY <1>2, <1>8 DEF Covers
  <2>2. i # 1
    BY <1>1, <1>8, <2>1
  <2>3. i - 1 \in 1..Len(r) - 1 /\ (i - 1) + 1 = i
    BY <1>1, <2>1, <2>2
  <2>4. t[i - 1] = e
    BY <1>3, <2>1, <2>3
  <2> QED
    BY <1>4, <2>3, <2>4
<1> QED
  BY <1>5, <1>6, <1>7, <1>8 DEF Orderly, OnlyDevices, Covers, t

-----------------------------------------------------------------------------
(* Closing, and the messages that ask for it.                              *)

\* Nothing that the invariant speaks of changes.
LEMMA NothingHappens ==
    ASSUME Progress, Named,
           UNCHANGED <<loads, pumping, savePath, disk, forms, devices, paths, fault,
                       mixed, missing>>
    PROVE  Progress' /\ Named'
  BY DEF Progress, Named, Known, Rest

\* A project that is closed has no path; a load goes on only if it is mixed.
LEMMA ClosingProgress ==
    ASSUME IInv, CloseEverything, ~isloading, loads' = loads
    PROVE  Progress' /\ Named'
<1>1. savePath' = None /\ mixed' = (mixed /\ loads # <<>>)
  BY Closed DEF IInv
<1>2. loads # <<>> => mixed
  BY DEF IInv, Nesting
<1>3. Progress'
  BY <1>1, <1>2 DEF Progress
<1>4. Named'
  BY <1>1 DEF Named
<1> QED
  BY <1>3, <1>4

\* A request is carried out or put off.
LEMMA CloseProjectProgress ==
    ASSUME PInv, CloseProject, UNCHANGED <<loads, pumping, disk, fault>>
    PROVE  Progress' /\ Named'
<1>1. CASE isloading
  <2>1. UNCHANGED <<savePath, forms, devices, paths, mixed, missing>>
    BY <1>1 DEF CloseProject, registry
  <2> QED
    BY <2>1, NothingHappens DEF PInv
<1>2. CASE ~isloading
  BY <1>2, ClosingProgress DEF CloseProject, PInv
<1> QED
  BY <1>1, <1>2

\* The menu and the timer.
LEMMA CloseStepProgress ==
    ASSUME PInv, CloseStep
    PROVE  Progress' /\ Named'
<1>1. CASE UserCloses
  BY <1>1, CloseProjectProgress DEF UserCloses, load
<1>2. CASE TimerFires /\ isloading
  <2>1. UNCHANGED <<loads, pumping, savePath, disk, forms, devices, paths, fault,
                    mixed, missing>>
    BY <1>2 DEF TimerFires, load, registry
  <2> QED
    BY <2>1, NothingHappens DEF PInv
<1>3. CASE TimerFires /\ ~isloading
  <2>1. CloseEverything /\ loads' = loads
    BY <1>3 DEF TimerFires, load
  <2> QED
    BY <1>3, <2>1, ClosingProgress DEF PInv
<1> QED
  BY <1>1, <1>2, <1>3 DEF CloseStep

\* The messages of devices.
LEMMA MessageStepProgress ==
    ASSUME PInv, MessageStep
    PROVE  Progress' /\ Named'
<1>1. CASE Deliver
  BY <1>1, CloseProjectProgress DEF Deliver, Closes, load
<1>2. ASSUME NEW d \in Devices, DevicePosts(d)
      PROVE  Progress' /\ Named'
  <2>1. UNCHANGED <<loads, pumping, savePath, disk, forms, devices, paths, fault,
                    mixed, missing>>
    BY <1>2 DEF DevicePosts, load, registry, history
  <2> QED
    BY <2>1, NothingHappens DEF PInv
<1>3. ASSUME NEW d \in Devices, DeviceCloses(d)
      PROVE  Progress' /\ Named'
  BY <1>3, CloseProjectProgress DEF DeviceCloses, Closes, load
<1> QED
  BY <1>1, <1>2, <1>3 DEF MessageStep

-----------------------------------------------------------------------------
(* Loading.                                                                *)

\* A load that is the only one has all of its file before it.
LEMMA StartLoadProgress ==
    ASSUME PInv, NEW path \in Files, StartLoad(path), UNCHANGED <<disk, fault>>
    PROVE  Progress' /\ Named'
<1>1. /\ loads' = <<[path |-> path, rest |-> Contents(path)]>> \o loads
      /\ pumping' = FALSE
  BY DEF StartLoad
<1>2. loads' # <<>> /\ Head(loads') = [path |-> path, rest |-> Contents(path)]
  <2>1. /\ loads \in Seq(Load) /\ Contents(path) \in Seq(Elements)
        /\ [path |-> path, rest |-> Contents(path)] \in Load
    BY ContentsType DEF PInv, IInv, TypeOK
  <2> HIDE DEF Load
  <2> QED
    BY <1>1, <2>1
<1>3. Named'
  BY <1>2 DEF Named
<1>4. CASE mixed'
  BY <1>3, <1>4 DEF Progress
<1>5. CASE ~mixed'
  <2>1. ~isloading
    BY <1>5 DEF StartLoad
  <2>2. CloseEverything
    BY <2>1 DEF StartLoad
  <2>3. devices' = {} /\ paths' = {} /\ forms' = {} /\ missing' = {}
    BY <2>2, Closed DEF PInv, IInv
  <2>4. Known' = {}
    BY <2>3 DEF Known
  <2>5. Rest' = Contents(path) /\ Head(loads').path = path
    BY <1>2 DEF Rest
  <2>6. Orderly(Contents(path)) /\ Covers(Contents(path), disk[path])
    BY ContentsCover DEF PInv, IInv
  <2>7. disk[path] \ {} = disk[path]
    OBVIOUS
  <2> QED
    BY <1>1, <1>3, <2>3, <2>4, <2>5, <2>6, <2>7 DEF Progress
<1> QED
  BY <1>3, <1>4, <1>5

\* What a load on top has still to read after it has read one element.
LEMMA ReadsOn ==
    ASSUME TypeOK, NEW S, Reading(S), Continue
    PROVE  /\ Rest \in Seq(Elements) /\ Rest # <<>> /\ Element = Head(Rest)
           /\ Element \in S
           /\ Rest' = Tail(Rest) /\ Head(loads').path = Head(loads).path
           /\ loads # <<>> /\ loads' # <<>>
<1>1. /\ loads # <<>> /\ Rest # <<>> /\ Element = Head(Rest) /\ Element \in S
  BY DEF Reading, Element, Rest
<1>2. loads \in Seq(Load) /\ Head(loads) \in Load
  BY <1>1, HeadTailProperties DEF TypeOK
<1>3. Rest \in Seq(Elements)
  BY <1>2 DEF Rest
<1> DEFINE top == [Head(loads) EXCEPT !.rest = Tail(Rest)]
<1>4. top.rest = Tail(Rest) /\ top.path = Head(loads).path /\ top \in Load
  <2>1. Tail(Rest) \in Seq(Elements)
    BY <1>1, <1>3
  <2> HIDE DEF Elements
  <2> QED
    BY <1>2, <2>1
<1>5. loads' = <<top>> \o Tail(loads)
  BY DEF Continue, Rest
<1> HIDE DEF top, Load
<1>6. Head(loads') = top /\ loads' # <<>>
  BY <1>1, <1>2, <1>4, <1>5
<1>7. Rest' = Head(loads').rest
  BY DEF Rest
<1> QED
  BY <1>1, <1>3, <1>4, <1>6, <1>7

\* The element is read: it is in the project or reported as missing.
LEMMA ReadingProgress ==
    ASSUME PInv, NEW S, Reading(S), Continue, UNCHANGED <<mixed, disk>>,
           paths = devices => paths' = devices',
           Known' = Known \cup {Element},
           pumping' => devices' = devices /\ Element \notin Devices,
           devices' = devices \/ Element \in Devices
    PROVE  Progress' /\ Named'
<1>1. /\ Rest \in Seq(Elements) /\ Rest # <<>> /\ Element = Head(Rest)
      /\ Rest' = Tail(Rest) /\ Head(loads').path = Head(loads).path
      /\ loads # <<>> /\ loads' # <<>> /\ fault = "none"
  BY ReadsOn DEF PInv, IInv, Reading
<1>2. Named'
  BY <1>1 DEF Named
<1>3. CASE mixed
  BY <1>2, <1>3 DEF Progress
<1>4. CASE ~mixed
  <2> DEFINE file == disk[Head(loads).path]
  <2>1. /\ paths = devices /\ Orderly(Rest) /\ (devices = {} \/ OnlyDevices(Rest))
        /\ Covers(Rest, file \ Known)
    BY <1>1, <1>4 DEF PInv, Progress
  <2>2. /\ Orderly(Rest')
        /\ Element \in Devices => OnlyDevices(Rest')
        /\ OnlyDevices(Rest) => Element \in Devices
        /\ Covers(Rest', (file \ Known) \ {Element})
    BY <1>1, <2>1, TailKeeps
  <2>3. (file \ Known) \ {Element} = file \ Known'
    OBVIOUS
  <2>4. disk'[Head(loads').path] = file
    BY <1>1
  <2>5. Element \notin Devices => devices' = {}
    BY <2>1, <2>2
  <2>6. (pumping' => devices' = {}) /\ (devices' = {} \/ OnlyDevices(Rest'))
    BY <2>2, <2>5
  <2>7. Covers(Rest', disk'[Head(loads').path] \ Known')
    BY <2>2, <2>3, <2>4
  <2>8. paths' = devices'
    BY <2>1
  <2> QED
    BY <1>2, <2>2, <2>6, <2>7, <2>8 DEF Progress
<1> QED
  BY <1>3, <1>4

\* A form is loaded or missing; no device is there yet.
LEMMA LoadFormProgress ==
    ASSUME PInv, LoadForm
    PROVE  Progress' /\ Named'
<1>1. Reading(Forms) /\ Continue /\ UNCHANGED <<mixed, disk, devices, paths>>
  BY DEF LoadForm, registry
<1>2. Element \notin Devices
  BY <1>1 DEF Reading, Element
<1>3. Known' = Known \cup {Element}
  BY <1>1 DEF LoadForm, Known
<1> QED
  BY <1>1, <1>2, <1>3, ReadingProgress

\* A description that is missing is reported.
LEMMA SkipDeviceProgress ==
    ASSUME PInv, SkipDevice
    PROVE  Progress' /\ Named'
<1>1. /\ Reading(Devices) /\ Continue /\ UNCHANGED <<mixed, disk, forms, devices, paths>>
      /\ missing' = missing \cup {Element} /\ pumping' = FALSE
  BY DEF SkipDevice, registry
<1>2. Known' = Known \cup {Element}
  BY <1>1 DEF Known
<1> QED
  BY <1>1, <1>2, ReadingProgress

\* A device is loaded; the event loop does not run after it.
LEMMA LoadDeviceProgress ==
    ASSUME PInv, LoadDevice
    PROVE  Progress' /\ Named'
<1>1. /\ Reading(Devices) /\ Continue /\ UNCHANGED <<mixed, disk, forms, missing>>
      /\ pumping' = FALSE
  BY DEF LoadDevice
<1>2. devices' = devices \cup {Element} /\ paths' = paths \cup {Element}
  BY AddedDevice DEF LoadDevice
<1>3. Known' = Known \cup {Element}
  BY <1>1, <1>2 DEF Known
<1>4. Element \in Devices
  BY <1>1 DEF Reading, Element
<1> QED
  BY <1>1, <1>2, <1>3, <1>4, ReadingProgress

\* All of the file has been read when a load comes to its end.
LEMMA FinishLoadProgress ==
    ASSUME PInv, FinishLoad
    PROVE  Progress' /\ Named'
<1>1. /\ loads # <<>> /\ fault = "none" /\ Rest = <<>> /\ loads' = Tail(loads)
      /\ savePath' = Head(loads).path
      /\ UNCHANGED <<disk, forms, devices, paths, mixed, missing>>
  BY DEF FinishLoad, EndOfLoad, Rest, registry
<1>2. CASE mixed
  BY <1>1, <1>2 DEF Progress, Named
<1>3. CASE ~mixed
  <2>1. Len(loads) = 1
    BY <1>1, <1>3 DEF PInv, IInv, Nesting
  <2>2. loads' = <<>>
    BY <1>1, <2>1, Ends DEF PInv, IInv
  <2>3. paths = devices /\ Covers(<<>>, disk[Head(loads).path] \ Known)
    BY <1>1, <1>3 DEF PInv, Progress
  <2>4. disk[Head(loads).path] \subseteq Known
    BY <2>3 DEF Covers
  <2>5. Known' = Known
    BY <1>1 DEF Known
  <2> QED
    BY <1>1, <2>2, <2>3, <2>4, <2>5 DEF Progress, Named
<1> QED
  BY <1>2, <1>3

\* A load that fails leaves the project without a path.
LEMMA FailLoadProgress ==
    ASSUME PInv, FailLoad
    PROVE  Progress' /\ Named'
<1>1. loads # <<>> /\ loads' = Tail(loads)
  BY DEF FailLoad
<1>2. CASE mixed
  <2>1. mixed'
    BY <1>1, <1>2, Closed DEF FailLoad, PInv, IInv
  <2> QED
    BY <2>1 DEF Progress, Named
<1>3. CASE ~mixed
  <2>1. Len(loads) = 1 /\ isloading /\ savePath = None
    BY <1>1, <1>3 DEF PInv, IInv, Nesting
  <2>2. loads' = <<>>
    BY <1>1, <2>1, Ends DEF PInv, IInv
  <2>3. savePath' = None
    BY <2>1 DEF FailLoad
  <2> QED
    BY <2>2, <2>3 DEF Progress, Named
<1> QED
  BY <1>2, <1>3

\* The steps of a load.
LEMMA LoadStepProgress ==
    ASSUME PInv, LoadStep
    PROVE  Progress' /\ Named'
<1>1. ASSUME NEW path \in Files, LoadExperiment(path)
      PROVE  Progress' /\ Named'
  BY <1>1, StartLoadProgress DEF LoadExperiment
<1>2. CASE LoadArgument
  <2>1. Head(arguments) \in Files
    BY <1>2 DEF LoadArgument, PInv, IInv, TypeOK
  <2> QED
    BY <1>2, <2>1, StartLoadProgress DEF LoadArgument
<1>3. CASE Startup
  <2>1. UNCHANGED <<loads, pumping, savePath, disk, forms, devices, paths, fault,
                    mixed, missing>>
    BY <1>3 DEF Startup, registry, history
  <2> QED
    BY <2>1, NothingHappens DEF PInv
<1> QED
  BY <1>1, <1>2, <1>3, LoadFormProgress, SkipDeviceProgress, LoadDeviceProgress,
     FailLoadProgress, FinishLoadProgress DEF LoadStep

-----------------------------------------------------------------------------
(* Saving, and what the user closes.                                       *)

\* A file that is saved holds what is in the project; only the file of the
\* project itself makes the elements that were missing forgotten.
LEMMA SaveExperimentProgress ==
    ASSUME PInv, SaveExperiment
    PROVE  Progress' /\ Named'
<1>1. EventLoop /\ UNCHANGED <<loads, pumping, isloading>>
  BY DEF SaveExperiment, UserInput, load
<1>2. PICK path \in Files \cup {None} : SaveTo(path)
  BY DEF SaveExperiment
<1> DEFINE names == SetToSeq(paths)
           found == {i \in 1..Len(names) : names[i] \in devices}
           calls(k) == IF k = 0 THEN 1..Len(names) ELSE 1..k
           lost(k) == calls(k) \ found # {} \/ (k > 0 /\ k < Len(names) /\ ~isloading)
<1>3. PICK k \in 0..Cardinality(paths) :
        /\ k > 0 => Direct # {}
        /\ disk' = IF path = None THEN disk ELSE [disk EXCEPT ![path] = forms \cup paths]
        /\ fault' = IF lost(k) THEN "null device" ELSE fault
        /\ IF k > 0 /\ ~lost(k) THEN Closes
           ELSE /\ missing' = IF path \in Files \cap {savePath} THEN {} ELSE missing
                /\ UNCHANGED <<timers, savePath, forms, registry, mixed, owed,
                               late, reopened>>
        /\ UNCHANGED queue
  BY <1>2 DEF SaveTo
<1> HIDE DEF names, found, calls, lost
<1>4. disk \in [Files -> SUBSET Elements]
  BY DEF PInv, IInv, TypeOK
<1>5. \A file \in Files : disk'[file] = disk[file] \/ disk'[file] = forms \cup paths
  BY <1>3, <1>4
<1>6. \A file \in Files : file # path => disk'[file] = disk[file]
  BY <1>3, <1>4
<1>7. path \in Files => disk'[path] = forms \cup paths
  BY <1>3, <1>4, path # None \/ path = None
<1>8. CASE k > 0 /\ ~lost(k) /\ ~isloading
  <2>1. CloseEverything
    BY <1>3, <1>8 DEF Closes, CloseProject
  <2> QED
    BY <1>1, <1>8, <2>1, ClosingProgress DEF PInv
<1>9. CASE k > 0 /\ ~lost(k) /\ isloading
  <2>1. loads # <<>> /\ pumping /\ mixed' = mixed
    BY <1>1, <1>3, <1>9 DEF EventLoop, PInv, IInv, TypeOK, Closes, CloseProject
  <2>2. devices # {}
    BY <1>3, <1>9 DEF Direct, PInv, IInv, Agree
  <2>3. fault = "none"
    BY <1>1 DEF EventLoop
  <2>4. mixed
    BY <2>1, <2>2, <2>3 DEF PInv, Progress
  <2> QED
    BY <2>1, <2>4 DEF Progress, Named
<1>10. CASE ~(k > 0 /\ ~lost(k))
  <2>1. /\ missing' = IF path \in Files \cap {savePath} THEN {} ELSE missing
        /\ UNCHANGED <<savePath, forms, devices, paths, mixed>>
    BY <1>3, <1>10 DEF registry
  <2>2. fault = "none"
    BY <1>1 DEF EventLoop
  <2>3. ASSUME loads # <<>>, ~mixed
        PROVE  Progress' /\ Named'
    <3>1. missing' = missing /\ Known' = Known /\ Rest' = Rest
      BY <1>1, <2>1, <2>3 DEF PInv, IInv, Nesting, Known, Rest
    <3>2. /\ paths = devices
          /\ pumping => devices = {}
          /\ Orderly(Rest) /\ (devices = {} \/ OnlyDevices(Rest))
          /\ Covers(Rest, disk[Head(loads).path] \ Known)
      BY <2>2, <2>3 DEF PInv, Progress
    <3>3. loads \in Seq(Load) /\ Head(loads) \in Load
      BY <2>3, HeadTailProperties DEF PInv, IInv, TypeOK
    <3>4. Head(loads).path \in Files
      BY <3>3
    <3>5. disk'[Head(loads).path] \ Known \subseteq disk[Head(loads).path] \ Known
      BY <1>5, <3>2, <3>4 DEF Known
    <3>6. Covers(Rest, disk'[Head(loads).path] \ Known)
      BY <3>2, <3>5 DEF Covers
    <3> QED
      BY <1>1, <2>1, <2>3, <3>1, <3>2, <3>6 DEF Progress, Named
  <2>4. ASSUME loads = <<>>, savePath # None, ~mixed
        PROVE  Progress' /\ Named'
    <3>1. paths = devices /\ disk[savePath] \subseteq Known
      BY <2>2, <2>4 DEF PInv, Named
    <3>2. savePath \in Files
      BY <2>4 DEF PInv, IInv, TypeOK
    <3>3. CASE path = savePath
      <4>1. disk'[savePath] \subseteq forms \cup devices
        BY <1>7, <3>1, <3>2, <3>3
      <4> QED
        BY <1>1, <2>1, <2>4, <3>1, <4>1 DEF Progress, Named, Known
    <3>4. CASE path # savePath
      <4>1. disk'[savePath] = disk[savePath] /\ missing' = missing
        BY <1>6, <2>1, <3>2, <3>4
      <4> QED
        BY <1>1, <2>1, <2>4, <3>1, <4>1 DEF Progress, Named, Known
    <3> QED
      BY <3>3, <3>4
  <2>5. CASE mixed \/ (loads = <<>> /\ savePath = None)
    BY <1>1, <2>1, <2>5 DEF Progress, Named
  <2> QED
    BY <2>3, <2>4, <2>5
<1> QED
  BY <1>8, <1>9, <1>10

\* What the user closes is known all the same.
LEMMA CloseFormProgress ==
    ASSUME PInv, NEW f \in Forms, CloseForm(f)
    PROVE  Progress' /\ Named'
<1>1. UNCHANGED <<loads, pumping, savePath, disk, devices, paths, fault, mixed>>
  BY DEF CloseForm, load, registry
<1>2. Known' = Known
  BY <1>1 DEF CloseForm, Known
<1> QED
  BY <1>1, <1>2 DEF PInv, Progress, Named, Rest

\* A device is removed; it goes from both maps.
LEMMA RemoveDeviceProgress ==
    ASSUME PInv, NEW d \in Devices, RemoveDevice(d)
    PROVE  Progress' /\ Named'
<1>1. /\ UNCHANGED <<loads, pumping, savePath, disk, forms, fault, mixed>>
      /\ d \in devices /\ missing' = missing \cup {d}
  BY DEF RemoveDevice, load
<1>2. devices' = devices \ {d} /\ paths' = paths \ {d}
  BY ClosedDevice DEF RemoveDevice
<1>3. Known' = Known
  BY <1>1, <1>2 DEF Known
<1> QED
  BY <1>1, <1>2, <1>3 DEF PInv, Progress, Named, Rest

\* The main window is closed; no load under way has a device by then, for the
\* paths would be kept.
LEMMA QuitProgress ==
    ASSUME PInv, Quit
    PROVE  Progress' /\ Named'
<1>1. /\ UNCHANGED <<loads, pumping, disk, forms, fault, mixed, missing>>
      /\ savePath' = None /\ EventLoop
  BY DEF Quit
<1>2. devices' = {} /\ paths' = paths
  BY RemovedDevices DEF Quit, PInv, IInv
<1>3. Named'
  BY <1>1 DEF Named
<1>4. ASSUME loads # <<>>, ~mixed
      PROVE  Progress'
  <2>1. pumping /\ fault = "none"
    BY <1>1, <1>4 DEF EventLoop
  <2>2. devices = {} /\ paths = {}
    BY <1>4, <2>1 DEF PInv, Progress
  <2> QED
    BY <1>1, <1>2, <1>4, <2>1, <2>2 DEF PInv, Progress, Known, Rest
<1>5. CASE loads = <<>> \/ mixed
  BY <1>1, <1>3, <1>5 DEF Progress
<1> QED
  BY <1>3, <1>4, <1>5

-----------------------------------------------------------------------------
(* The theorem.                                                            *)

\* Every step keeps the invariant.
LEMMA ProgressSteps ==
    ASSUME PInv, [Next]_vars
    PROVE  PInv'
<1>1. IInv'
  BY Steps DEF PInv
<1>2. CASE CloseStep
  BY <1>1, <1>2, CloseStepProgress DEF PInv
<1>3. CASE MessageStep
  BY <1>1, <1>3, MessageStepProgress DEF PInv
<1>4. CASE LoadStep
  BY <1>1, <1>4, LoadStepProgress DEF PInv
<1>5. CASE UserStep
  BY <1>1, <1>5, SaveExperimentProgress, QuitProgress, CloseFormProgress,
     RemoveDeviceProgress DEF PInv, UserStep
<1>6. CASE Ended \/ UNCHANGED vars
  <2>1. UNCHANGED <<loads, pumping, savePath, disk, forms, devices, paths, fault,
                    mixed, missing>>
    BY <1>6 DEF Ended, vars, load, registry, history
  <2> QED
    BY <1>1, <2>1, NothingHappens DEF PInv
<1> QED
  BY <1>2, <1>3, <1>4, <1>5, <1>6 DEF Next

\* What is saved under SavePath replaces a file whose content is in the
\* project, was closed by the user or was missing when it was read.
THEOREM SavePathNamesProjectInvariant == Spec => []SavePathNamesProject
<1>1. Init => PInv
  <2>1. Init => IInv
    BY Initially
  <2> QED
    BY <2>1 DEF Init, PInv, Progress, Named
<1>2. PInv /\ [Next]_vars => PInv'
  BY ProgressSteps
<1>3. PInv => SavePathNamesProject
  BY DEF PInv, Named, Known, SavePathNamesProject
<1> QED
  BY <1>1, <1>2, <1>3, PTL DEF Spec
=============================================================================
