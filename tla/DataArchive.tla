----------------------------- MODULE DataArchive -----------------------------
(***************************************************************************)
(* The archive of all channels (LabDataArchive.cpp): written, perhaps cut  *)
(* short on its way, and imported below a root of its own.                 *)
(*                                                                         *)
(* A channel's id is the sequence of the roots under which it was imported *)
(* and its first id.                                                       *)
(***************************************************************************)
EXTENDS Integers, Sequences, SequencesExt, Functions

CONSTANTS
    Channels,   \* the ids, in the order of the manager's map
    Roots,      \* "Export_<file>_<second>": imports within a second share one
    Values,     \* what channels hold
    Huge,       \* the values beyond 1 GiB
    Blank,      \* no value, in a container
    Names,      \* what the user calls channels
    None        \* no file

ArchiveAssumption ==
    /\ Huge \subseteq Values /\ Blank \in Values \ Huge
    /\ IsInjective(Channels) /\ Channels \in Seq(ToSet(Channels))
    /\ \A id \in ToSet(Channels) : id \in Seq(ToSet(id))

VARIABLES
    containers, \* id |-> value
    alias,      \* id |-> name, of those that have one
    archive,    \* the *.LAdat file: [channels, payloads], its descriptors and
                \* how many payloads it holds; -1 if the header is not whole
    ended,      \* an exception nobody catches ended the program
    \* history
    kept        \* the descriptors of all channels when the archive was written

archiveVars == <<containers, alias, archive, ended, kept>>

ChannelIds == ToSet(Channels)
Named(id) == IF id \in DOMAIN alias THEN alias[id] ELSE id
Descriptor(id) == [id |-> id, value |-> containers[id], name |-> Named(id)]
Descriptors == FoldLeft(LAMBDA found, id : IF id \in DOMAIN containers
                                           THEN Append(found, Descriptor(id)) ELSE found,
                        <<>>, Channels)

Init == /\ containers = <<>> /\ alias = <<>>
        /\ archive = None /\ ended = FALSE
        /\ kept = <<>>

-----------------------------------------------------------------------------
(* The manager.                                                            *)

\* What f has takes the place of what g has.
Over(f, g) == [id \in DOMAIN f \cup DOMAIN g |-> IF id \in DOMAIN f THEN f[id] ELSE g[id]]

Publish(id, v) == /\ containers' = Over([i \in {id} |-> v], containers)
                  /\ UNCHANGED <<alias, archive, ended, kept>>

SetAlias(id, name) == /\ id \in DOMAIN containers
                      /\ alias' = Over([i \in {id} |-> name], alias)
                      /\ UNCHANGED <<containers, archive, ended, kept>>

CloseProject == /\ containers' = <<>> /\ alias' = <<>>
                /\ UNCHANGED <<archive, ended, kept>>

\* The channels of a file are published below a root; the bound on their
\* depth: such ids are in Channels.
Fits(root, elements) == \A i \in DOMAIN elements : <<root>> \o elements[i].id \in ChannelIds
Below(root, elements, field) ==
    [id \in {<<root>> \o elements[i].id : i \in DOMAIN elements} |->
        (CHOOSE e \in ToSet(elements) : <<root>> \o e.id = id)[field]]

-----------------------------------------------------------------------------
(* The archive.                                                            *)

\* QSaveFile: the file is the new one or, after an error or a crash, the old.
Replaces(new) == archive' \in {archive, [channels |-> new, payloads |-> Len(new)]}

\* A container without a value throws before the file is opened.
ExportAll ==
    \/ /\ Blank \in Range(containers)
       /\ ended' = TRUE
       /\ UNCHANGED <<containers, alias, archive, kept>>
    \/ /\ Blank \notin Range(containers)
       /\ Replaces(Descriptors)
       /\ kept' = IF archive' = archive THEN kept ELSE Descriptors
       /\ UNCHANGED <<containers, alias, ended>>

\* A copy of the file that lacks its end takes its place.
CutShort == /\ archive # None
            /\ \E k \in -1..archive.payloads : archive' = [archive EXCEPT !.payloads = k]
            /\ UNCHANGED <<containers, alias, ended, kept>>

\* readStoredPayload succeeds
Readable(i) == i <= archive.payloads /\ archive.channels[i].value \notin Huge

\* A channel that cannot be read is skipped.
MutPublished ==
    LET good == SelectSeq([i \in DOMAIN archive.channels |-> i], Readable)
    IN  [i \in DOMAIN good |-> archive.channels[good[i]]]

\* The channels before the first that cannot be read
Published ==
    LET upTo == {k \in 0..Len(archive.channels) : \A i \in 1..k : Readable(i)}
    IN  SubSeq(archive.channels, 1, CHOOSE k \in upTo : \A n \in upTo : n <= k)

Import(root) ==
    /\ archive # None /\ archive.payloads >= 0
    /\ Fits(root, archive.channels)
    /\ containers' = Over(Below(root, Published, "value"), containers)
    /\ alias' = Over(Below(root, Published, "name"), alias)
    /\ UNCHANGED <<archive, ended, kept>>

Next == /\ ~ended
        /\ \/ \E id \in ChannelIds, v \in Values : Len(id) = 1 /\ Publish(id, v)
           \/ \E id \in ChannelIds, name \in Names : SetAlias(id, name)
           \/ CloseProject
           \/ ExportAll
           \/ CutShort
           \/ \E root \in Roots : Import(root)

Spec == Init /\ [][Next]_archiveVars

-----------------------------------------------------------------------------
(* Properties.                                                             *)

\* Only published channels have names; an archive holds no container without
\* a value, which ExportAll throws at.
TypeOK ==
    /\ DOMAIN alias \subseteq DOMAIN containers /\ DOMAIN containers \subseteq ChannelIds
    /\ Range(containers) \subseteq Values
    /\ archive # None => /\ archive.payloads \in -1..Len(archive.channels)
                         /\ \A i \in DOMAIN archive.channels : archive.channels[i].value # Blank

\* An import brings back the channels before the first that cannot be read,
\* with their values and names, below its root, and changes nothing else.
ImportIsAPrefix ==
    [][\A root \in Roots : Import(root) =>
        \E k \in 0..Len(kept) :
            LET new == {<<root>> \o kept[i].id : i \in 1..k}
            IN  /\ k = Len(kept) \/ k = archive.payloads \/ kept[k + 1].value \in Huge
                /\ \A i \in 1..k : LET id == <<root>> \o kept[i].id IN
                      /\ id \in DOMAIN containers' /\ containers'[id] = kept[i].value
                      /\ kept[i].value \notin Huge
                      /\ alias'[id] = kept[i].name
                /\ \A id \in ChannelIds \ new :
                      /\ id \in DOMAIN containers <=> id \in DOMAIN containers'
                      /\ id \in DOMAIN containers => containers'[id] = containers[id]
                      /\ id \in DOMAIN alias <=> id \in DOMAIN alias']_archiveVars
=============================================================================
