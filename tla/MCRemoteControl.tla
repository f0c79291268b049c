--------------------------- MODULE MCRemoteControl ---------------------------
(***************************************************************************)
(* Instances for TLC of the server with two clients, and of what the text  *)
(* and the numbers that come in make of parameters: each behaviour is one  *)
(* of those that part names.                                               *)
(***************************************************************************)
EXTENDS RemoteControl, TLC

CONSTANTS Parameters, Width, Signed, Int32, UInt32, Int64, UInt64, Mantissa,
          TextItems, MaxList, Trim

\* Integers of one, two and three bits for those of 8 (and 16), 32 and 64.
MCParameters == <<"p", "q">>
MCWidth == [t \in {"int8_t", "int32_t", "int64_t", "uint8_t", "uint32_t", "uint64_t"} |->
               CASE t \in {"int8_t", "uint8_t"} -> 1
                 [] t \in {"int32_t", "uint32_t"} -> 2
                 [] OTHER -> 3]
MCTrim == [w \in {" on "} |-> "on"]

VARIABLES part, typed, parameterFile, thrown, saved, asked

X == INSTANCE DataExchange WITH Ids <- Parameters, Items <- TextItems,
                                store <- typed, file <- parameterFile

ASSUME Assumptions == X!ExchangeAssumption

exchange == <<typed, parameterFile, thrown, saved, asked>>
mcVars == <<part, vars, exchange>>

MCInit == /\ part \in {"server", "exchange"}
          /\ Init
          /\ IF part = "exchange" THEN X!Init
             ELSE /\ typed = <<>> /\ saved = <<>> /\ asked = {}
                  /\ parameterFile = [entries |-> <<>>, ends |-> FALSE] /\ thrown = FALSE

MCServerStep == part = "server" /\ ServerStep /\ UNCHANGED <<part, exchange>>

MCNext == \/ MCServerStep
          \/ part = "server" /\ ClientStep /\ UNCHANGED <<part, exchange>>
          \/ part = "exchange" /\ X!Next /\ UNCHANGED <<part, vars>>

\* The fairness of RemoteControl!FairSpec
MCSpec == MCInit /\ [][MCNext]_mcVars /\ WF_mcVars(MCServerStep)

-----------------------------------------------------------------------------
(* The properties of DataExchange.                                         *)

\* A parameter file brings back what was saved, as far as it goes
\* (ExportInputs2Xml::Export2XML, ParameterLoader::Load).
FileRestores == X!FileRestores

\* Every value keeps the type of its parameter, and nothing changes on its way
\* from the editors, the explorer and the remote control, as far as text tells it
\* (InterfaceData::SetDataKeepType, QLineEditD, EditParameterValue).
EditsArrive == part = "exchange" => X!TypeOK /\ X!EditsArrive
=============================================================================
