--------------------------- MODULE ExternalIngest ---------------------------
(***************************************************************************)
(* What reaches the server from field devices, and what it shows of it:    *)
(* the external ingest service with the adapter of control board packets,  *)
(* and the state, counters and history that the mock LiDAR service keeps   *)
(* in memory.  A frame is sent on a line that may garble it before a       *)
(* bridge posts it.  Handlers are synchronous, so each is one step.        *)
(***************************************************************************)
EXTENDS ControlBoardPacket, FiniteSets, FiniteSetsExt, Functions

CONSTANTS Data,          \* the data of the frames that are sent, in any device's name
          Noise,         \* what the line does: [byte, mask, other, otherMask, length]
          Hours,         \* the hours of hourlyEvents
          MaxRecent,     \* MAX_RECENT_EVENTS, 50 in the code
          MaxHistory,    \* MAX_HISTORY, 30 in the code
          MaxReceived    \* bound

ASSUME IngestAssumption ==
    /\ Data \subseteq [1..6 -> Bytes]
    /\ {MaxRecent, MaxHistory, MaxReceived} \subseteq Nat \ {0} /\ IsFiniteSet(Hours)

VARIABLES line,           \* the frame that is sent and what comes out
          received,       \* how many events there have been
          recentEvents,   \* newest first
          wrongWayHistory,
          kpi             \* [todaysEvents, newEvents, wrongWayEvents, hourlyEvents]

ingestVars == <<line, received, recentEvents, wrongWayHistory, kpi>>

ZeroKpi == [todaysEvents |-> 0, newEvents |-> 0, wrongWayEvents |-> 0,
            hourlyEvents |-> [h \in Hours |-> 0]]

\* What is wrong with a byte.
Error(noise, i) ==
    IF i = noise.byte THEN noise.mask ELSE IF i = noise.other THEN noise.otherMask ELSE 0

\* One or two bytes of a frame are changed and its end may be missing.
Garbled(packet, noise) == [i \in 1..noise.length |-> Xor(packet[i], Error(noise, i))]

\* What a CRC of eight bits is for: one wrong byte, two wrong bits wherever they are, a burst
\* of up to eight bits that crosses from a byte into the next.
ASSUME NoiseAssumption ==
    \A noise \in Noise :
        /\ noise \in [byte : 1..PacketLength, mask : Bytes, other : 1..PacketLength,
                      otherMask : Bytes, length : 0..PacketLength]
        /\ \/ noise.otherMask = 0
           \/ {noise.mask, noise.otherMask} \subseteq Flips
           \/ /\ noise.other = noise.byte + 1
              /\ \E w \in Flips : noise.mask < w /\ noise.otherMask % w = 0

Lines ==
    {[sent |-> Framed(data), frame |-> Garbled(Framed(data), noise)] :
        data \in Data, noise \in Noise}

IngestInit ==
    /\ line \in Lines
    /\ received = 0
    /\ recentEvents = <<>> /\ wrongWayHistory = <<>>
    /\ kpi = ZeroKpi

(* --- the adapter ------------------------------------------------------------ *)

\* COMMAND_EVENT_MAP.
EventType(command) ==
    CASE command \in {"STAGE_1_ON", "STAGE_2_ON"} -> "CONTROL_STAGE"
      [] command \in {"STAGE_2_RETURN", "SYSTEM_RESET"} -> "SITUATION_CLEARED"
      [] OTHER -> "UNKNOWN"

\* The parsed command, or the one of the payload; without a packet its crcValid decides.
\* An eventType in the payload overrules both.
Adapted(payload, source) ==
    LET parsed == IF payload.hasPacket THEN ProtocolCommand(payload.packet) ELSE "UNKNOWN"
        command == IF parsed # "UNKNOWN" THEN parsed ELSE payload.command
    IN  [source |-> source,
         eventType |-> IF payload.eventType # "" THEN payload.eventType ELSE EventType(command),
         crcStatus |-> IF payload.hasPacket THEN CrcStatus(payload.packet) ELSE payload.crcStatus,
         packetValid |-> IF payload.hasPacket THEN IsValid(payload.packet)
                         ELSE payload.crcStatus = "VALID",
         packet |-> IF payload.hasPacket THEN payload.packet ELSE <<>>]

\* The summary of a LiDAR event has no CRC to judge.
LidarEvent(type) ==
    [source |-> "LIDAR_PC", eventType |-> type, crcStatus |-> "VALID", packetValid |-> TRUE,
     packet |-> <<>>]

(* --- rememberEvent, applyDashboardEffects ------------------------------------ *)

\* unshift into a list that is cut at its limit.
Unshifted(list, item, limit) ==
    LET longer == <<item>> \o list IN SubSeq(longer, 1, Min({limit, Len(longer)}))

Remembers(event) ==
    /\ received < MaxReceived
    /\ received' = received + 1
    /\ recentEvents' = Unshifted(recentEvents, event, MaxRecent)
    /\ UNCHANGED line

\* applyDashboardEventEffects and addWrongWayHistory.
Counts(event) ==
    /\ wrongWayHistory' = Unshifted(wrongWayHistory, event, MaxHistory)
    /\ \E hour \in Hours :
          kpi' = [kpi EXCEPT !.todaysEvents = @ + 1, !.newEvents = @ + 1,
                             !.wrongWayEvents = IF event.eventType = "WRONG_WAY" THEN @ + 1 ELSE @,
                             !.hourlyEvents[hour] = @ + 1]

Ignored(event) ==
    \/ event.crcStatus = "INVALID" \/ ~event.packetValid
    \/ event.eventType = "SITUATION_CLEARED"

Applies(event) ==
    /\ Remembers(event)
    /\ IF Ignored(event) THEN UNCHANGED <<wrongWayHistory, kpi>> ELSE Counts(event)

(* --- entry points ------------------------------------------------------------- *)

Payloads ==
    [hasPacket : {TRUE}, packet : {<<>>, line.frame}, command : Commands \cup {"UNKNOWN"},
     crcStatus : {"VALID"}, eventType : {"", "WRONG_WAY"}]
    \cup
    [hasPacket : {FALSE}, packet : {<<>>}, command : Commands \cup {"UNKNOWN"},
     crcStatus : {"VALID", "INVALID", "NOT_VERIFIED"}, eventType : {""}]

\* ingestControlBoardLive and ingestControlBoardMock do the same.
IngestControlBoard == \E payload \in Payloads : Applies(Adapted(payload, "CONTROL_BOARD"))

\* createSerialTest does nothing without a sample packet.
CreateSerialTest ==
    \E payload \in Payloads :
        /\ payload.hasPacket
        /\ Applies(Adapted(payload, "CONTROL_BOARD_SERIAL_TEST"))

\* ingestLidar takes the first object; it throws when there is none.
IngestLidar ==
    \E type \in {"WRONG_WAY", "NORMAL_DRIVING", "SITUATION_CLEARED"} : Applies(LidarEvent(type))

\* publishNewWrongWays, after a snapshot: these events are not remembered.
PublishWrongWay ==
    /\ received < MaxReceived /\ received' = received + 1
    /\ Counts(LidarEvent("WRONG_WAY"))
    /\ UNCHANGED <<line, recentEvents>>

\* A reset of the demo, once the detector has agreed.
ResetKpi ==
    /\ kpi' = ZeroKpi
    /\ UNCHANGED <<line, received, recentEvents, wrongWayHistory>>

IngestNext ==
    IngestControlBoard \/ CreateSerialTest \/ IngestLidar \/ PublishWrongWay \/ ResetKpi

IngestSpec == IngestInit /\ [][IngestNext]_ingestVars

\* A wrong byte, a short burst, two flipped bits anywhere or a missing end never make the
\* server take a garbled frame for another: whatever came from a packet into the history is
\* byte for byte what the integrated control board's line was given, be it a command, a
\* response of the board or a selection the dashboard never sends, and carries its ID. What
\* was counted since the last reset is at the head of the history, hour by hour and wrong way
\* by wrong way.
OnlySoundPacketsCount ==
    /\ \A i \in 1..Len(wrongWayHistory) :
          wrongWayHistory[i].packet # <<>> =>
              wrongWayHistory[i].packet = line.sent /\ line.sent[2] = DeviceId
    /\ kpi.todaysEvents <= MaxHistory =>
          /\ kpi.todaysEvents <= Len(wrongWayHistory)
          /\ kpi.wrongWayEvents =
                Cardinality({i \in 1..kpi.todaysEvents : wrongWayHistory[i].eventType = "WRONG_WAY"})
    /\ kpi.todaysEvents = SumFunction(kpi.hourlyEvents)
=============================================================================
