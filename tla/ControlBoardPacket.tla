------------------------- MODULE ControlBoardPacket -------------------------
(***************************************************************************)
(* The frame the integrated control board exchanges with the dashboard:    *)
(* ten bytes, STX ID TYPE MODE STATUS SELECT RESERVED CRC ETX EOF.  The    *)
(* notations of an incoming packet, a string of hexadecimal digits or an   *)
(* array, stand for the sequence of its bytes; text that is neither is     *)
(* the sequence <<>>.                                                      *)
(***************************************************************************)
EXTENDS Integers, Sequences

STX == 2
DeviceId == 161
ETX == 3
EOF == 13
PacketLength == 10

Commands == {"STAGE_1_ON", "STAGE_2_ON", "STAGE_2_RETURN", "SYSTEM_RESET"}

\* COMMAND_PACKET_MAP: mode, status, select.
PacketOf == [STAGE_1_ON     |-> <<1, 1, 2>>,
             STAGE_2_ON     |-> <<2, 1, 1>>,
             STAGE_2_RETURN |-> <<2, 2, 3>>,
             SYSTEM_RESET   |-> <<0, 0, 1>>]

Bytes == 0..255
Flips == {1, 2, 4, 8, 16, 32, 64, 128}    \* the bytes of one bit

\* The exclusive or of two bytes, bit by bit.
Xor(a, b) ==
    LET bit(w) == w * ((a \div w + b \div w) % 2)
    IN  bit(1) + bit(2) + bit(4) + bit(8) + bit(16) + bit(32) + bit(64) + bit(128)

(* --- calculateCrc8Smbus ---------------------------------------------------- *)

\* One bit of the division by x^8 + x^2 + x + 1, most significant bit first.
Divided(crc) == IF crc >= 128 THEN Xor((2 * crc) % 256, 7) ELSE 2 * crc

\* The eight bits of a byte, for every byte.
CrcTable ==
    LET twice(crc) == Divided(Divided(crc))
    IN  [byte \in Bytes |-> twice(twice(twice(twice(byte))))]

Crc8(bytes) ==
    LET crc[i \in 0..Len(bytes)] == IF i = 0 THEN 0 ELSE CrcTable[Xor(crc[i - 1], bytes[i])]
    IN  crc[Len(bytes)]

(* --- buildControlBoardPacket, parseControlBoardPacket ----------------------- *)

DataArea(packet) == SubSeq(packet, 2, 7)

\* The frame of six bytes ID TYPE MODE STATUS SELECT RESERVED.
Framed(data) == <<STX>> \o data \o <<Crc8(data), ETX, EOF>>

\* The bytes of a command of the dashboard, TYPE 0x10; the board answers with 0x20.
CommandData(command) == <<DeviceId, 16>> \o PacketOf[command] \o <<0>>

\* Mutant: a CRC has to be there, but not to be right.
CrcPresent(packet) == Len(packet) >= 8

CrcValid(packet) ==
    /\ Len(packet) >= 8
    /\ packet[8] = Crc8(DataArea(packet))

\* Neither the type nor the selection is looked at.
IsValid(packet) ==
    /\ Len(packet) = PacketLength
    /\ packet[1] = STX /\ packet[2] = DeviceId
    /\ packet[9] = ETX /\ packet[10] = EOF
    /\ CrcValid(packet)

\* A text that is no packet has not been verified, one of the wrong length is invalid.
CrcStatus(packet) ==
    IF packet = <<>> THEN "NOT_VERIFIED" ELSE IF CrcValid(packet) THEN "VALID" ELSE "INVALID"

\* getProtocolCommand: the mode and the status decide.
ProtocolCommand(packet) ==
    IF Len(packet) < 5 THEN "UNKNOWN"
    ELSE LET meant == {c \in Commands : PacketOf[c][1] = packet[4] /\ PacketOf[c][2] = packet[5]}
         IN  IF meant = {} THEN "UNKNOWN" ELSE CHOOSE c \in meant : TRUE
=============================================================================
