---------------------------- MODULE ControlBoard ----------------------------
(***************************************************************************)
(* Commands to the integrated control board: sendControlBoardCommand of    *)
(* controlBoard.service.js and sendTcpPacket of controlBoardTcp.client.js, *)
(* with the board at the other end of the socket.                          *)
(*                                                                         *)
(* Each command opens a socket of its own; several may be open at once.    *)
(* The socket's handlers settle one promise, and what follows it in the    *)
(* service runs before any other event, so both are one step here.  The    *)
(* idle timer of the socket (setTimeout) starts over on any activity, that *)
(* is when it connects and writes; Node stops it when the socket closes.   *)
(* An answer is unique to its command, whose id is therefore left out.     *)
(* The format of an ACK is undecided, so the board may send anything on a  *)
(* connection, and whether it carries a command out is its own affair.     *)
(***************************************************************************)
EXTENDS Naturals, Sequences

CONSTANTS
    Commands,      \* the requests of a behaviour
    Replies,       \* what a board may send: an ACK, a refusal, noise
    MaxHistory,    \* MAX_COMMAND_HISTORY
    Timeout        \* timeoutMs of every command, in ticks

ASSUME ControlBoardAssumption ==
    /\ "none" \notin Replies
    /\ MaxHistory \in Nat \ {0}
    /\ Timeout \in Nat \ {0}

VARIABLES
    phase,      \* [command -> where its request stands]
    answer,     \* [command -> the status it was answered with]
    ack,        \* [command -> the ackBuffer its caller was given]
    history,    \* commandHistory, the newest first
    idle,       \* [command -> ticks since the last activity of its socket]
    waited,     \* [command -> ticks since its request, counted to MaxWait]
    written,    \* commands whose packet was written to a socket
    said,       \* [command -> what the board sent first on its connection]
    count,      \* how many commands were answered
    order       \* [command -> the count when it was answered, or 0]

board == <<written, said>>
answers == <<count, order>>
vars == <<phase, answer, ack, history, idle, waited, board, answers>>

\* "closed": the board has ended the connection before it sent anything.
Phases == {"none", "connecting", "connected", "closed", "answered"}
Remembered == {"dry-run", "ack-received", "sent-timeout", "send-failed"}
Answers == {"none", "rejected"} \cup Remembered
Heard == Replies \cup {"none"}
Entry == [command: Commands, status: Remembered]

\* Bound: beyond it only that it was exceeded matters.
MaxWait == 2 * Timeout + 1

Open(c) == phase[c] \in {"connecting", "connected"}

TypeOK ==
    /\ phase \in [Commands -> Phases]
    /\ answer \in [Commands -> Answers]
    /\ ack \in [Commands -> Heard]
    /\ history \in Seq(Entry)
    /\ Len(history) <= MaxHistory
    /\ idle \in [Commands -> 0..Timeout]
    /\ waited \in [Commands -> 0..MaxWait]
    /\ written \subseteq Commands
    /\ said \in [Commands -> Heard]
    /\ count \in Nat
    /\ order \in [Commands -> 0..count]

Init ==
    /\ phase = [c \in Commands |-> "none"]
    /\ answer = [c \in Commands |-> "none"]
    /\ ack = [c \in Commands |-> "none"]
    /\ history = << >>
    /\ idle = [c \in Commands |-> 0]
    /\ waited = [c \in Commands |-> 0]
    /\ written = {}
    /\ said = [c \in Commands |-> "none"]
    /\ count = 0
    /\ order = [c \in Commands |-> 0]

-----------------------------------------------------------------------------
\* Mutant of HistoryAfter: when there is no room the new one is not taken.
HistoryAfter_KeepsOldest(c, status) ==
    IF Len(history) = MaxHistory THEN history
    ELSE <<[command |-> c, status |-> status]>> \o history

\* rememberCommand: the newest first, the oldest dropped.
HistoryAfter(c, status) ==
    LET longer == <<[command |-> c, status |-> status]>> \o history
    IN  IF Len(longer) > MaxHistory THEN SubSeq(longer, 1, MaxHistory) ELSE longer

\* Every outcome of a command that had a packet goes into the history.
Remembers(status) == status # "rejected"

Answer(c, status, reply) ==
    /\ phase' = [phase EXCEPT ![c] = "answered"]
    /\ answer' = [answer EXCEPT ![c] = status]
    /\ ack' = [ack EXCEPT ![c] = reply]
    /\ history' = IF Remembers(status) THEN HistoryAfter(c, status) ELSE history
    /\ count' = count + 1
    /\ order' = [order EXCEPT ![c] = count + 1]
    /\ UNCHANGED <<idle, waited, board>>

\* No commandType or no host (400), or a commandType without a packet (500).
Reject(c) == phase[c] = "none" /\ Answer(c, "rejected", "none")

\* dryRun: the packet is built and remembered, and no socket is opened.
DryRun(c) == phase[c] = "none" /\ Answer(c, "dry-run", "none")

\* sendTcpPacket: setTimeout and connect.
Connect(c) ==
    /\ phase[c] = "none"
    /\ phase' = [phase EXCEPT ![c] = "connecting"]
    /\ UNCHANGED <<answer, ack, history, idle, waited, board, answers>>

\* "connect": the packet is written; the idle timer starts over.
Connected(c) ==
    /\ phase[c] = "connecting"
    /\ phase' = [phase EXCEPT ![c] = "connected"]
    /\ idle' = [idle EXCEPT ![c] = 0]
    /\ written' = written \cup {c}
    /\ UNCHANGED <<answer, ack, history, waited, said, answers>>

\* "data": the first chunk, whatever it is, is taken for the ACK; it is parsed and kept, and
\* what the parser finds is not looked at.
AckArrives(c) ==
    /\ phase[c] = "connected" /\ said[c] # "none"
    /\ Answer(c, "ack-received", said[c])

\* Mutant of TimerFires: the timeout is armed when the socket connects.
TimerFires_AfterConnect(c) == phase[c] = "connected" /\ idle[c] = Timeout

\* Node fires the idle timer of an open socket, whether it is connected or not.
TimerFires(c) == Open(c) /\ idle[c] = Timeout

\* Mutant of TimeoutStatus: result.timeout is not looked at.
TimeoutStatus_Ack == "ack-received"

\* A timeout resolves the promise with ackReceived: false and what was received, nothing.
TimeoutStatus == "sent-timeout"

TimedOut(c) == TimerFires(c) /\ Answer(c, TimeoutStatus, "none")

\* "error": refused, unreachable, or reset at any later time.
SocketError(c) == Open(c) /\ Answer(c, "send-failed", "none")

\* The board sends something, which may be on its way when the timer fires or the
\* connection is reset.
BoardSends(c) ==
    /\ phase[c] = "connected" /\ said[c] = "none"
    /\ \E reply \in Replies : said' = [said EXCEPT ![c] = reply]
    /\ UNCHANGED <<phase, answer, ack, history, idle, waited, written, answers>>

\* The board ends the connection without having sent a byte.  The socket
\* then closes on its own; there is no handler for "end" or "close".
BoardCloses(c) ==
    /\ phase[c] = "connected" /\ said[c] = "none"
    /\ phase' = [phase EXCEPT ![c] = "closed"]
    /\ UNCHANGED <<answer, ack, history, idle, waited, board, answers>>

\* Time passes; a timer that is due fires first.
Tick ==
    /\ \E c \in Commands : Open(c)
    /\ \A c \in Commands : ~TimerFires(c)
    /\ idle' = [c \in Commands |-> IF Open(c) /\ idle[c] < Timeout
                                   THEN idle[c] + 1 ELSE idle[c]]
    /\ waited' = [c \in Commands |-> IF Open(c) /\ waited[c] < MaxWait
                                     THEN waited[c] + 1 ELSE waited[c]]
    /\ UNCHANGED <<phase, answer, ack, history, board, answers>>

Next ==
    \/ \E c \in Commands :
         \/ Reject(c) \/ DryRun(c) \/ Connect(c) \/ Connected(c) \/ AckArrives(c)
         \/ TimedOut(c) \/ SocketError(c)
         \/ BoardSends(c) \/ BoardCloses(c)
    \/ Tick

Spec == Init /\ [][Next]_vars

\* Fairness: time passes and due timers fire.  Nothing obliges the board to
\* connect, to answer or to fail.
FairSpec == Spec /\ WF_vars(Tick) /\ \A c \in Commands : WF_vars(TimedOut(c))

-----------------------------------------------------------------------------
\* What the caller is told of the board is true of his own connection, however many are open:
\* a command reported as acknowledged was written and comes with what the board sent on that
\* connection, one reported otherwise comes with nothing, and one that was refused here or
\* only tried out was not written.  Whether the board has carried a command out is for him to
\* see in what it sent (comment at controlBoard.service.js 135).
AckIsOwnReply ==
    \A c \in Commands :
        /\ answer[c] = "ack-received" => c \in written /\ ack[c] = said[c] /\ ack[c] # "none"
        /\ answer[c] # "ack-received" => ack[c] = "none"
        /\ answer[c] \in {"rejected", "dry-run"} => c \notin written

\* The history holds the last MaxHistory commands that had a packet, the newest first, each
\* with the status its caller was given (comments at controlBoard.service.js 25, 150 and
\* 171): those in it are in the order in which they were answered, and those that are not
\* were answered before all of a full list.
HistoryIsComplete ==
    LET listed == {history[i].command : i \in 1..Len(history)}
    IN  /\ \A i \in 1..Len(history) :
              /\ answer[history[i].command] \in Remembered
              /\ history[i].status = answer[history[i].command]
        /\ \A i, j \in 1..Len(history) :
              i < j => order[history[i].command] > order[history[j].command]
        /\ \A c \in Commands : answer[c] \in Remembered =>
              \/ c \in listed
              \/ /\ Len(history) = MaxHistory
                 /\ \A d \in listed : order[c] < order[d]

\* A command waits no longer than one timeout for the connection and one for
\* the answer.
AnsweredInTime == \A c \in Commands : Open(c) => waited[c] <= 2 * Timeout

\* Every command whose connection the board does not end is answered.
AnsweredUnlessClosed ==
    \A c \in Commands : phase[c] = "connecting" ~> phase[c] \in {"answered", "closed"}

\* "통합제어보드가 ACK를 주지 않으면 무한 대기하지 않고 timeout 결과를
\* 반환한다" (controlBoardTcp.client.js 33): a command to a board that gives
\* no ACK does not wait forever.
EveryCommandIsAnswered ==
    \A c \in Commands : phase[c] = "connecting" ~> phase[c] = "answered"
=============================================================================
