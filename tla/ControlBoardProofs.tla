------------------------ MODULE ControlBoardProofs ------------------------
(***************************************************************************)
(* Proofs about ControlBoard, for any commands, history and timeout: the   *)
(* types with the bound of the history; that no command waits longer than  *)
(* two timeouts, which needs what the idle timer of the socket knows of    *)
(* the time since the request (WaitMatchesIdle); and that replies and      *)
(* history tell the truth, which needs that a command that still waits has *)
(* no answer yet and that whoever is answered is the last so far           *)
(* (HistoryInv).                                                           *)
(***************************************************************************)
EXTENDS ControlBoard, SequenceTheorems, TLAPS

\* The history keeps its type and its bound when a command is remembered.
LEMMA HistoryAfterType ==
    ASSUME TypeOK, NEW c \in Commands, NEW status \in Remembered
    PROVE  /\ HistoryAfter(c, status) \in Seq(Entry)
           /\ Len(HistoryAfter(c, status)) <= MaxHistory
<1> DEFINE e == [command |-> c, status |-> status]
           longer == <<e>> \o history
<1>1. /\ e \in Entry
      /\ history \in Seq(Entry)
      /\ MaxHistory \in Nat
      /\ Len(history) <= MaxHistory
  BY ControlBoardAssumption DEF Entry, TypeOK
<1>2. longer \in Seq(Entry)
  BY <1>1
<1> HIDE DEF e, longer
<1>3. CASE Len(longer) > MaxHistory
  <2>1. HistoryAfter(c, status) = SubSeq(longer, 1, MaxHistory)
    BY <1>3 DEF HistoryAfter, longer, e
  <2>2. /\ SubSeq(longer, 1, MaxHistory) \in Seq(Entry)
        /\ Len(SubSeq(longer, 1, MaxHistory)) = MaxHistory
    BY <1>1, <1>2, <1>3, SubSeqProperties
  <2> QED
    BY <1>1, <2>1, <2>2
<1>4. CASE ~(Len(longer) > MaxHistory)
  <2>1. HistoryAfter(c, status) = longer
    BY <1>4 DEF HistoryAfter, longer, e
  <2>2. Len(longer) \in Nat
    BY <1>2
  <2> QED
    BY <1>1, <1>2, <1>4, <2>1, <2>2
<1> QED
  BY <1>3, <1>4

\* What an answer changes keeps its type.
LEMMA AnswerTypes ==
    ASSUME TypeOK, NEW c \in Commands, NEW status \in Remembered \cup {"rejected"},
           NEW reply \in Heard, Answer(c, status, reply)
    PROVE  /\ phase' \in [Commands -> Phases]
           /\ answer' \in [Commands -> Answers]
           /\ ack' \in [Commands -> Heard]
           /\ count' \in Nat /\ order' \in [Commands -> 0..count']
           /\ history' \in Seq(Entry)
           /\ Len(history') <= MaxHistory
<1>1. phase' \in [Commands -> Phases]
  BY DEF Answer, TypeOK, Phases
<1>2. answer' \in [Commands -> Answers]
  BY DEF Answer, TypeOK, Answers
<1>4. ack' \in [Commands -> Heard]
  BY DEF Answer, TypeOK
<1>5. count' \in Nat /\ order' \in [Commands -> 0..count']
  BY DEF Answer, TypeOK
<1>3. history' \in Seq(Entry) /\ Len(history') <= MaxHistory
  <2>1. CASE status = "rejected"
    BY <2>1 DEF Answer, Remembers, TypeOK
  <2>2. CASE status # "rejected"
    <3>1. history' = HistoryAfter(c, status)
      BY <2>2 DEF Answer, Remembers
    <3> QED
      BY <2>2, <3>1, HistoryAfterType
  <2> QED
    BY <2>1, <2>2
<1> QED
  BY <1>1, <1>2, <1>3, <1>4, <1>5

-----------------------------------------------------------------------------
(* The inductive invariant.                                                *)

\* Until it connects a socket has been idle since the request; from then on
\* the request is older by at most one timeout.
WaitMatchesIdle ==
    \A c \in Commands :
        /\ phase[c] = "none" => idle[c] = 0 /\ waited[c] = 0
        /\ phase[c] = "connecting" => waited[c] = idle[c]
        /\ phase[c] = "connected" => waited[c] <= Timeout + idle[c]

WaitInv == TypeOK /\ WaitMatchesIdle

LEMMA WaitInit == Init => WaitInv
<1> SUFFICES ASSUME Init PROVE WaitInv
  OBVIOUS
<1>1. TypeOK
  <2>1. << >> \in Seq(Entry) /\ Len(<< >>) = 0
    OBVIOUS
  <2> QED
    BY <2>1, ControlBoardAssumption DEF Init, TypeOK, Phases, Answers, Heard, MaxWait
<1>2. WaitMatchesIdle
  BY DEF Init, WaitMatchesIdle
<1> QED
  BY <1>1, <1>2 DEF WaitInv

\* A step that only answers a command.
LEMMA AnswerKeeps ==
    ASSUME WaitInv, NEW c \in Commands, NEW status \in Remembered \cup {"rejected"},
           NEW reply \in Heard, Answer(c, status, reply)
    PROVE  WaitInv'
<1>0. UNCHANGED <<idle, waited, written, said>>
  BY DEF Answer, board
<1>1. TypeOK'
  BY <1>0, AnswerTypes DEF WaitInv, TypeOK, MaxWait
<1>2. WaitMatchesIdle'
  BY <1>0 DEF WaitInv, WaitMatchesIdle, Answer, TypeOK
<1> QED
  BY <1>1, <1>2 DEF WaitInv

\* A step of one command that neither answers it nor lets time pass.
LEMMA SocketKeeps ==
    ASSUME WaitInv, NEW c \in Commands,
           Connect(c) \/ Connected(c) \/ BoardCloses(c) \/ BoardSends(c)
    PROVE  WaitInv'
<1>0. /\ TypeOK
      /\ WaitMatchesIdle
      /\ Timeout \in Nat
  BY ControlBoardAssumption DEF WaitInv
<1>1. CASE Connect(c)
  <2>1. TypeOK'
    BY <1>0, <1>1 DEF Connect, TypeOK, Phases, MaxWait, board, answers
  <2>2. WaitMatchesIdle'
    BY <1>0, <1>1 DEF Connect, WaitMatchesIdle, TypeOK
  <2> QED
    BY <2>1, <2>2 DEF WaitInv
<1>2. CASE Connected(c)
  <2>1. TypeOK'
    BY <1>0, <1>2 DEF Connected, TypeOK, Phases, MaxWait, answers
  <2>2. WaitMatchesIdle'
    BY <1>0, <1>2 DEF Connected, WaitMatchesIdle, TypeOK
  <2> QED
    BY <2>1, <2>2 DEF WaitInv
<1>3. CASE BoardCloses(c)
  <2>1. TypeOK'
    BY <1>0, <1>3 DEF BoardCloses, TypeOK, Phases, MaxWait, board, answers
  <2>2. WaitMatchesIdle'
    BY <1>0, <1>3 DEF BoardCloses, WaitMatchesIdle, TypeOK
  <2> QED
    BY <2>1, <2>2 DEF WaitInv
<1>4. CASE BoardSends(c)
  <2>1. TypeOK'
    BY <1>0, <1>4 DEF BoardSends, TypeOK, Heard, MaxWait, answers
  <2>2. WaitMatchesIdle'
    BY <1>0, <1>4 DEF BoardSends, WaitMatchesIdle
  <2> QED
    BY <2>1, <2>2 DEF WaitInv
<1> QED
  BY <1>1, <1>2, <1>3, <1>4

LEMMA TickKeeps ==
    ASSUME WaitInv, Tick
    PROVE  WaitInv'
<1>0. /\ TypeOK
      /\ WaitMatchesIdle
      /\ Timeout \in Nat
      /\ MaxWait = 2 * Timeout + 1
  BY ControlBoardAssumption DEF WaitInv, MaxWait
<1>1. TypeOK'
  <2>1. idle' \in [Commands -> 0..Timeout]
    BY <1>0 DEF Tick, TypeOK
  <2>2. waited' \in [Commands -> 0..MaxWait]
    BY <1>0 DEF Tick, TypeOK
  <2> QED
    BY <1>0, <2>1, <2>2 DEF Tick, TypeOK, board, answers
<1>2. ASSUME NEW c \in Commands
      PROVE  /\ phase'[c] = "none" => idle'[c] = 0 /\ waited'[c] = 0
             /\ phase'[c] = "connecting" => waited'[c] = idle'[c]
             /\ phase'[c] = "connected" => waited'[c] <= Timeout + idle'[c]
  <2>1. /\ phase'[c] = phase[c]
        /\ idle'[c] = IF Open(c) /\ idle[c] < Timeout THEN idle[c] + 1 ELSE idle[c]
        /\ waited'[c] = IF Open(c) /\ waited[c] < MaxWait THEN waited[c] + 1 ELSE waited[c]
    BY DEF Tick
  <2>2. /\ idle[c] \in 0..Timeout
        /\ waited[c] \in 0..MaxWait
    BY <1>0 DEF TypeOK
  <2>3. Open(c) => idle[c] < Timeout
    BY <1>0, <2>2 DEF Tick, TimerFires
  <2>4. CASE phase[c] = "connecting"
    BY <1>0, <2>1, <2>2, <2>3, <2>4 DEF Open, WaitMatchesIdle
  <2>5. CASE phase[c] = "connected"
    BY <1>0, <2>1, <2>2, <2>3, <2>5 DEF Open, WaitMatchesIdle
  <2>6. CASE ~Open(c)
    BY <1>0, <2>1, <2>6 DEF Open, WaitMatchesIdle
  <2> QED
    BY <2>4, <2>5, <2>6 DEF Open
<1> QED
  BY <1>1, <1>2 DEF WaitInv, WaitMatchesIdle

LEMMA WaitStep == WaitInv /\ [Next]_vars => WaitInv'
<1> SUFFICES ASSUME WaitInv, [Next]_vars PROVE WaitInv'
  OBVIOUS
<1>1. CASE UNCHANGED vars
  <2>1. TypeOK'
    BY <1>1 DEF WaitInv, TypeOK, vars, MaxWait, board, answers
  <2>2. WaitMatchesIdle'
    BY <1>1 DEF WaitInv, WaitMatchesIdle, vars
  <2> QED
    BY <2>1, <2>2 DEF WaitInv
<1>2. CASE Tick
  BY <1>2, TickKeeps
<1>3. ASSUME NEW c \in Commands,
             \/ Reject(c) \/ DryRun(c) \/ AckArrives(c) \/ TimedOut(c) \/ SocketError(c)
      PROVE  WaitInv'
  <2>1. \E status \in Remembered \cup {"rejected"}, reply \in Heard : Answer(c, status, reply)
    BY <1>3 DEF Reject, DryRun, AckArrives, TimedOut, TimeoutStatus, SocketError, Remembered,
                Heard, WaitInv, TypeOK
  <2> QED
    BY <2>1, AnswerKeeps
<1>4. ASSUME NEW c \in Commands,
             Connect(c) \/ Connected(c) \/ BoardCloses(c) \/ BoardSends(c)
      PROVE  WaitInv'
  BY <1>4, SocketKeeps
<1> QED
  BY <1>1, <1>2, <1>3, <1>4 DEF Next

\* The service's variables keep their types, and the history never holds more
\* than MAX_COMMAND_HISTORY commands.
THEOREM TypeCorrect == Spec => []TypeOK
BY WaitInit, WaitStep, PTL DEF Spec, WaitInv

\* With a socket open, a command waits at most one timeout for the connection
\* and one for the answer.
THEOREM NoLongWait == Spec => []AnsweredInTime
<1>1. WaitInv => AnsweredInTime
  <2> SUFFICES ASSUME WaitInv, NEW c \in Commands, Open(c)
               PROVE  waited[c] <= 2 * Timeout
    BY DEF AnsweredInTime
  <2>1. /\ idle[c] \in 0..Timeout
        /\ waited[c] \in Nat
        /\ Timeout \in Nat
    BY ControlBoardAssumption DEF WaitInv, TypeOK, MaxWait
  <2> QED
    BY <2>1 DEF WaitInv, WaitMatchesIdle, Open
<1> QED
  BY <1>1, WaitInit, WaitStep, PTL DEF Spec

-----------------------------------------------------------------------------
(* The replies and the history.                                            *)

\* A command that still waits has no answer, and one that has no socket yet was not written.
UnansweredHasNone ==
    \A c \in Commands :
        /\ phase[c] # "answered" => answer[c] = "none" /\ ack[c] = "none"
        /\ phase[c] = "none" => c \notin written
        /\ phase[c] = "connected" => c \in written

\* Each entry is an answered command, as it was answered.
ListedAsAnswered ==
    \A i \in 1..Len(history) :
        /\ answer[history[i].command] \in Remembered
        /\ history[i].status = answer[history[i].command]

\* The newest first.
ListedInOrder ==
    \A i, j \in 1..Len(history) :
        i < j => order[history[i].command] > order[history[j].command]

IsListed(c) == \E i \in 1..Len(history) : history[i].command = c

\* What is missing was pushed out by newer ones.
MissingAreOlder ==
    \A c \in Commands : answer[c] \in Remembered =>
        \/ IsListed(c)
        \/ /\ Len(history) = MaxHistory
           /\ \A i \in 1..Len(history) : order[c] < order[history[i].command]

HistoryInv ==
    /\ TypeOK /\ UnansweredHasNone /\ AckIsOwnReply
    /\ ListedAsAnswered /\ ListedInOrder /\ MissingAreOlder

\* The history after a command: that command, then the earlier ones in their
\* order, as far as there is room.
LEMMA HistoryAfterEntries ==
    ASSUME TypeOK, NEW c \in Commands, NEW status \in Remembered
    PROVE  LET h == HistoryAfter(c, status)
           IN  /\ Len(h) = IF Len(history) < MaxHistory THEN Len(history) + 1 ELSE MaxHistory
               /\ h[1] = [command |-> c, status |-> status]
               /\ \A i \in 2..Len(h) : h[i] = history[i - 1]
<1> DEFINE e == [command |-> c, status |-> status]
           longer == <<e>> \o history
           h == HistoryAfter(c, status)
<1>1. /\ e \in Entry /\ history \in Seq(Entry)
      /\ MaxHistory \in Nat /\ MaxHistory > 0
      /\ Len(history) \in Nat /\ Len(history) <= MaxHistory
  BY ControlBoardAssumption, LenProperties DEF Entry, TypeOK
<1> HIDE DEF e
<1>2. /\ longer \in Seq(Entry) /\ Len(longer) = Len(history) + 1
      /\ \A i \in 1..(Len(history) + 1) : longer[i] = IF i = 1 THEN e ELSE history[i - 1]
  <2>1. <<e>> \in Seq(Entry) /\ Len(<<e>>) = 1 /\ <<e>>[1] = e
    BY <1>1
  <2>2. /\ longer \in Seq(Entry) /\ Len(longer) = 1 + Len(history)
        /\ \A i \in 1..(1 + Len(history)) :
             longer[i] = IF i <= 1 THEN <<e>>[i] ELSE history[i - 1]
    <3>1. /\ longer \in Seq(Entry) /\ Len(longer) = Len(<<e>>) + Len(history)
          /\ \A i \in 1..(Len(<<e>>) + Len(history)) :
               longer[i] = IF i <= Len(<<e>>) THEN <<e>>[i] ELSE history[i - Len(<<e>>)]
      BY <1>1, <2>1, ConcatProperties
    <3> QED
      BY <2>1, <3>1
  <2> HIDE DEF longer
  <2> QED
    BY <1>1, <2>1, <2>2
<1>3. h = IF Len(longer) > MaxHistory THEN SubSeq(longer, 1, MaxHistory) ELSE longer
  BY DEF HistoryAfter, e
<1> HIDE DEF longer, h
<1>4. CASE Len(history) < MaxHistory
  <2>1. h = longer
    BY <1>1, <1>2, <1>3, <1>4
  <2> QED
    BY <1>1, <1>2, <1>4, <2>1 DEF e, h
<1>5. CASE ~(Len(history) < MaxHistory)
  <2>1. h = SubSeq(longer, 1, MaxHistory) /\ Len(longer) = MaxHistory + 1
    BY <1>1, <1>2, <1>3, <1>5
  <2>2. Len(h) = MaxHistory /\ \A i \in 1..MaxHistory : h[i] = longer[i]
    BY <1>1, <1>2, <2>1, SubSeqProperties
  <2> QED
    BY <1>1, <1>2, <1>5, <2>2 DEF e, h
<1> QED
  BY <1>4, <1>5

\* An answer puts its command in front of the history, where it was not before.
LEMMA AnswerHistory ==
    ASSUME HistoryInv, NEW c \in Commands, phase[c] # "answered",
           NEW status \in Remembered \cup {"rejected"}, NEW reply \in Heard,
           Answer(c, status, reply), TypeOK',
           status = "ack-received" => c \in written /\ reply = said[c] /\ reply # "none",
           status # "ack-received" => reply = "none",
           status \in {"rejected", "dry-run"} => c \notin written
    PROVE  HistoryInv'
<1> USE DEF HistoryInv
<1>0. /\ phase' = [phase EXCEPT ![c] = "answered"] /\ answer' = [answer EXCEPT ![c] = status]
      /\ ack' = [ack EXCEPT ![c] = reply] /\ order' = [order EXCEPT ![c] = count + 1]
      /\ written' = written /\ said' = said
      /\ phase \in [Commands -> Phases] /\ answer \in [Commands -> Answers]
      /\ ack \in [Commands -> Heard] /\ order \in [Commands -> 0..count] /\ count \in Nat
      /\ history \in Seq(Entry) /\ Len(history) \in Nat
  BY LenProperties DEF Answer, TypeOK, board
<1>1. /\ \A d \in Commands : answer'[d] = IF d = c THEN status ELSE answer[d]
      /\ \A d \in Commands : ack'[d] = IF d = c THEN reply ELSE ack[d]
      /\ \A d \in Commands : phase'[d] = IF d = c THEN "answered" ELSE phase[d]
      /\ \A d \in Commands : order'[d] = IF d = c THEN count + 1 ELSE order[d]
      /\ \A d \in Commands : order[d] \in Nat /\ order[d] < count + 1
      /\ answer[c] = "none"
  BY <1>0 DEF UnansweredHasNone
<1>2. UnansweredHasNone' /\ AckIsOwnReply'
  <2>1. UnansweredHasNone'
    BY <1>0, <1>1 DEF UnansweredHasNone
  <2>2. AckIsOwnReply'
    BY <1>0, <1>1 DEF AckIsOwnReply
  <2> QED
    BY <2>1, <2>2
<1>3. \A i \in 1..Len(history) :
         history[i] \in Entry /\ history[i].command \in Commands /\ history[i].command # c
  <2>1. \A i \in 1..Len(history) : history[i] \in Entry
    BY <1>0
  <2> QED
    BY <1>1, <2>1 DEF ListedAsAnswered, Entry, Remembered
<1>4. CASE status = "rejected"
  <2>1. history' = history
    BY <1>4 DEF Answer, Remembers
  <2>2. \A i \in 1..Len(history) :
           /\ answer'[history[i].command] = answer[history[i].command]
           /\ order'[history[i].command] = order[history[i].command]
    BY <1>1, <1>3
  <2>3. ListedAsAnswered' /\ ListedInOrder'
    BY <2>1, <2>2 DEF ListedAsAnswered, ListedInOrder
  <2>4. MissingAreOlder'
    BY <1>1, <1>4, <2>1, <2>2 DEF MissingAreOlder, IsListed, Remembered
  <2> QED
    BY <1>2, <2>3, <2>4
<1>5. CASE status \in Remembered
  <2>1. /\ Len(history') = IF Len(history) < MaxHistory THEN Len(history) + 1 ELSE MaxHistory
        /\ history'[1] = [command |-> c, status |-> status]
        /\ \A i \in 2..Len(history') : history'[i] = history[i - 1]
    <3>1. status # "rejected"
      BY <1>5 DEF Remembered
    <3>2. history' = HistoryAfter(c, status)
      BY <3>1 DEF Answer, Remembers
    <3> QED
      BY <1>5, <3>2, HistoryAfterEntries
  <2>2. /\ MaxHistory \in Nat /\ MaxHistory > 0 /\ Len(history) <= MaxHistory
        /\ \A i \in 2..Len(history') : i - 1 \in 1..Len(history)
        /\ 1 \in 1..Len(history')
        /\ \A i \in 1..Len(history') : i = 1 \/ i \in 2..Len(history')
        /\ Len(history') \in Nat
    BY <1>0, <2>1, ControlBoardAssumption DEF TypeOK
  <2>3. \A i \in 2..Len(history') :
           /\ i - 1 \in 1..Len(history) /\ history'[i] = history[i - 1]
           /\ answer'[history'[i].command] = answer[history[i - 1].command]
           /\ order'[history'[i].command] = order[history[i - 1].command]
           /\ order'[history'[i].command] < count + 1
    BY <1>1, <1>3, <2>1, <2>2
  <2>4. history'[1].command = c /\ history'[1].status = status /\ order'[c] = count + 1
    BY <1>1, <2>1
  <2>5. ListedAsAnswered'
    <3> SUFFICES ASSUME NEW i \in 1..Len(history')
                 PROVE  /\ answer'[history'[i].command] \in Remembered
                        /\ history'[i].status = answer'[history'[i].command]
      BY DEF ListedAsAnswered
    <3>1. CASE i = 1
      BY <1>1, <1>5, <2>4, <3>1
    <3>2. CASE i # 1
      BY <2>2, <2>3, <3>2 DEF ListedAsAnswered
    <3> QED
      BY <3>1, <3>2
  <2>6. ListedInOrder'
    <3> SUFFICES ASSUME NEW i \in 1..Len(history'), NEW j \in 1..Len(history'), i < j
                 PROVE  order'[history'[i].command] > order'[history'[j].command]
      BY DEF ListedInOrder
    <3>1. j \in 2..Len(history')
      BY <2>2
    <3>2. CASE i = 1
      <4>1. order'[history'[j].command] < count + 1
        BY <2>3, <3>1
      <4>2. order'[history'[i].command] = count + 1
        BY <2>4, <3>2
      <4>3. order'[history'[j].command] \in Nat
        BY <1>1, <1>3, <2>3, <3>1
      <4> QED
        BY <1>0, <4>1, <4>2, <4>3
    <3>3. CASE i # 1
      <4>1. i \in 2..Len(history')
        BY <2>2, <3>3
      <4>2. i - 1 \in 1..Len(history) /\ j - 1 \in 1..Len(history) /\ i - 1 < j - 1
        BY <2>2, <3>1, <4>1
      <4>3. order[history[i - 1].command] > order[history[j - 1].command]
        BY <4>2 DEF ListedInOrder
      <4> QED
        BY <2>3, <3>1, <4>1, <4>3
    <3> QED
      BY <3>2, <3>3
  <2>7. MissingAreOlder'
    <3> SUFFICES ASSUME NEW d \in Commands, answer'[d] \in Remembered, ~IsListed(d)'
                 PROVE  /\ Len(history') = MaxHistory
                        /\ \A i \in 1..Len(history') : order'[d] < order'[history'[i].command]
      BY DEF MissingAreOlder
    <3>1. d # c
      BY <2>2, <2>4 DEF IsListed
    <3>2. answer[d] \in Remembered /\ order'[d] = order[d]
      BY <1>1, <3>1
    <3>3. \A i \in 2..Len(history') : history[i - 1].command # d
      BY <2>2, <2>3 DEF IsListed
    <3>4. Len(history') = MaxHistory
      <4>1. CASE IsListed(d)
        <5>1. PICK k \in 1..Len(history) : history[k].command = d
          BY <4>1 DEF IsListed
        <5>2. CASE Len(history) < MaxHistory
          <6>1. k + 1 \in 2..Len(history') /\ (k + 1) - 1 = k
            BY <1>0, <2>1, <5>1, <5>2
          <6> QED
            BY <3>3, <5>1, <6>1
        <5> QED
          BY <2>1, <5>2
      <4>2. CASE ~IsListed(d)
        <5>1. Len(history) = MaxHistory
          BY <3>2, <4>2 DEF MissingAreOlder
        <5> QED
          BY <2>1, <2>2, <5>1
      <4> QED
        BY <4>1, <4>2
    <3>5. ASSUME NEW i \in 2..Len(history') PROVE order[d] < order[history[i - 1].command]
      <4>1. i - 1 \in 1..Len(history)
        BY <2>3
      <4>2. CASE IsListed(d)
        <5>1. PICK k \in 1..Len(history) : history[k].command = d
          BY <4>2 DEF IsListed
        <5>2. k \notin 1..(Len(history') - 1)
          <6>1. CASE k \in 1..(Len(history') - 1)
            <7>1. k + 1 \in 2..Len(history') /\ (k + 1) - 1 = k
              BY <2>2, <6>1
            <7> QED
              BY <3>3, <5>1, <7>1
          <6> QED
            BY <6>1
        <5>3. i - 1 < k
          BY <2>2, <5>1, <5>2
        <5> QED
          BY <4>1, <5>1, <5>3 DEF ListedInOrder
      <4>3. CASE ~IsListed(d)
        BY <3>2, <4>1, <4>3 DEF MissingAreOlder
      <4> QED
        BY <4>2, <4>3
    <3>6. ASSUME NEW i \in 1..Len(history') PROVE order'[d] < order'[history'[i].command]
      <4>1. CASE i = 1
        BY <1>1, <2>4, <3>2, <4>1
      <4>2. CASE i # 1
        BY <2>2, <2>3, <3>2, <3>5, <4>2
      <4> QED
        BY <4>1, <4>2
    <3> QED
      BY <3>4, <3>6
  <2> QED
    BY <1>2, <2>5, <2>6, <2>7
<1> QED
  BY <1>4, <1>5

LEMMA HistoryStep ==
    ASSUME HistoryInv, TypeOK', [Next]_vars
    PROVE  HistoryInv'
<1>0. TypeOK /\ "none" \notin Replies
  BY ControlBoardAssumption DEF HistoryInv
<1>1. ASSUME UNCHANGED <<answer, ack, history, order, written, said, phase>>
      PROVE  HistoryInv'
  BY <1>1 DEF HistoryInv, UnansweredHasNone, AckIsOwnReply, ListedAsAnswered, ListedInOrder,
              MissingAreOlder, IsListed
<1>2. CASE UNCHANGED vars
  BY <1>1, <1>2 DEF vars, board, answers
<1>3. CASE Tick
  BY <1>1, <1>3 DEF Tick, board, answers
<1>4. ASSUME NEW c \in Commands,
             \/ Reject(c) \/ DryRun(c) \/ AckArrives(c) \/ TimedOut(c) \/ SocketError(c)
      PROVE  HistoryInv'
  <2>1. phase[c] # "answered" /\ said[c] \in Heard
    BY <1>0, <1>4 DEF Reject, DryRun, AckArrives, TimedOut, TimerFires, SocketError, Open, TypeOK
  <2>2. (phase[c] = "none" => c \notin written) /\ (phase[c] = "connected" => c \in written)
    BY DEF HistoryInv, UnansweredHasNone
  <2>3. \E status \in Remembered \cup {"rejected"}, reply \in Heard :
           /\ Answer(c, status, reply)
           /\ status = "ack-received" => c \in written /\ reply = said[c] /\ reply # "none"
           /\ status # "ack-received" => reply = "none"
           /\ status \in {"rejected", "dry-run"} => c \notin written
    BY <1>4, <2>1, <2>2
       DEF Reject, DryRun, AckArrives, TimedOut, TimeoutStatus, SocketError, Remembered, Heard
  <2> QED
    BY <2>1, <2>3, AnswerHistory
<1>5. ASSUME NEW c \in Commands, UNCHANGED <<answer, ack, history, order>>,
             written \subseteq written', UnansweredHasNone',
             \A d \in Commands : answer[d] = "ack-received" => said'[d] = said[d],
             \A d \in Commands : answer[d] \in {"rejected", "dry-run"} =>
                                    (d \in written' => d \in written)
      PROVE  HistoryInv'
  <2>1. AckIsOwnReply'
    BY <1>5 DEF HistoryInv, AckIsOwnReply
  <2>2. ListedAsAnswered' /\ ListedInOrder' /\ MissingAreOlder'
    BY <1>5 DEF HistoryInv, ListedAsAnswered, ListedInOrder, MissingAreOlder, IsListed
  <2> QED
    BY <1>5, <2>1, <2>2 DEF HistoryInv
<1>6. ASSUME NEW c \in Commands,
             Connect(c) \/ Connected(c) \/ BoardCloses(c) \/ BoardSends(c)
      PROVE  HistoryInv'
  <2>1. phase[c] # "answered" /\ answer[c] = "none" /\ UNCHANGED <<answer, ack, history, order>>
    BY <1>6 DEF Connect, Connected, BoardCloses, BoardSends, answers, HistoryInv,
                UnansweredHasNone
  <2>2. /\ written \subseteq written'
        /\ \A d \in Commands : d # c => said'[d] = said[d] /\ phase'[d] = phase[d]
                                        /\ (d \in written' => d \in written)
    BY <1>0, <1>6 DEF Connect, Connected, BoardCloses, BoardSends, board, TypeOK
  <2>3. UnansweredHasNone'
    BY <1>0, <1>6, <2>1, <2>2 DEF Connect, Connected, BoardCloses, BoardSends, board, TypeOK,
                                  HistoryInv, UnansweredHasNone
  <2> QED
    BY <1>5, <2>1, <2>2, <2>3
<1> QED
  BY <1>2, <1>3, <1>4, <1>6 DEF Next

LEMMA HistoryInvariant == Spec => []HistoryInv
<1>1. Init => HistoryInv
  <2> SUFFICES ASSUME Init PROVE HistoryInv
    OBVIOUS
  <2>1. TypeOK
    BY WaitInit DEF WaitInv
  <2>2. history = << >> /\ \A c \in Commands : answer[c] = "none"
    BY DEF Init
  <2>3. 1..Len(history) = {}
    BY <2>2
  <2>4. UnansweredHasNone /\ AckIsOwnReply
    BY DEF Init, UnansweredHasNone, AckIsOwnReply
  <2>5. ListedAsAnswered /\ ListedInOrder /\ MissingAreOlder
    BY <2>2, <2>3 DEF ListedAsAnswered, ListedInOrder, MissingAreOlder, Remembered
  <2> QED
    BY <2>1, <2>4, <2>5 DEF HistoryInv
<1>2. HistoryInv /\ [Next]_vars /\ TypeOK' => HistoryInv'
  BY HistoryStep
<1> QED
  BY <1>1, <1>2, TypeCorrect, PTL DEF Spec

\* What a caller is told comes from his own connection, whatever the board sends on it and
\* whatever the other commands and their timers do.
THEOREM RepliesAreTrue == Spec => []AckIsOwnReply
BY HistoryInvariant, PTL DEF HistoryInv

\* The history is the last answers, the newest first, each as its caller was given it.
THEOREM HistoryIsTrue == Spec => []HistoryIsComplete
<1>1. HistoryInv => HistoryIsComplete
  <2> SUFFICES ASSUME HistoryInv PROVE HistoryIsComplete
    OBVIOUS
  <2> DEFINE listed == {history[i].command : i \in 1..Len(history)}
  <2>1. \A c \in Commands : answer[c] \in Remembered =>
           \/ c \in listed
           \/ Len(history) = MaxHistory /\ \A d \in listed : order[c] < order[d]
    BY DEF HistoryInv, MissingAreOlder, IsListed
  <2> QED
    BY <2>1 DEF HistoryInv, ListedAsAnswered, ListedInOrder, HistoryIsComplete
<1> QED
  BY <1>1, HistoryInvariant, PTL
=============================================================================
