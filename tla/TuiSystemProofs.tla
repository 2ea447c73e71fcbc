--------------------------- MODULE TuiSystemProofs ---------------------------
(***************************************************************************)
(* Proofs about the dashboard with its installation task (module         *)
(* TuiSystem), for every number of rows and simulated steps: the state     *)
(* stays well typed and the dashboard never shows two rows in progress,    *)
(* however far the one-message-per-tick loop lags behind the task.         *)
(***************************************************************************)
EXTENDS TuiSystem, TuiAppProofs

(***************************************************************************)
(* The task sends a fixed sequence: message 2i+1 is StartStep(i), message  *)
(* 2i+2 CompleteStep(i) for i < SimSteps, then UpdateStatus and Exit.      *)
(***************************************************************************)
MsgAt(p) ==
  IF p = 2 * SimSteps + 1 THEN StatusMsg
  ELSE IF p = 2 * SimSteps + 2 THEN ExitMsg
  ELSE IF p % 2 = 1 THEN Msg("start", (p - 1) \div 2)
  ELSE Msg("complete", (p - 2) \div 2)

(* How many messages the task has sent, read off its program counter. *)
Sent ==
  CASE epc = "start"                     -> 2 * ei
    [] epc = "complete"                  -> 2 * ei + 1
    [] epc = "exit"                      -> 2 * SimSteps + 1
    [] epc = "done" /\ eresult = "ok"    -> 2 * SimSteps + 2
    [] OTHER                             -> 0

(* The messages the dashboard has taken from the channel. *)
Recvd == Sent - Len(chan)

(* The rows after the first k messages have been handled. *)
RowsAfter(k) ==
  [r \in Rows |-> IF r < SimSteps /\ 2 * r + 2 <= k THEN Done
                  ELSE IF r < SimSteps /\ 2 * r + 1 <= k THEN Started
                  ELSE Pending]

(***************************************************************************)
(* The inductive invariant.  AtMostOneInProgress is not inductive: a       *)
(* StartStep in the channel would start a second row unless the channel   *)
(* is known to hold the CompleteStep of the row in progress first.  SInv   *)
(* says that the channel holds exactly the messages Recvd+1 .. Sent of the *)
(* sequence, and that the rows are those the first Recvd produce.          *)
(***************************************************************************)
TaskOK ==
  /\ epc \in {"idle", "load", "start", "complete", "exit", "done"}
  /\ ei \in 0..SimSteps
  /\ eresult \in {"none", "ok", "err"}
  /\ epc = "complete" => ei < SimSteps
  /\ epc = "done" => eresult \in {"ok", "err"}
  /\ epc \in {"idle", "load"} => ei = 0

ChanOK ==
  /\ AppTypeOK
  /\ AggregateMatches
  /\ chan \in Seq(Messages)
  /\ Len(chan) <= Sent
  /\ \A j \in 1..Len(chan) : chan[j] = MsgAt(Recvd + j)
  /\ rows = RowsAfter(Recvd)
  /\ quit = (Recvd = 2 * SimSteps + 2)

LoopOK ==
  /\ opc \in {"setup", "draw", "recv", "poll", "check", "await", "cleanup", "returned"}
  /\ term \in BOOLEAN
  /\ keyQuit \in BOOLEAN
  /\ oresult \in {"none", "ok", "err"}

SInv == TaskOK /\ ChanOK /\ LoopOK /\ (opc = "setup" => epc = "idle")

LEMMA SInvType == SInv => TuiTypeOK
  BY DEF SInv, TaskOK, ChanOK, LoopOK, TuiTypeOK

LEMMA SentRange == TaskOK => Sent \in 0..2 * SimSteps + 2
  BY SimStepsAssumption DEF TaskOK, Sent

LEMMA MsgAtType ==
  ASSUME NEW p \in 1..2 * SimSteps + 2
  PROVE  MsgAt(p) \in Messages
<1>1. CASE p \in {2 * SimSteps + 1, 2 * SimSteps + 2}
  BY <1>1, SimStepsAssumption DEF MsgAt, Messages
<1>2. CASE p \notin {2 * SimSteps + 1, 2 * SimSteps + 2} /\ p % 2 = 1
  <2>1. (p - 1) \div 2 \in 0..SimSteps - 1
    BY <1>2, SimStepsAssumption
  <2>2. QED
    BY <1>2, <2>1 DEF MsgAt, Messages, Msg
<1>3. CASE p \notin {2 * SimSteps + 1, 2 * SimSteps + 2} /\ p % 2 # 1
  <2>1. (p - 2) \div 2 \in 0..SimSteps - 1
    BY <1>3, SimStepsAssumption
  <2>2. QED
    BY <1>3, <2>1 DEF MsgAt, Messages, Msg
<1>4. QED
  BY <1>1, <1>2, <1>3

LEMMA InitSInv == TInit => SInv
<1> SUFFICES ASSUME TInit PROVE SInv
  OBVIOUS
<1>1. PInv
  BY InitPInv DEF TInit
<1>2. Sent = 0 /\ Recvd = 0
  BY DEF TInit, Sent, Recvd
<1>3. rows = RowsAfter(0)
  BY SimStepsAssumption DEF TInit, AppInit, RowsAfter
<1>4. quit = (Recvd = 2 * SimSteps + 2)
  <2>1. quit = FALSE
    BY Zenon DEF TInit, AppInit
  <2>2. Recvd # 2 * SimSteps + 2
    BY <1>2, SimStepsAssumption
  <2>3. QED
    BY <2>1, <2>2, Zenon
<1>5. ChanOK
  BY <1>1, <1>2, <1>3, <1>4 DEF TInit, ChanOK, PInv
<1>6. TaskOK
  BY SimStepsAssumption DEF TInit, TaskOK
<1>7. LoopOK
  BY Zenon DEF TInit, LoopOK
<1>8. QED
  BY <1>5, <1>6, <1>7 DEF TInit, SInv

(***************************************************************************)
(* The task's sends: each appends the next message of the sequence, so    *)
(* what the dashboard has received, and the rows, stay as they were.      *)
(***************************************************************************)
LEMMA SendKeeps ==
  ASSUME ChanOK, TaskOK, Sent < 2 * SimSteps + 2, Sent' = Sent + 1,
         chan' = Append(chan, MsgAt(Sent + 1)), UNCHANGED appVars
  PROVE  ChanOK'
<1>1. Sent \in 0..2 * SimSteps + 2 /\ chan \in Seq(Messages) /\ Len(chan) <= Sent
  BY SentRange DEF ChanOK
<1>2. Recvd' = Recvd
  BY <1>1 DEF Recvd
<1>3. MsgAt(Sent + 1) \in Messages
  BY <1>1, MsgAtType, SimStepsAssumption
<1>4. chan' \in Seq(Messages) /\ Len(chan') = Len(chan) + 1
  BY <1>1, <1>3
<1>5. \A j \in 1..Len(chan') : chan'[j] = MsgAt(Recvd' + j)
  BY <1>1, <1>2, <1>4 DEF ChanOK, Recvd
<1>6. rows' = RowsAfter(Recvd')
  BY <1>2 DEF ChanOK, appVars
<1>7. quit' = (Recvd' = 2 * SimSteps + 2)
  BY <1>2, Zenon DEF ChanOK, appVars
<1>8. AppTypeOK' /\ AggregateMatches'
  BY DEF ChanOK, appVars, AppTypeOK, AggregateMatches
<1>9. Len(chan') <= Sent'
  BY <1>1, <1>4
<1>10. QED
  BY <1>4, <1>5, <1>6, <1>7, <1>8, <1>9 DEF ChanOK

(* The sent count of each point of the task's program. *)
LEMMA SentAt ==
  /\ epc = "start" => Sent = 2 * ei
  /\ epc = "complete" => Sent = 2 * ei + 1
  /\ epc = "exit" => Sent = 2 * SimSteps + 1
  /\ (epc = "done" /\ eresult = "ok") => Sent = 2 * SimSteps + 2
  /\ (epc \in {"idle", "load"} \/ (epc = "done" /\ eresult # "ok")) => Sent = 0
  BY DEF Sent

(* One lemma per action of the task. *)

LEMMA TaskStartSInv == SInv /\ TaskStart => SInv'
<1> SUFFICES ASSUME SInv, TaskStart PROVE SInv'
  OBVIOUS
<1>1. ei \in 0..SimSteps - 1 /\ epc = "start" /\ ei' = ei /\ epc' = "complete"
  BY SimStepsAssumption DEF SInv, TaskOK, TaskStart
<1>2. Sent = 2 * ei /\ Sent' = 2 * ei + 1
  <2>1. Sent = 2 * ei
    BY <1>1, SentAt
  <2>2. Sent' = 2 * ei + 1
    BY <1>1 DEF Sent, TaskStart
  <2>3. QED
    BY <2>1, <2>2
<1>3. MsgAt(Sent + 1) = Msg("start", ei)
  BY <1>1, <1>2, SimStepsAssumption DEF MsgAt
<1>4. ChanOK'
  BY <1>1, <1>2, <1>3, SendKeeps, SimStepsAssumption DEF TaskStart, SInv
<1>5. TaskOK'
  BY <1>1, SimStepsAssumption DEF SInv, TaskOK, TaskStart
<1>6. LoopOK' /\ opc' = opc /\ epc # "idle"
  BY DEF SInv, LoopOK, TaskStart, loopVars
<1>7. QED
  BY <1>4, <1>5, <1>6 DEF SInv

LEMMA TaskCompleteSInv == SInv /\ TaskComplete => SInv'
<1> SUFFICES ASSUME SInv, TaskComplete PROVE SInv'
  OBVIOUS
<1>1. ei \in 0..SimSteps - 1 /\ epc = "complete" /\ ei' = ei + 1 /\ epc' = "start"
  BY SimStepsAssumption DEF SInv, TaskOK, TaskComplete
<1>2. Sent = 2 * ei + 1 /\ Sent' = 2 * ei + 2
  <2>1. Sent = 2 * ei + 1
    BY <1>1, SentAt
  <2>2. Sent' = 2 * ei + 2
    BY <1>1 DEF Sent, TaskComplete
  <2>3. QED
    BY <2>1, <2>2
<1>3. MsgAt(Sent + 1) = Msg("complete", ei)
  BY <1>1, <1>2, SimStepsAssumption DEF MsgAt
<1>4. ChanOK'
  BY <1>1, <1>2, <1>3, SendKeeps, SimStepsAssumption DEF TaskComplete, SInv
<1>5. TaskOK'
  BY <1>1, SimStepsAssumption DEF SInv, TaskOK, TaskComplete
<1>6. LoopOK' /\ opc' = opc /\ epc # "idle"
  BY DEF SInv, LoopOK, TaskComplete, loopVars
<1>7. QED
  BY <1>4, <1>5, <1>6 DEF SInv

LEMMA TaskStatusSInv == SInv /\ TaskStatus => SInv'
<1> SUFFICES ASSUME SInv, TaskStatus PROVE SInv'
  OBVIOUS
<1>1. ei = SimSteps /\ epc = "start" /\ ei' = ei /\ epc' = "exit"
  BY SimStepsAssumption DEF SInv, TaskOK, TaskStatus
<1>2. Sent = 2 * SimSteps /\ Sent' = 2 * SimSteps + 1
  <2>1. Sent = 2 * SimSteps
    BY <1>1, SentAt
  <2>2. Sent' = 2 * SimSteps + 1
    BY <1>1 DEF Sent, TaskStatus
  <2>3. QED
    BY <2>1, <2>2
<1>3. MsgAt(Sent + 1) = StatusMsg
  BY <1>1, <1>2, SimStepsAssumption DEF MsgAt
<1>4. ChanOK'
  BY <1>1, <1>2, <1>3, SendKeeps, SimStepsAssumption DEF TaskStatus, SInv
<1>5. TaskOK'
  BY <1>1, SimStepsAssumption DEF SInv, TaskOK, TaskStatus
<1>6. LoopOK' /\ opc' = opc /\ epc # "idle"
  BY DEF SInv, LoopOK, TaskStatus, loopVars
<1>7. QED
  BY <1>4, <1>5, <1>6 DEF SInv

LEMMA TaskExitSInv == SInv /\ TaskExit => SInv'
<1> SUFFICES ASSUME SInv, TaskExit PROVE SInv'
  OBVIOUS
<1>1. epc = "exit" /\ eresult' = "ok" /\ epc' = "done"
  BY SimStepsAssumption DEF SInv, TaskOK, TaskExit
<1>2. Sent = 2 * SimSteps + 1 /\ Sent' = 2 * SimSteps + 2
  <2>1. Sent = 2 * SimSteps + 1
    BY <1>1, SentAt
  <2>2. Sent' = 2 * SimSteps + 2
    BY <1>1 DEF Sent, TaskExit
  <2>3. QED
    BY <2>1, <2>2
<1>3. MsgAt(Sent + 1) = ExitMsg
  BY <1>1, <1>2, SimStepsAssumption DEF MsgAt
<1>4. ChanOK'
  BY <1>1, <1>2, <1>3, SendKeeps, SimStepsAssumption DEF TaskExit, SInv
<1>5. TaskOK'
  BY <1>1, SimStepsAssumption DEF SInv, TaskOK, TaskExit
<1>6. LoopOK' /\ opc' = opc /\ epc # "idle"
  BY DEF SInv, LoopOK, TaskExit, loopVars
<1>7. QED
  BY <1>4, <1>5, <1>6 DEF SInv

(* Loading the configuration sends nothing. *)
LEMMA TaskLoadSInv == SInv /\ TaskLoad => SInv'
<1> SUFFICES ASSUME SInv, TaskLoad PROVE SInv'
  OBVIOUS
<1>1. /\ epc = "load" /\ ei = 0 /\ UNCHANGED <<ei, chan, appVars>>
      /\ \/ epc' = "start" /\ eresult' = eresult
         \/ epc' = "done" /\ eresult' = "err"
  BY DEF SInv, TaskOK, TaskLoad
<1>2. Sent = 0 /\ Sent' = 0
  <2>1. Sent = 0
    BY <1>1, SentAt
  <2>2. Sent' = 0
    BY <1>1 DEF Sent
  <2>3. QED
    BY <2>1, <2>2
<1>3. Recvd' = Recvd /\ chan = << >>
  BY <1>1, <1>2 DEF SInv, ChanOK, Recvd
<1>4. ChanOK'
  <2>1. rows' = RowsAfter(Recvd') /\ AppTypeOK' /\ AggregateMatches'
    BY <1>1, <1>3 DEF SInv, ChanOK, appVars, AppTypeOK, AggregateMatches
  <2>2. quit' = (Recvd' = 2 * SimSteps + 2)
    BY <1>1, <1>3, Zenon DEF SInv, ChanOK, appVars
  <2>3. QED
    BY <1>1, <1>2, <1>3, <2>1, <2>2 DEF SInv, ChanOK
<1>5. TaskOK'
  BY <1>1, SimStepsAssumption DEF SInv, TaskOK
<1>6. LoopOK' /\ opc' = opc
  BY DEF SInv, LoopOK, TaskLoad, loopVars
<1>7. QED
  BY <1>1, <1>4, <1>5, <1>6 DEF SInv

(* A step of the dashboard that takes no message leaves the rest alone. *)
LEMMA LoopKeeps ==
  ASSUME SInv, UNCHANGED <<appVars, chan, taskVars>>, LoopOK', opc' # "setup"
  PROVE  SInv'
<1>1. Sent' = Sent /\ Recvd' = Recvd
  BY DEF taskVars, Sent, Recvd
<1>2. TaskOK'
  BY DEF SInv, TaskOK, taskVars
<1>3. ChanOK'
  <2>1. rows' = RowsAfter(Recvd') /\ AppTypeOK' /\ AggregateMatches'
        /\ chan' \in Seq(Messages) /\ Len(chan') <= Sent'
        /\ \A j \in 1..Len(chan') : chan'[j] = MsgAt(Recvd' + j)
    BY <1>1 DEF SInv, ChanOK, appVars, AppTypeOK, AggregateMatches
  <2>2. quit' = (Recvd' = 2 * SimSteps + 2)
    BY <1>1, Zenon DEF SInv, ChanOK, appVars
  <2>3. QED
    BY <2>1, <2>2 DEF ChanOK
<1>4. QED
  BY <1>2, <1>3 DEF SInv

(* One lemma per action of the dashboard loop. *)
LEMMA SetupSInv == SInv /\ Setup => SInv'
<1> SUFFICES ASSUME SInv, Setup PROVE SInv'
  OBVIOUS
<1>1. epc = "idle" /\ ei = 0 /\ chan = << >> /\ UNCHANGED <<appVars, chan, ei, eresult>>
  <2>1. epc = "idle" /\ ei = 0
    BY DEF SInv, TaskOK, Setup
  <2>2. Sent = 0
    BY <2>1, SentAt
  <2>3. QED
    BY <2>1, <2>2 DEF SInv, ChanOK, Setup
<1>2. epc' \in {"idle", "load"} /\ opc' # "setup"
  BY <1>1 DEF Setup, Return
<1>3. Sent' = 0 /\ Recvd' = 0
  BY <1>1, <1>2 DEF Sent, Recvd
<1>4. TaskOK'
  BY <1>1, <1>2 DEF SInv, TaskOK
<1>5. ChanOK'
  <2>1. Recvd = 0
    BY <1>1, SentAt DEF Recvd
  <2>2. rows' = RowsAfter(Recvd') /\ AppTypeOK' /\ AggregateMatches'
        /\ chan' \in Seq(Messages) /\ Len(chan') <= Sent'
        /\ \A j \in 1..Len(chan') : chan'[j] = MsgAt(Recvd' + j)
    BY <1>1, <1>3, <2>1 DEF SInv, ChanOK, appVars, AppTypeOK, AggregateMatches
  <2>3. quit' = (Recvd' = 2 * SimSteps + 2)
    BY <1>1, <1>3, <2>1, Zenon DEF SInv, ChanOK, appVars
  <2>4. QED
    BY <2>2, <2>3 DEF ChanOK
<1>6. LoopOK'
  BY Zenon DEF SInv, LoopOK, Setup, Return
<1>7. QED
  BY <1>2, <1>4, <1>5, <1>6 DEF SInv

LEMMA DrawSInv == SInv /\ Draw => SInv'
<1> SUFFICES ASSUME SInv, Draw PROVE SInv'
  OBVIOUS
<1>1. UNCHANGED <<appVars, chan, taskVars>> /\ opc' # "setup"
  BY DEF Draw, Return
<1>2. LoopOK'
  BY Zenon DEF SInv, LoopOK, AppTypeOK, ChanOK, Draw, Return
<1>3. QED
  BY <1>1, <1>2, LoopKeeps

LEMMA PollSInv == SInv /\ Poll => SInv'
<1> SUFFICES ASSUME SInv, Poll PROVE SInv'
  OBVIOUS
<1>1. UNCHANGED <<appVars, chan, taskVars>> /\ opc' # "setup"
  BY DEF Poll, Return
<1>2. LoopOK'
  BY Zenon DEF SInv, LoopOK, AppTypeOK, ChanOK, Poll, Return
<1>3. QED
  BY <1>1, <1>2, LoopKeeps

LEMMA CheckQuitSInv == SInv /\ CheckQuit => SInv'
<1> SUFFICES ASSUME SInv, CheckQuit PROVE SInv'
  OBVIOUS
<1>1. UNCHANGED <<appVars, chan, taskVars>> /\ opc' # "setup"
  BY DEF CheckQuit, Return
<1>2. LoopOK'
  BY Zenon DEF SInv, LoopOK, AppTypeOK, ChanOK, CheckQuit, Return
<1>3. QED
  BY <1>1, <1>2, LoopKeeps

LEMMA AwaitTaskSInv == SInv /\ AwaitTask => SInv'
<1> SUFFICES ASSUME SInv, AwaitTask PROVE SInv'
  OBVIOUS
<1>1. UNCHANGED <<appVars, chan, taskVars>> /\ opc' # "setup"
  BY DEF AwaitTask, Return
<1>2. LoopOK'
  BY Zenon DEF SInv, LoopOK, AppTypeOK, ChanOK, AwaitTask, Return
<1>3. QED
  BY <1>1, <1>2, LoopKeeps

LEMMA CleanupSInv == SInv /\ Cleanup => SInv'
<1> SUFFICES ASSUME SInv, Cleanup PROVE SInv'
  OBVIOUS
<1>1. UNCHANGED <<appVars, chan, taskVars>> /\ opc' # "setup"
  BY DEF Cleanup, Return
<1>2. LoopOK'
  BY Zenon DEF SInv, LoopOK, AppTypeOK, ChanOK, Cleanup, Return
<1>3. QED
  BY <1>1, <1>2, LoopKeeps

(***************************************************************************)
(* What each message of the sequence does to RowsAfter: StartStep(i) and   *)
(* CompleteStep(i) change row i only (if it exists), UpdateStatus and     *)
(* Exit change no row.                                                     *)
(***************************************************************************)
LEMMA RowsAfterStart ==
  ASSUME NEW i \in 0..SimSteps - 1
  PROVE  RowsAfter(2 * i + 1) =
           IF i \in Rows THEN [RowsAfter(2 * i) EXCEPT ![i] = Started]
                         ELSE RowsAfter(2 * i)
<1>1. \A r \in Rows : r # i =>
        RowsAfter(2 * i + 1)[r] = RowsAfter(2 * i)[r]
  BY SimStepsAssumption, NRowsAssumption DEF RowsAfter, Rows
<1>2. i \in Rows => RowsAfter(2 * i + 1)[i] = Started
  BY SimStepsAssumption, NRowsAssumption DEF RowsAfter, Rows
<1>3. CASE i \in Rows
  BY <1>1, <1>2, <1>3 DEF RowsAfter
<1>4. CASE i \notin Rows
  BY <1>1, <1>4 DEF RowsAfter
<1>5. QED
  BY <1>3, <1>4

LEMMA RowsAfterComplete ==
  ASSUME NEW i \in 0..SimSteps - 1
  PROVE  RowsAfter(2 * i + 2) =
           IF i \in Rows THEN [RowsAfter(2 * i + 1) EXCEPT ![i] = Done]
                         ELSE RowsAfter(2 * i + 1)
<1>1. \A r \in Rows : r # i =>
        RowsAfter(2 * i + 2)[r] = RowsAfter(2 * i + 1)[r]
  BY SimStepsAssumption, NRowsAssumption DEF RowsAfter, Rows
<1>2. i \in Rows => RowsAfter(2 * i + 2)[i] = Done
  BY SimStepsAssumption, NRowsAssumption DEF RowsAfter, Rows
<1>3. CASE i \in Rows
  BY <1>1, <1>2, <1>3 DEF RowsAfter
<1>4. CASE i \notin Rows
  BY <1>1, <1>4 DEF RowsAfter
<1>5. QED
  BY <1>3, <1>4

LEMMA RowsAfterEnd ==
  /\ RowsAfter(2 * SimSteps + 1) = RowsAfter(2 * SimSteps)
  /\ RowsAfter(2 * SimSteps + 2) = RowsAfter(2 * SimSteps + 1)
  BY SimStepsAssumption DEF RowsAfter, Rows

(* Message 2i+1 of the sequence starts row i, message 2i+2 completes it. *)
LEMMA MsgAtStep ==
  ASSUME NEW i \in 0..SimSteps - 1
  PROVE  /\ MsgAt(2 * i + 1) = Msg("start", i)
         /\ MsgAt(2 * i + 2) = Msg("complete", i)
  BY SimStepsAssumption DEF MsgAt

(* Taking message Recvd + 1 from the channel moves the rows to those the  *)
(* first Recvd + 1 messages produce.                                       *)
LEMMA RecvSInv == SInv /\ Recv => SInv'
<1> SUFFICES ASSUME SInv, Recv PROVE SInv'
  OBVIOUS
<1>1. TaskOK' /\ LoopOK' /\ opc' # "setup"
  BY DEF Recv, SInv, TaskOK, LoopOK, taskVars
<1>2. CASE chan = << >>
  BY <1>1, <1>2, LoopKeeps DEF Recv
<1>3. CASE chan # << >>
  <2> DEFINE p == Recvd + 1
  <2>1. Sent \in 0..2 * SimSteps + 2 /\ chan \in Seq(Messages)
        /\ Len(chan) \in 1..Sent
    BY <1>3, SentRange DEF SInv, ChanOK
  <2>2. p \in 1..2 * SimSteps + 2 /\ Recvd \in Nat
    BY <2>1, SimStepsAssumption DEF Recvd
  <2>3. Head(chan) = MsgAt(p)
    BY <2>1 DEF SInv, ChanOK
  <2>4. Sent' = Sent /\ chan' = Tail(chan) /\ Recvd' = p
    BY <1>3, <2>1 DEF Recv, Sent, Recvd, taskVars
  <2>5. /\ chan' \in Seq(Messages) /\ Len(chan') <= Sent'
        /\ \A j \in 1..Len(chan') : chan'[j] = MsgAt(Recvd' + j)
    <3>1. chan' \in Seq(Messages) /\ Len(chan') = Len(chan) - 1
      BY <2>1, <2>4
    <3>2. \A j \in 1..Len(chan) : chan[j] = MsgAt(Recvd + j)
      BY DEF SInv, ChanOK
    <3>3. \A j \in 1..Len(chan') : chan'[j] = MsgAt(p + j)
      BY <2>1, <2>2, <2>4, <3>1, <3>2
    <3>4. QED
      BY <2>1, <2>4, <3>1, <3>3
  <2>6. HandleMessage(MsgAt(p))
    BY <1>3, <2>3 DEF Recv
  <2>7. PInv /\ rows = RowsAfter(Recvd) /\ quit = (Recvd = 2 * SimSteps + 2)
    BY DEF SInv, ChanOK, PInv
  <2>8. rows' = RowsAfter(p) /\ quit' = (p = 2 * SimSteps + 2) /\ PInv'
    <3>1. CASE p = 2 * SimSteps + 1
      <4>1. UNCHANGED appVars
        BY <2>6, <3>1 DEF MsgAt, HandleMessage, StatusMsg
      <4>5. Recvd = 2 * SimSteps
        BY <2>2, <3>1, SimStepsAssumption
      <4>2. rows' = RowsAfter(p)
        BY <2>7, <3>1, <4>1, <4>5, RowsAfterEnd DEF appVars
      <4>3. quit' = (p = 2 * SimSteps + 2)
        BY <2>7, <3>1, <4>1, SimStepsAssumption DEF appVars
      <4>4. QED
        BY <2>7, <4>1, <4>2, <4>3 DEF PInv, AppTypeOK, AggregateMatches,
                                      CompletedCount, appVars
    <3>2. CASE p = 2 * SimSteps + 2
      <4>1. HandleExit
        BY <2>6, <3>2, SimStepsAssumption DEF MsgAt, HandleMessage, ExitMsg
      <4>5. Recvd = 2 * SimSteps + 1
        BY <2>2, <3>2, SimStepsAssumption
      <4>2. rows' = RowsAfter(p)
        BY <2>7, <3>2, <4>1, <4>5, RowsAfterEnd DEF HandleExit
      <4>3. quit' = (p = 2 * SimSteps + 2)
        BY <3>2, <4>1 DEF HandleExit
      <4>4. QED
        BY <2>7, <4>1, <4>2, <4>3 DEF PInv, AppTypeOK, AggregateMatches,
                                      CompletedCount, HandleExit
    <3>3. CASE p < 2 * SimSteps + 1 /\ p % 2 = 1
      <4> DEFINE i == (p - 1) \div 2
      <4>1. i \in 0..SimSteps - 1 /\ p = 2 * i + 1 /\ Recvd = 2 * i
        BY <2>2, <3>3, SimStepsAssumption
      <4>2. MsgAt(p) = Msg("start", i)
        BY <4>1, MsgAtStep
      <4>3. StartStep(i)
        BY <2>6, <4>2 DEF HandleMessage, Msg
      <4>4. PInv'
        BY <2>7, <4>3, StartStepPInv
      <4>5. rows' = RowsAfter(p)
        BY <2>7, <4>1, <4>3, RowsAfterStart DEF StartStep, appVars
      <4>6. quit' = quit /\ quit = FALSE /\ p # 2 * SimSteps + 2
        <5>1. quit' = quit
          BY <4>3, Zenon DEF StartStep, appVars
        <5>2. Recvd # 2 * SimSteps + 2 /\ p # 2 * SimSteps + 2
          BY <4>1, SimStepsAssumption
        <5>3. quit = FALSE
          BY <2>7, <5>2
        <5>4. QED
          BY <5>1, <5>2, <5>3
      <4>7. QED
        BY <4>4, <4>5, <4>6
    <3>4. CASE p < 2 * SimSteps + 1 /\ p % 2 = 0
      <4> DEFINE i == (p - 2) \div 2
      <4>1. i \in 0..SimSteps - 1 /\ p = 2 * i + 2 /\ Recvd = 2 * i + 1
        BY <2>2, <3>4, SimStepsAssumption
      <4>2. MsgAt(p) = Msg("complete", i)
        BY <4>1, MsgAtStep
      <4>3. CompleteStep(i)
        BY <2>6, <4>2 DEF HandleMessage, Msg
      <4>4. PInv'
        BY <2>7, <4>3, CompleteStepPInv
      <4>5. rows' = RowsAfter(p)
        BY <2>7, <4>1, <4>3, RowsAfterComplete DEF CompleteStep, appVars
      <4>6. quit' = quit /\ quit = FALSE /\ p # 2 * SimSteps + 2
        <5>1. quit' = quit
          BY <4>3, Zenon DEF CompleteStep, appVars
        <5>2. Recvd # 2 * SimSteps + 2 /\ p # 2 * SimSteps + 2
          BY <4>1, SimStepsAssumption
        <5>3. quit = FALSE
          BY <2>7, <5>2
        <5>4. QED
          BY <5>1, <5>2, <5>3
      <4>7. QED
        BY <4>4, <4>5, <4>6
    <3>5. \/ p = 2 * SimSteps + 1 \/ p = 2 * SimSteps + 2
          \/ p < 2 * SimSteps + 1 /\ p % 2 = 1
          \/ p < 2 * SimSteps + 1 /\ p % 2 = 0
      BY <2>2, SimStepsAssumption
    <3>6. QED
      BY <3>1, <3>2, <3>3, <3>4, <3>5
  <2>9. ChanOK'
    BY <2>4, <2>5, <2>8 DEF ChanOK, PInv
  <2>10. QED
    BY <1>1, <2>9 DEF SInv
<1>4. QED
  BY <1>2, <1>3

LEMMA StutterSInv == SInv /\ UNCHANGED tvars => SInv'
<1> SUFFICES ASSUME SInv, UNCHANGED tvars PROVE SInv'
  OBVIOUS
<1>1. Sent' = Sent /\ Recvd' = Recvd
  BY DEF tvars, taskVars, Sent, Recvd
<1>2. QED
  BY <1>1 DEF tvars, taskVars, loopVars, appVars, SInv, TaskOK, ChanOK, LoopOK,
              AppTypeOK, AggregateMatches, CompletedCount

LEMMA TNextSInv == SInv /\ [TNext]_tvars => SInv'
  BY TaskLoadSInv, TaskStartSInv, TaskCompleteSInv, TaskStatusSInv,
     TaskExitSInv, SetupSInv, DrawSInv, RecvSInv, PollSInv, CheckQuitSInv,
     AwaitTaskSInv, CleanupSInv, StutterSInv DEF TNext, TaskNext, LoopNext

THEOREM SInvariant == TSpec => []SInv
  BY InitSInv, TNextSInv, PTL DEF TSpec

-----------------------------------------------------------------------------

(* The dashboard and its task keep the channel, the rows and both program *)
(* counters within their types, whatever the interleaving.                *)
THEOREM TuiTypeCorrect == TSpec => []TuiTypeOK
  BY SInvariant, SInvType, PTL

(***************************************************************************)
(* Row r is in progress only after exactly the first 2r+1 messages have   *)
(* been handled: the StartStep of the row, not yet its CompleteStep.       *)
(***************************************************************************)
LEMMA InProgressRow ==
  ASSUME SInv, NEW r \in Rows, rows[r].in_progress
  PROVE  2 * r + 1 = Recvd
<1>1. rows[r] = RowsAfter(Recvd)[r]
  BY DEF SInv, ChanOK
<1>2. Pending.in_progress = FALSE /\ Done.in_progress = FALSE
      /\ Started.in_progress = TRUE
  BY DEF Pending, Done, Started
<1>3. RowsAfter(Recvd)[r] = Started
  BY <1>1, <1>2 DEF RowsAfter
<1>4. Recvd \in Int
  BY SentRange DEF SInv, ChanOK, Recvd
<1>5. QED
  BY <1>2, <1>3, <1>4, SimStepsAssumption DEF RowsAfter, Rows, Started, Done

(***************************************************************************)
(* Spec section 8: at most one row is shown in progress at a time, however *)
(* many StartStep and CompleteStep messages the task has queued ahead of   *)
(* the one-message-per-tick dashboard loop.                                *)
(***************************************************************************)
THEOREM AtMostOneInProgressThm == TSpec => []AtMostOneInProgress
<1>1. SInv => AtMostOneInProgress
  <2> SUFFICES ASSUME SInv
               PROVE  Cardinality({r \in Rows : rows[r].in_progress}) <= 1
    BY DEF AtMostOneInProgress
  <2> DEFINE InProg == {r \in Rows : rows[r].in_progress}
  <2>1. InProg \subseteq {(Recvd - 1) \div 2}
    <3>1. Recvd \in Int
      BY SentRange DEF SInv, ChanOK, Recvd
    <3>2. QED
      BY <3>1, InProgressRow DEF Rows
  <2>2. IsFiniteSet({(Recvd - 1) \div 2})
        /\ Cardinality({(Recvd - 1) \div 2}) = 1
    BY FS_Singleton
  <2>3. QED
    BY <2>1, <2>2, FS_Subset
<1>2. QED
  BY <1>1, SInvariant, PTL


(* Row r shows completed after the first k messages exactly when its      *)
(* CompleteStep, message 2r+2, is among them.                              *)
LEMMA CompletedAt ==
  ASSUME NEW k \in Int, NEW r \in Rows
  PROVE  RowsAfter(k)[r].completed <=> (r < SimSteps /\ 2 * r + 2 <= k)
  BY SimStepsAssumption DEF RowsAfter, Rows, Done, Started, Pending

(* One more handled message never lowers the number of completed rows. *)
LEMMA CompletedCountGrows ==
  ASSUME NEW k \in Int
  PROVE  CompletedCount(RowsAfter(k)) <= CompletedCount(RowsAfter(k + 1))
<1> DEFINE Before == {r \in Rows : RowsAfter(k)[r].completed}
           After  == {r \in Rows : RowsAfter(k + 1)[r].completed}
<1>1. Before \subseteq After
  BY CompletedAt DEF Rows
<1>2. IsFiniteSet(Rows)
  BY NRowsAssumption, FS_Interval DEF Rows
<1>3. IsFiniteSet(After)
  BY <1>2, FS_Subset
<1>4. QED
  BY <1>1, <1>3, FS_Subset DEF CompletedCount

(* The gauge counts a finite set of rows. *)
LEMMA DoneShownNat == SInv => doneShown \in Nat
<1> SUFFICES ASSUME SInv PROVE doneShown \in Nat
  OBVIOUS
<1>1. IsFiniteSet(Rows)
  BY NRowsAssumption, FS_Interval DEF Rows
<1>2. IsFiniteSet({r \in Rows : rows[r].completed})
  BY <1>1, FS_Subset
<1>3. QED
  BY <1>2, FS_CardinalityType DEF SInv, ChanOK, AggregateMatches, CompletedCount

(* Taking a message from the channel handles message Recvd + 1. *)
LEMMA RecvProgress ==
  ASSUME SInv, SInv', Recv
  PROVE  doneShown' >= doneShown
<1>1. CASE chan = << >> /\ UNCHANGED <<appVars, chan>>
  BY <1>1, DoneShownNat DEF appVars
<1>2. CASE chan # << >> /\ chan' = Tail(chan)
  <2>1. Sent' = Sent
    BY DEF Recv, taskVars, Sent
  <2>2. Len(chan') = Len(chan) - 1
    BY <1>2 DEF SInv, ChanOK
  <2>3. Sent \in Int
    BY SentRange DEF SInv
  <2>4. Recvd' = Recvd + 1 /\ Recvd \in Int
    BY <2>1, <2>2, <2>3, <1>2 DEF Recvd, SInv, ChanOK
  <2>5. doneShown = CompletedCount(RowsAfter(Recvd))
        /\ doneShown' = CompletedCount(RowsAfter(Recvd'))
    BY DEF SInv, ChanOK, AggregateMatches
  <2>6. QED
    BY <2>4, <2>5, CompletedCountGrows
<1>3. QED
  BY <1>1, <1>2 DEF Recv

(* Every other step of the task or the loop leaves the app alone. *)
LEMMA OthersKeepProgress ==
  ASSUME TaskNext \/ Setup \/ Draw \/ Poll \/ CheckQuit \/ AwaitTask \/ Cleanup
  PROVE  UNCHANGED doneShown
  BY DEF TaskNext, TaskLoad, TaskStart, TaskComplete, TaskStatus, TaskExit,
         Setup, Draw, Poll, CheckQuit, AwaitTask, Cleanup, appVars

(***************************************************************************)
(* The gauge never moves backwards, for every number of rows and steps:    *)
(* start_step would reset a completed row, but the channel hands the       *)
(* task's messages over in order and the task starts every row once,      *)
(* before its CompleteStep, so only a CompleteStep changes the count, and  *)
(* it only adds a row.                                                     *)
(***************************************************************************)
THEOREM ProgressNeverDecreasesThm == TSpec => ProgressNeverDecreases
<1>1. SInv /\ SInv' /\ [TNext]_tvars => [doneShown' >= doneShown]_tvars
  <2> SUFFICES ASSUME SInv, SInv', [TNext]_tvars
               PROVE  [doneShown' >= doneShown]_tvars
    OBVIOUS
  <2>1. CASE Recv
    BY <2>1, RecvProgress
  <2>2. CASE TaskNext \/ Setup \/ Draw \/ Poll \/ CheckQuit \/ AwaitTask \/ Cleanup
    <3>1. doneShown \in Nat
      BY DoneShownNat
    <3>2. QED
      BY <2>2, <3>1, OthersKeepProgress
  <2>3. CASE UNCHANGED tvars
    BY <2>3
  <2>4. QED
    BY <2>1, <2>2, <2>3 DEF TNext, LoopNext
<1>2. QED
  BY <1>1, SInvariant, PTL DEF TSpec, ProgressNeverDecreases

=============================================================================
