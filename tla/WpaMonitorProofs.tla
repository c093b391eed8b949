--------------------------- MODULE WpaMonitorProofs ---------------------------
(***************************************************************************)
(* Proofs about one WpaMonitor, for every stream of messages, every fault  *)
(* of the control socket and every order of stop() and of the supplicant's *)
(* ends and restarts.                                                      *)
(***************************************************************************)
EXTENDS WpaMonitor, TLAPS

(***************************************************************************)
(* A message is on the socket, and the supplicant sends more, only while   *)
(* the thread is in its event loop or on its way out of it, between DETACH *)
(* and close(): so the queue an ATTACH starts with is the empty one it was.*)
(***************************************************************************)
InLoop == pc \in {"events", "poll", "detach", "close"}

WpaInv ==
    /\ TypeOK
    /\ attached => InLoop
    /\ queue # <<>> => InLoop

\* A monitor whose start() has not run is not attached.
LEMMA WpaInitInv == Init => WpaInv
<1> SUFFICES ASSUME Init PROVE WpaInv
    OBVIOUS
<1>1. /\ stopRequested \in BOOLEAN /\ notified \in BOOLEAN /\ supplicant \in BOOLEAN
      /\ link \in BOOLEAN /\ connected \in BOOLEAN /\ attached \in BOOLEAN
      /\ stale \in BOOLEAN /\ missed \in BOOLEAN /\ orphaned \in BOOLEAN
    BY Zenon DEF Init
<1>2. backoff \in kInitialBackoff .. kMaxBackoff /\ restarts \in 0 .. MaxRestarts
    BY MonitorAssumption DEF Init, kInitialBackoff, kMaxBackoff
<1>3. ~attached /\ queue = <<>>
    BY DEF Init
<1> QED
    BY <1>1, <1>2, <1>3 DEF Init, WpaInv, TypeOK

\* handleEvent() stays in the event loop, or leaves it through the detach.
LEMMA HandlePreservesWpaInv ==
    ASSUME WpaInv, handleEvent
    PROVE  WpaInv'
<1>1. Tail(queue) \in Seq(Raw)
    BY DEF WpaInv, TypeOK, handleEvent
<1>2. pc' \in {"events", "detach"}
    BY DEF handleEvent, Goto
<1> QED
    BY <1>1, <1>2 DEF handleEvent, WpaInv, TypeOK, InLoop

\* One case per step of start() and runEventLoop().
LEMMA ThreadPreservesWpaInv ==
    ASSUME WpaInv, ThreadStep
    PROVE  WpaInv'
<1> USE DEF WpaInv, TypeOK, InLoop, Goto, supplicantVars
<1>1. CASE Start
    <2>1. stopRequested' \in BOOLEAN
        BY <1>1, Zenon DEF Start
    <2> QED
        BY <1>1, <2>1 DEF Start, kInitialBackoff, kMaxBackoff
<1>2. CASE Open
    <2>1. pc' \in {"attach", "recheck"} /\ connected' \in BOOLEAN
        BY <1>2 DEF Open, wpa_ctrl_open
    <2> QED
        BY <1>2, <2>1 DEF Open
<1>3. CASE AttachOk
    BY <1>3 DEF AttachOk, wpa_ctrl_attach, kInitialBackoff, kMaxBackoff
<1>4. CASE AttachFail
    <2>1. connected' \in BOOLEAN /\ attached' \in BOOLEAN /\ missed' \in BOOLEAN
          /\ orphaned' \in BOOLEAN /\ stale' \in BOOLEAN
        BY <1>4, Zenon DEF AttachFail, wpa_ctrl_close, LoseQueue, wpa_ctrl_request
    <2>2. ~attached' /\ queue' = <<>>
        BY <1>4 DEF AttachFail, wpa_ctrl_close, LoseQueue
    <2> QED
        BY <1>4, <2>1, <2>2 DEF AttachFail
<1>5. CASE EventLoopTest
    BY <1>5 DEF EventLoopTest
<1>6. CASE PollTimeout \/ PollError
    BY <1>6 DEF PollTimeout, PollError
<1>7. CASE Detach
    <2>1. attached' \in BOOLEAN /\ missed' \in BOOLEAN
        BY <1>7, Zenon DEF Detach, wpa_ctrl_detach, LoseQueue
    <2>2. queue' = queue \/ queue' = <<>>
        BY <1>7, Zenon DEF Detach, wpa_ctrl_detach, LoseQueue
    <2>3. queue \in Seq(Raw) /\ <<>> \in Seq(Raw)
        OBVIOUS
    <2>4. queue' \in Seq(Raw)
        BY <2>2, <2>3, Zenon
    <2> QED
        BY <1>7, <2>1, <2>4 DEF Detach
<1>12. CASE Close
    <2>1. connected' \in BOOLEAN /\ attached' \in BOOLEAN /\ missed' \in BOOLEAN
          /\ orphaned' \in BOOLEAN /\ stale' \in BOOLEAN
        BY <1>12, Zenon DEF Close, wpa_ctrl_close, LoseQueue
    <2>2. ~attached' /\ queue' = <<>>
        BY <1>12 DEF Close, wpa_ctrl_close, LoseQueue
    <2> QED
        BY <1>12, <2>1, <2>2 DEF Close
<1>8. CASE Recheck \/ Predicate
    BY <1>8 DEF Recheck, Predicate, StopTest
<1>9. CASE Block \/ Wake
    <2>1. notified' \in BOOLEAN
        BY <1>9, Zenon DEF Block, Wake
    <2> QED
        BY <1>9, <2>1 DEF Block, Wake
<1>10. CASE EndSleep
    <2>1. notified' \in BOOLEAN
        BY <1>10, Zenon DEF EndSleep
    <2>2. backoff' \in 1 .. 30
        BY <1>10 DEF EndSleep, NextBackoff, kInitialBackoff, kMaxBackoff
    <2> QED
        BY <1>10, <2>1, <2>2 DEF EndSleep, NextBackoff, kInitialBackoff, kMaxBackoff
<1>11. CASE Exit
    BY <1>11 DEF Exit
<1> QED
    BY <1>1, <1>2, <1>3, <1>4, <1>5, <1>6, <1>7, <1>8, <1>9, <1>10, <1>11, <1>12
       DEF ThreadStep

\* stop() and the join touch nothing of the socket.
LEMMA MainPreservesWpaInv ==
    ASSUME WpaInv, MainStep
    PROVE  WpaInv'
<1>1. stopRequested' \in BOOLEAN /\ notified' \in BOOLEAN
    BY Zenon DEF MainStep, StopStore, StopNotify, Join, WpaInv, TypeOK
<1> QED
    BY <1>1 DEF MainStep, StopStore, StopNotify, Join, WpaInv, TypeOK,
                InLoop, supplicantVars

\* What the supplicant says about the link is a message of the control socket.
LEMMA TellType ==
    ASSUME WpaInv, NEW kind \in {"CONNECTED", "DISCONNECTED", "TERMINATING"},
           Tell(Msg(kind))
    PROVE  /\ queue' \in Seq(Raw) /\ missed' \in BOOLEAN
           /\ queue' # <<>> => InLoop
<1>1. Msg(kind) \in Raw
    BY DEF Msg, Raw
<1> QED
    BY <1>1 DEF Tell, Room, WpaInv, TypeOK

\* The supplicant sends to an attached monitor only.
LEMMA SupplicantPreservesWpaInv ==
    ASSUME WpaInv, SupplicantStep
    PROVE  WpaInv'
<1> USE DEF WpaInv, TypeOK, InLoop, threadVars
<1>1. CASE LinkUp
    BY <1>1, TellType DEF LinkUp
<1>2. CASE LinkDown
    BY <1>2, TellType DEF LinkDown
<1>3. CASE Chatter
    BY <1>3 DEF Chatter, Room
<1>4. CASE Terminate
    BY <1>4, TellType DEF Terminate, Ended
<1>5. CASE Crash
    BY <1>5 DEF Crash, Ended
<1>6. CASE Restart
    BY <1>6, MonitorAssumption DEF Restart
<1> QED
    BY <1>1, <1>2, <1>3, <1>4, <1>5, <1>6 DEF SupplicantStep

\* Every step preserves the invariant.
LEMMA StepPreservesWpaInv ==
    ASSUME WpaInv, [Next]_vars
    PROVE  WpaInv'
<1>1. CASE Done \/ UNCHANGED vars
    BY <1>1 DEF Done, vars, threadVars, supplicantVars, WpaInv, TypeOK, InLoop
<1> QED
    BY <1>1, HandlePreservesWpaInv, ThreadPreservesWpaInv, MainPreservesWpaInv,
       SupplicantPreservesWpaInv DEF Next

\* Whatever the supplicant answers, start() opens and closes in pairs.
LEMMA WpaInvariant == Spec => []WpaInv
<1>1. Init => WpaInv
    BY WpaInitInv
<1>2. WpaInv /\ [Next]_vars => WpaInv'
    BY StepPreservesWpaInv
<1> QED
    BY <1>1, <1>2, PTL DEF Spec

(***************************************************************************)
(* Type correctness: among it that the exponential backoff of start()      *)
(* stays between 1 and 30 seconds.                                         *)
(***************************************************************************)
THEOREM TypeCorrect == Spec => []TypeOK
<1>1. WpaInv => TypeOK
    BY DEF WpaInv
<1> QED
    BY <1>1, WpaInvariant, PTL

=============================================================================
