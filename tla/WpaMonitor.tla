----------------------------- MODULE WpaMonitor -----------------------------
(***************************************************************************)
(* One WpaMonitor (wpa/wpa_monitor.cpp): the thread that runs start(), the *)
(* main thread that calls stop() and joins it, and wpa_supplicant on the   *)
(* other side of the control socket.                                       *)
(*                                                                         *)
(* wpa_supplicant is external: it runs or not, has a link or not, and      *)
(* sends an unsolicited message to the monitor that is attached to it.     *)
(* What happens while no monitor is attached is not told to anyone later.  *)
(* The callback a message ends in belongs to PathMonitor, which composes   *)
(* this module with the path state machine.                                *)
(***************************************************************************)
EXTENDS Integers, Sequences

CONSTANTS
    RssiFields,     \* values of the rssi= field of a SIGNAL-CHANGE message
    NoField,        \* the field is missing or not a number
    Trouble,        \* what may go wrong: see TroubleKinds
    MaxQueue,       \* messages the control socket holds; more are lost
    MaxRestarts     \* bound on how often wpa_supplicant comes back

\* "attach", "detach": the request is refused or not answered in time; "io": poll()
\* or wpa_ctrl_recv() fails; "crash": wpa_supplicant dies without announcing it.
TroubleKinds == {"attach", "detach", "io", "crash"}

ASSUME MonitorAssumption ==
    /\ RssiFields \subseteq Int
    /\ NoField \notin Int
    /\ Trouble \subseteq TroubleKinds
    /\ MaxQueue \in Nat \ {0}
    /\ MaxRestarts \in Nat

VARIABLES
    pc,             \* where the monitor thread is in start()
    stopRequested,  \* stopRequested_
    backoff,        \* seconds of the next backoff sleep
    notified,       \* a notify_all() reached the sleeping thread
    mainPc,         \* main: before stop(), inside it, in join(), after it
    supplicant,     \* wpa_supplicant runs
    restarts,       \* how often it was started again
    link,           \* it is associated with an access point
    connected,      \* the control socket is open and its other end is this supplicant
    attached,       \* the supplicant sends its messages to the control socket
    stale,          \* it has a socket registered that the monitor has closed
    queue,          \* messages on the control socket, not yet received
    missed,         \* the last change of the link was not told to the monitor
    orphaned        \* the supplicant the monitor is connected to died silently

threadVars == <<pc, stopRequested, backoff, notified, mainPc>>
supplicantVars ==
    <<supplicant, restarts, link, connected, attached, stale, queue, missed, orphaned>>
vars == <<threadVars, supplicantVars>>

kInitialBackoff == 1
kMaxBackoff == 30

Raw == [kind : {"CONNECTED", "DISCONNECTED", "TERMINATING", "OTHER"}, rssi : {NoField}]
       \cup [kind : {"SIGNAL-CHANGE"}, rssi : RssiFields \cup {NoField}]

Msg(kind) == [kind |-> kind, rssi |-> NoField]

-----------------------------------------------------------------------------
(* Parsing.                                                                *)

\* A field that is missing or no number reads as 0 dBm.
parseIntField(field) == IF field = NoField THEN 0 ELSE field

EventType(kind) ==
    CASE kind = "CONNECTED"     -> "Connected"
      [] kind = "DISCONNECTED"  -> "Disconnected"
      [] kind = "SIGNAL-CHANGE" -> "SignalChange"
      [] kind = "TERMINATING"   -> "Terminating"
      [] OTHER                  -> "Other"

\* Only a SIGNAL-CHANGE carries a level; every other event has rssi 0.
parseEvent(raw) ==
    [type |-> EventType(raw.kind),
     rssi |-> IF raw.kind = "SIGNAL-CHANGE" THEN parseIntField(raw.rssi) ELSE 0]

-----------------------------------------------------------------------------
(* The control interface, as wpa_ctrl.c builds it on a datagram socket.    *)

\* The positions in the queue of messages that change what is known of the link.
LinkKinds == {"CONNECTED", "DISCONNECTED", "TERMINATING"}
LinkNews == {i \in 1 .. Len(queue) : queue[i].kind \in LinkKinds}

\* What is read past, or is still on the socket when it is closed, is lost.
LoseQueue == queue' = <<>> /\ missed' = (missed \/ LinkNews # {})

\* connect() finds the socket of a supplicant that runs.  The socket stays bound to
\* that supplicant: one that is started later does not answer on it.
wpa_ctrl_open == connected' = supplicant
wpa_ctrl_request == connected

wpa_ctrl_attach == wpa_ctrl_request /\ attached' = TRUE

\* A DETACH that is answered passes over the messages before its answer; one that is
\* refused or not answered may have done so, and leaves the registration.
wpa_ctrl_detach ==
    \/ wpa_ctrl_request /\ attached' = FALSE /\ LoseQueue
    \/ /\ wpa_ctrl_request => "detach" \in Trouble
       /\ LoseQueue \/ UNCHANGED <<queue, missed>>
       /\ UNCHANGED attached

\* The supplicant is not told.
wpa_ctrl_close ==
    /\ LoseQueue
    /\ connected' = FALSE
    /\ attached' = FALSE
    /\ orphaned' = FALSE

-----------------------------------------------------------------------------
(* The monitor thread: start() and runEventLoop().                         *)

Goto(from, to) == pc = from /\ pc' = to

\* start() forgets a stop() that came before it.
Start ==
    /\ Goto("unstarted", "loop")
    /\ stopRequested' = FALSE
    /\ backoff' = kInitialBackoff
    /\ UNCHANGED <<notified, mainPc, supplicantVars>>

Open ==
    /\ ~stopRequested
    /\ wpa_ctrl_open
    /\ Goto("loop", IF connected' THEN "attach" ELSE "recheck")
    /\ UNCHANGED <<stopRequested, backoff, notified, mainPc,
                   supplicant, restarts, link, attached, stale, queue, missed, orphaned>>

AttachOk ==
    /\ Goto("attach", "events")
    /\ wpa_ctrl_attach
    /\ queue' = <<>>
    /\ backoff' = kInitialBackoff
    /\ UNCHANGED <<stopRequested, notified, mainPc,
                   supplicant, restarts, link, connected, stale, missed, orphaned>>

\* An ATTACH whose answer is late has registered a socket that is closed by then.
AttachFail ==
    /\ wpa_ctrl_request => "attach" \in Trouble
    /\ Goto("attach", "recheck")
    /\ wpa_ctrl_close
    /\ stale' \in {stale, stale \/ wpa_ctrl_request}
    /\ UNCHANGED <<stopRequested, backoff, notified, mainPc, supplicant, restarts, link>>

\* The condition of the loop in runEventLoop().
EventLoopTestIgnoresStop ==     \* with a bug: the loop does not look at stopRequested_
    /\ Goto("events", "poll")
    /\ UNCHANGED <<stopRequested, backoff, notified, mainPc, supplicantVars>>

EventLoopTest ==
    /\ Goto("events", IF stopRequested THEN "detach" ELSE "poll")
    /\ UNCHANGED <<stopRequested, backoff, notified, mainPc, supplicantVars>>

\* poll() comes back after kPollTimeoutMs, or is interrupted.
PollTimeout ==
    /\ queue = <<>>
    /\ Goto("poll", "events")
    /\ UNCHANGED <<stopRequested, backoff, notified, mainPc, supplicantVars>>

PollError ==
    /\ "io" \in Trouble
    /\ Goto("poll", "detach")
    /\ UNCHANGED <<stopRequested, backoff, notified, mainPc, supplicantVars>>

\* One message is received and dispatched; Terminating ends the loop.
handleEventStays ==             \* with a bug: Terminating does not end the loop
    /\ queue # <<>>
    /\ Goto("poll", "events")
    /\ queue' = Tail(queue)
    /\ UNCHANGED <<stopRequested, backoff, notified, mainPc,
                   supplicant, restarts, link, connected, attached, stale, missed, orphaned>>

handleEvent ==
    /\ queue # <<>>
    /\ Goto("poll", IF parseEvent(Head(queue)).type = "Terminating"
                    THEN "detach" ELSE "events")
    /\ queue' = Tail(queue)
    /\ UNCHANGED <<stopRequested, backoff, notified, mainPc,
                   supplicant, restarts, link, connected, attached, stale, missed, orphaned>>

\* Connection lost, or stop() was called.  Whether DETACH worked is not looked at.
Detach ==
    /\ Goto("detach", "close")
    /\ wpa_ctrl_detach
    /\ UNCHANGED <<stopRequested, backoff, notified, mainPc,
                   supplicant, restarts, link, connected, stale, orphaned>>

CloseIfDetached ==              \* with a bug: a socket that is still attached stays open
    /\ Goto("close", "recheck")
    /\ IF attached THEN UNCHANGED <<connected, attached, queue, missed, orphaned>>
                   ELSE wpa_ctrl_close
    /\ UNCHANGED <<stopRequested, backoff, notified, mainPc,
                   supplicant, restarts, link, stale>>

Close ==
    /\ Goto("close", "recheck")
    /\ wpa_ctrl_close
    /\ stale' = (stale \/ attached)
    /\ UNCHANGED <<stopRequested, backoff, notified, mainPc, supplicant, restarts, link>>

\* cv_.wait_for() tests its predicate, then blocks: two steps, because stop()
\* does not take cvMutex_.
StopTest(from, to) ==
    /\ ~stopRequested
    /\ Goto(from, to)
    /\ UNCHANGED <<stopRequested, backoff, notified, mainPc, supplicantVars>>

Recheck == StopTest("recheck", "predicate")
Predicate == StopTest("predicate", "blocking")

Block ==
    /\ Goto("blocking", "asleep")
    /\ notified' = FALSE
    /\ UNCHANGED <<stopRequested, backoff, mainPc, supplicantVars>>

Wake ==
    /\ notified
    /\ Goto("asleep", "predicate")
    /\ notified' = FALSE
    /\ UNCHANGED <<stopRequested, backoff, mainPc, supplicantVars>>

NextBackoffUncapped(b) == 2 * b     \* with a bug: no limit

NextBackoff(b) == IF 2 * b < kMaxBackoff THEN 2 * b ELSE kMaxBackoff

\* The end of wait_for(): the time is over or the predicate holds.
EndSleep ==
    /\ \/ pc = "asleep"
       \/ pc = "predicate" /\ stopRequested
    /\ pc' = "loop"
    /\ backoff' = NextBackoff(backoff)
    /\ notified' = FALSE
    /\ UNCHANGED <<stopRequested, mainPc, supplicantVars>>

Exit ==
    /\ stopRequested
    /\ pc \in {"loop", "recheck"}
    /\ pc' = "exited"
    /\ UNCHANGED <<stopRequested, backoff, notified, mainPc, supplicantVars>>

\* Everything the thread does but the dispatch of a message.
ThreadStep ==
    \/ Start \/ Open \/ AttachOk \/ AttachFail \/ EventLoopTest
    \/ PollTimeout \/ PollError \/ Detach \/ Close \/ Recheck \/ Predicate
    \/ Block \/ Wake \/ EndSleep \/ Exit

-----------------------------------------------------------------------------
(* The main thread: stop() and the join.                                   *)

StopStore ==
    /\ mainPc = "running"
    /\ mainPc' = "notify"
    /\ stopRequested' = TRUE
    /\ UNCHANGED <<pc, backoff, notified, supplicantVars>>

StopNotify ==
    /\ mainPc = "notify"
    /\ mainPc' = "join"
    /\ notified' = (pc = "asleep")
    /\ UNCHANGED <<pc, stopRequested, backoff, supplicantVars>>

Join ==
    /\ mainPc = "join"
    /\ pc = "exited"
    /\ mainPc' = "joined"
    /\ UNCHANGED <<pc, stopRequested, backoff, notified, supplicantVars>>

MainStep == StopStore \/ StopNotify \/ Join

-----------------------------------------------------------------------------
(* wpa_supplicant.                                                         *)

Room == attached /\ Len(queue) < MaxQueue

\* A message about the link: lost when there is no one to tell or no room.
Tell(raw) ==
    /\ queue' = IF Room THEN Append(queue, raw) ELSE queue
    /\ missed' = ~Room

LinkUp ==
    /\ supplicant /\ ~link
    /\ link' = TRUE
    /\ Tell(Msg("CONNECTED"))
    /\ UNCHANGED <<threadVars, supplicant, restarts, connected, attached, stale, orphaned>>

LinkDown ==
    /\ supplicant /\ link
    /\ link' = FALSE
    /\ Tell(Msg("DISCONNECTED"))
    /\ UNCHANGED <<threadVars, supplicant, restarts, connected, attached, stale, orphaned>>

Chatter ==
    /\ supplicant /\ Room
    /\ \E raw \in Raw :
          /\ raw.kind = "OTHER" \/ (raw.kind = "SIGNAL-CHANGE" /\ link)
          /\ queue' = Append(queue, raw)
    /\ UNCHANGED <<threadVars, supplicant, restarts, link, connected, attached, stale,
                   missed, orphaned>>

\* A supplicant that ends takes its connections and registrations with it.
Ended ==
    /\ supplicant' = FALSE
    /\ link' = FALSE
    /\ connected' = FALSE
    /\ attached' = FALSE
    /\ stale' = FALSE

\* An end that is announced; with no room for the message it is a Crash.
Terminate ==
    /\ supplicant
    /\ attached => Room
    /\ Ended
    /\ Tell(Msg("TERMINATING"))
    /\ UNCHANGED <<threadVars, restarts, orphaned>>

\* Nothing becomes readable on the monitor's datagram socket.
Crash ==
    /\ "crash" \in Trouble
    /\ supplicant
    /\ Ended
    /\ missed' = TRUE
    /\ orphaned' = (orphaned \/ attached)
    /\ UNCHANGED <<threadVars, restarts, queue>>

Restart ==
    /\ ~supplicant
    /\ restarts < MaxRestarts
    /\ supplicant' = TRUE
    /\ restarts' = restarts + 1
    /\ UNCHANGED <<threadVars, link, connected, attached, stale, queue, missed, orphaned>>

SupplicantStep == LinkUp \/ LinkDown \/ Chatter \/ Terminate \/ Crash \/ Restart

-----------------------------------------------------------------------------
Init ==
    /\ pc = "unstarted"
    /\ stopRequested = FALSE
    /\ backoff = kInitialBackoff
    /\ notified = FALSE
    /\ mainPc = "running"
    /\ supplicant \in BOOLEAN
    /\ restarts = 0
    /\ link \in {FALSE, supplicant}
    /\ connected = FALSE
    /\ attached = FALSE
    /\ stale = FALSE
    /\ queue = <<>>
    /\ missed = link
    /\ orphaned = FALSE

\* After the join the monitor is done.
Done == mainPc = "joined" /\ UNCHANGED vars

Next == handleEvent \/ ThreadStep \/ MainStep \/ SupplicantStep \/ Done

Spec == Init /\ [][Next]_vars

(***************************************************************************)
(* Fairness: the monitor thread is scheduled, and so is the main thread    *)
(* once it is inside stop(); poll() and wait_for() have timeouts, so they  *)
(* return.  A supplicant that keeps running does not refuse ATTACH for     *)
(* ever.  Nothing else is assumed: not that the supplicant does anything,  *)
(* nor that main ever calls stop().                                        *)
(***************************************************************************)
Fairness ==
    /\ WF_vars(handleEvent \/ ThreadStep)
    /\ WF_vars(StopNotify \/ Join)
    /\ SF_vars(AttachOk)

FairSpec == Spec /\ Fairness

-----------------------------------------------------------------------------
TypeOK ==
    /\ pc \in {"unstarted", "loop", "attach", "events", "poll", "detach", "close",
               "recheck", "predicate", "blocking", "asleep", "exited"}
    /\ stopRequested \in BOOLEAN
    /\ backoff \in kInitialBackoff .. kMaxBackoff
    /\ notified \in BOOLEAN
    /\ mainPc \in {"running", "notify", "join", "joined"}
    /\ supplicant \in BOOLEAN
    /\ restarts \in 0 .. MaxRestarts
    /\ link \in BOOLEAN
    /\ connected \in BOOLEAN
    /\ attached \in BOOLEAN
    /\ stale \in BOOLEAN
    /\ queue \in Seq(Raw)
    /\ missed \in BOOLEAN
    /\ orphaned \in BOOLEAN

(***************************************************************************)
(* stop() ends a monitor whose start() has begun, wherever it is: asleep,  *)
(* in poll(), attaching, or between two of these.                          *)
(***************************************************************************)
StopEndsStarted ==
    (mainPc = "join" /\ pc # "unstarted" /\ stopRequested) ~> (mainPc = "joined")

(***************************************************************************)
(* The reconnect loop: while wpa_supplicant keeps running and nobody calls *)
(* stop(), the monitor is attached again and again (it sleeps between two  *)
(* attempts, and never gives up), unless it still listens to a supplicant  *)
(* that died without announcing it.                                        *)
(***************************************************************************)
Reattaches == <>[](supplicant /\ ~orphaned) => []<>(attached \/ stopRequested)

(***************************************************************************)
(* A control socket that is full does not stay full: the thread reads it,  *)
(* or closes it on its way out of the event loop, a DETACH that failed or  *)
(* was never answered included.                                            *)
(***************************************************************************)
SocketDrained == (Len(queue) = MaxQueue) ~> (Len(queue) < MaxQueue)

-----------------------------------------------------------------------------
(* What comments say and the code does not do.                             *)

\* wpa_monitor.hpp:94: stop() will "Signal the reconnect loop to exit".
StopEnds == (mainPc = "join") ~> (mainPc = "joined")

=============================================================================
