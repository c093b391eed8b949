-------------------------- MODULE PathMonitorProofs --------------------------
(***************************************************************************)
(* Proofs about one path class: the route of the path state machine, and   *)
(* the state of the path against the link, for every threshold, every      *)
(* stream of messages, every fault and every schedule.                     *)
(***************************************************************************)
EXTENDS PathMonitor, TLAPS

(***************************************************************************)
(* The state machine.  RouteOwned is not inductive by itself: a live path  *)
(* whose activeIface_ is unknown would go down without its teardown.       *)
(***************************************************************************)
FsmInv == FsmTypeOK /\ RouteOwned /\ UpHasIface

\* nextState() returns a state, whatever the event.
LEMMA NextStateType ==
    ASSUME NEW current \in PathState, NEW ev
    PROVE  nextState(current, ev) \in PathState
BY DEF nextState, PathState, Grade, Weaken

\* A machine that was just constructed, over the endpoints main.cpp added.
LEMMA FsmInitInv == FsmInit => FsmInv
<1> SUFFICES ASSUME FsmInit PROVE FsmInv
    OBVIOUS
<1>1. route \in BOOLEAN /\ endpoint \in BOOLEAN
  <2>1. route \in BOOLEAN
    BY DEF FsmInit
  <2>2. endpoint \in BOOLEAN
    BY DEF FsmInit
  <2> QED BY <2>1, <2>2
<1>2. leaked = route
    BY DEF FsmInit
<1>3. leaked \in BOOLEAN
    BY <1>1, <1>2, Zenon
<1>4. state \in PathState /\ activeIface \in {Iface, NoIface} /\ lease \in Lease
    BY DEF FsmInit, PathState
<1>5. FsmTypeOK
    BY <1>1, <1>3, <1>4 DEF FsmTypeOK
<1>6. RouteOwned
    BY <1>2, Zenon DEF RouteOwned
<1>7. UpHasIface
    BY DEF FsmInit, UpHasIface
<1> QED BY <1>5, <1>6, <1>7 DEF FsmInv

\* A route that is there after RTM_DELROUTE is one the kernel refused to delete.
LEMMA DeleteLeaves ==
    ASSUME FsmTypeOK, removeDefaultRoute
    PROVE  leaked' \in BOOLEAN /\ route' \in BOOLEAN /\ (route' => leaked')
<1>1. PICK done \in BOOLEAN :
         /\ sendRouteMsg("delRoute", FALSE, done)
         /\ leaked' = (route /\ ~done)
    BY DEF removeDefaultRoute
<1>2. leaked' \in BOOLEAN
    BY <1>1, Zenon
<1>3. CASE done /\ route' = FALSE
    BY <1>2, <1>3, Zenon
<1>4. CASE ~done /\ route' = route
    BY <1>1, <1>2, <1>4, Zenon DEF FsmTypeOK
<1> QED
    BY <1>1, <1>3, <1>4 DEF sendRouteMsg

\* onWpaEvent() preserves it, whatever the event.
LEMMA EventPreservesFsmInv ==
    ASSUME FsmInv, NEW ev, onWpaEvent(ev)
    PROVE  FsmInv'
<1> DEFINE new == nextState(state, ev)
<1>1. new \in PathState /\ state' = new /\ lease' = lease
    BY NextStateType DEF FsmInv, FsmTypeOK, onWpaEvent, transition
<1>2. CASE new = state
    <2>1. NoCallback
        BY <1>2 DEF onWpaEvent, transition, Live
    <2> QED
        BY <1>1, <1>2, <2>1 DEF NoCallback, FsmInv, FsmTypeOK, RouteOwned, UpHasIface
<1>3. CASE new # state /\ new = "PathUp"
    <2>1. SetUp
        BY <1>3 DEF onWpaEvent, transition, Live
    <2>2. route' \in BOOLEAN /\ endpoint' \in BOOLEAN
        BY <2>1 DEF SetUp, onPathUp, addDefaultRoute, sendRouteMsg, addEndpoints, sendEndpointCmd,
                   Request, FsmInv, FsmTypeOK
    <2> QED
        BY <1>1, <1>3, <2>1, <2>2 DEF SetUp, onPathUp, FsmInv, FsmTypeOK, RouteOwned, UpHasIface
<1>4. CASE new # state /\ new = "PathDown" /\ state \in Live
    <2>1. TearDown
        BY <1>4 DEF onWpaEvent, transition, Live
    <2>2. CASE activeIface # NoIface
        <3>1. onPathDown /\ activeIface' = NoIface /\ endpoint' = endpoint
            BY <2>1, <2>2 DEF TearDown, onPathDown
        <3>2. leaked' \in BOOLEAN /\ route' \in BOOLEAN /\ (route' => leaked')
            BY <3>1, DeleteLeaves DEF onPathDown, FsmInv
        <3> QED
            BY <1>1, <1>4, <3>1, <3>2 DEF FsmInv, FsmTypeOK, RouteOwned, UpHasIface
    <2>3. CASE activeIface = NoIface
        BY <1>1, <1>4, <2>1, <2>3, WiringAssumption
           DEF TearDown, FsmInv, FsmTypeOK, RouteOwned, UpHasIface
    <2> QED
        BY <2>2, <2>3
<1>5. CASE new # state /\ new # "PathUp" /\ ~(new = "PathDown" /\ state \in Live)
    <2>1. NoCallback
        BY <1>5 DEF onWpaEvent, transition, Live
    <2> QED
        BY <1>1, <1>5, <2>1 DEF NoCallback, FsmInv, FsmTypeOK, RouteOwned, UpHasIface
<1> QED
    BY <1>2, <1>3, <1>4, <1>5

\* What DHCP and the kernel do to the interface preserves it.
LEMMA KernelPreservesFsmInv ==
    ASSUME FsmInv, KernelStep
    PROVE  FsmInv'
<1>1. CASE DhcpBound
    BY <1>1 DEF DhcpBound, FsmInv, FsmTypeOK, RouteOwned, UpHasIface, Lease
<1>2. CASE IfaceDown
    <2>1. route' = FALSE /\ leaked' = FALSE /\ lease' \in Lease
        BY <1>2 DEF IfaceDown, Lease
    <2>2. UNCHANGED <<state, activeIface, endpoint>>
        BY <1>2 DEF IfaceDown
    <2> QED
        BY <2>1, <2>2, Zenon DEF FsmInv, FsmTypeOK, RouteOwned, UpHasIface
<1> QED
    BY <1>1, <1>2 DEF KernelStep

\* So does a step that is not the machine's.
LEMMA StutterPreservesFsmInv ==
    ASSUME FsmInv, UNCHANGED fsmVars
    PROVE  FsmInv'
BY DEF fsmVars, FsmInv, FsmTypeOK, RouteOwned, UpHasIface

\* So does every step of the class.
LEMMA StepPreservesFsmInv ==
    ASSUME FsmInv, [Next]_vars
    PROVE  FsmInv'
<1>1. CASE Dispatch
    BY <1>1, EventPreservesFsmInv DEF Dispatch
<1>2. CASE Kernel
    BY <1>2, KernelPreservesFsmInv DEF Kernel
<1>3. CASE Thread \/ Main \/ Supplicant \/ UNCHANGED vars
    BY <1>3, StutterPreservesFsmInv DEF Thread, Main, Supplicant, vars
<1> QED
    BY <1>1, <1>2, <1>3 DEF Next

\* The state machine keeps its part in every behaviour of the class.
LEMMA FsmInvariant == Spec => []FsmInv
<1>1. Init => FsmInv
    BY FsmInitInv DEF Init
<1>2. FsmInv /\ [Next]_vars => FsmInv'
    BY StepPreservesFsmInv
<1> QED
    BY <1>1, <1>2, PTL DEF Spec

(***************************************************************************)
(* transition() never forgets the interface of a route that stands: a      *)
(* default route in the class's table always has an activeIface_, or is    *)
(* one the kernel refused to delete.                                       *)
(***************************************************************************)
THEOREM RouteIsOwned == Spec => []RouteOwned
<1>1. FsmInv => RouteOwned
    BY DEF FsmInv
<1> QED
    BY <1>1, FsmInvariant, PTL

(***************************************************************************)
(* A live path that goes down takes its route with it, from PathUp and     *)
(* from PathDegraded, in every behaviour.                                  *)
(***************************************************************************)
THEOREM DownTakesRouteAlways == Spec => DownTakesRoute
<1> DEFINE A == (state \in Live /\ state' = "PathDown") => (~route' \/ leaked')
<1>1. ASSUME FsmInv, [Next]_vars
      PROVE  [A]_fsmVars
    <2>1. SUFFICES ASSUME state \in Live, state' = "PathDown"
                   PROVE  ~route' \/ leaked'
        OBVIOUS
    <2>2. state' # state
        BY <2>1 DEF Live
    <2>3. Dispatch
        BY <1>1, <2>2 DEF Next, Thread, Main, Supplicant, Kernel, KernelStep, DhcpBound,
                          IfaceDown, vars, fsmVars
    <2>4. TearDown
        BY <2>1, <2>2, <2>3 DEF Dispatch, onWpaEvent, transition, Live
    <2>5. CASE activeIface # NoIface
        BY <2>4, <2>5, <1>1, DeleteLeaves DEF TearDown, onPathDown, FsmInv
    <2>6. CASE activeIface = NoIface
        BY <2>4, <2>6, <1>1, WiringAssumption DEF TearDown, FsmInv, RouteOwned, FsmTypeOK
    <2> QED
        BY <2>5, <2>6
<1> QED
    BY <1>1, FsmInvariant, PTL DEF Spec, DownTakesRoute

-----------------------------------------------------------------------------
(***************************************************************************)
(* The monitor.  What is proved of it in WpaMonitorProofs holds in the     *)
(* composition: the state machine takes no step of the monitor from it and *)
(* adds none.                                                              *)
(***************************************************************************)
Monitor == INSTANCE WpaMonitorProofs

(***************************************************************************)
(* The wiring of main.cpp keeps the monitor a monitor: a class with its    *)
(* state machine, DHCP and the kernel around it implements WpaMonitor.     *)
(***************************************************************************)
THEOREM ComposesMonitor == Spec => Wpa!Spec
<1>1. Init => Wpa!Init
    BY DEF Init
<1>2. [Next]_vars => [Wpa!Next]_(Wpa!vars)
    BY DEF Next, vars, wpaVars, Dispatch, Thread, Main, Supplicant, Kernel,
           Wpa!Next, Wpa!vars, Wpa!threadVars, Wpa!supplicantVars
<1> QED
    BY <1>1, <1>2, PTL DEF Spec, Wpa!Spec

\* The invariant of the monitor, in the words of the composition.
InLoop == pc \in {"events", "poll", "detach", "close"}

WpaInv ==
    /\ Wpa!TypeOK
    /\ attached => InLoop
    /\ queue # <<>> => InLoop

\* The two instances of the monitor are one: their definitions, written out, agree.
LEMMA SameMonitor ==
    /\ [Wpa!Next]_(Wpa!vars) => [Monitor!Next]_(Monitor!vars)
    /\ Wpa!Init => Monitor!Init
    /\ Monitor!MonitorAssumption
<1>1. [Wpa!Next]_(Wpa!vars) => [Monitor!Next]_(Monitor!vars)
    BY Zenon DEF
       Wpa!Next, Wpa!vars, Wpa!threadVars, Wpa!supplicantVars, Wpa!handleEvent,
       Wpa!ThreadStep, Wpa!MainStep, Wpa!SupplicantStep, Wpa!Done, Wpa!Goto, Wpa!Start,
       Wpa!Open, Wpa!AttachOk, Wpa!AttachFail, Wpa!EventLoopTest, Wpa!PollTimeout,
       Wpa!PollError, Wpa!Detach, Wpa!Close, Wpa!StopTest, Wpa!Recheck, Wpa!Predicate, Wpa!Block,
       Wpa!Wake, Wpa!EndSleep, Wpa!Exit, Wpa!StopStore, Wpa!StopNotify, Wpa!Join,
       Wpa!LinkUp, Wpa!LinkDown, Wpa!Chatter, Wpa!Terminate, Wpa!Crash, Wpa!Restart,
       Wpa!Room, Wpa!Tell, Wpa!Raw, Wpa!Msg, Wpa!parseIntField, Wpa!EventType,
       Wpa!parseEvent, Wpa!LinkKinds, Wpa!LinkNews, Wpa!wpa_ctrl_open, Wpa!wpa_ctrl_request,
       Wpa!wpa_ctrl_attach, Wpa!wpa_ctrl_detach, Wpa!wpa_ctrl_close, Wpa!LoseQueue, Wpa!Ended,
       Wpa!kInitialBackoff,
       Wpa!kMaxBackoff, Wpa!NextBackoff,
       Monitor!Next, Monitor!vars, Monitor!threadVars, Monitor!supplicantVars,
       Monitor!handleEvent, Monitor!ThreadStep, Monitor!MainStep, Monitor!SupplicantStep,
       Monitor!Done, Monitor!Goto, Monitor!Start, Monitor!Open, Monitor!AttachOk,
       Monitor!AttachFail, Monitor!EventLoopTest, Monitor!PollTimeout, Monitor!PollError,
       Monitor!Detach, Monitor!Close, Monitor!StopTest, Monitor!Recheck, Monitor!Predicate, Monitor!Block,
       Monitor!Wake, Monitor!EndSleep, Monitor!Exit, Monitor!StopStore, Monitor!StopNotify,
       Monitor!Join, Monitor!LinkUp, Monitor!LinkDown, Monitor!Chatter, Monitor!Terminate,
       Monitor!Crash, Monitor!Restart, Monitor!Room, Monitor!Tell, Monitor!Raw, Monitor!Msg,
       Monitor!parseIntField, Monitor!EventType, Monitor!parseEvent, Monitor!LinkKinds,
       Monitor!LinkNews, Monitor!wpa_ctrl_open, Monitor!wpa_ctrl_request,
       Monitor!wpa_ctrl_attach, Monitor!wpa_ctrl_detach, Monitor!wpa_ctrl_close,
       Monitor!LoseQueue, Monitor!Ended,
       Monitor!kInitialBackoff, Monitor!kMaxBackoff, Monitor!NextBackoff
<1>2. Wpa!Init => Monitor!Init
    BY DEF Wpa!Init, Monitor!Init, Wpa!kInitialBackoff, Monitor!kInitialBackoff
<1>3. Monitor!MonitorAssumption
    BY WpaAssumption DEF Wpa!MonitorAssumption, Monitor!MonitorAssumption, Wpa!TroubleKinds,
                         Monitor!TroubleKinds
<1> QED
    BY <1>1, <1>2, <1>3

\* So are their invariants.
LEMMA SameInv == (WpaInv <=> Monitor!WpaInv) /\ (WpaInv' <=> Monitor!WpaInv')
BY DEF WpaInv, InLoop, Wpa!TypeOK, Wpa!Raw, Wpa!kInitialBackoff, Wpa!kMaxBackoff,
       Monitor!WpaInv, Monitor!InLoop, Monitor!TypeOK, Monitor!Raw, Monitor!kInitialBackoff,
       Monitor!kMaxBackoff

\* The monitor keeps its invariant in the composition.
LEMMA WpaInvariant == Spec => []WpaInv
<1>1. Wpa!Init => WpaInv
    BY SameMonitor, SameInv, Monitor!WpaInitInv
<1>2. WpaInv /\ [Wpa!Next]_(Wpa!vars) => WpaInv'
    <2> SUFFICES ASSUME WpaInv, [Wpa!Next]_(Wpa!vars) PROVE WpaInv'
        OBVIOUS
    <2>1. Monitor!WpaInv /\ [Monitor!Next]_(Monitor!vars)
        BY SameMonitor, SameInv
    <2>2. Monitor!WpaInv'
        BY <2>1, SameMonitor, Monitor!StepPreservesWpaInv
    <2> QED
        BY <2>2, SameInv
<1> QED
    BY <1>1, <1>2, ComposesMonitor, PTL DEF Wpa!Spec

(***************************************************************************)
(* Type correctness of the composition: among it that the backoff stays    *)
(* between 1 and 30 seconds and that nextState() only leads to states.     *)
(***************************************************************************)
THEOREM TypeCorrect == Spec => []TypeOK
<1>1. FsmInv /\ WpaInv => TypeOK
    BY DEF FsmInv, WpaInv, TypeOK
<1> QED
    BY <1>1, FsmInvariant, WpaInvariant, PTL

-----------------------------------------------------------------------------
(***************************************************************************)
(* The path against the link.  LiveHasLink speaks of a monitor that has    *)
(* dispatched all news; to be inductive it also needs to know what the     *)
(* last piece of news on the socket will say.                              *)
(***************************************************************************)
IsNews(i) == i \in 1 .. Len(queue) /\ queue[i].kind \in Wpa!LinkKinds

NoNews == \A i \in 1 .. Len(queue) : queue[i].kind \notin Wpa!LinkKinds

LastNews(i) ==
    IsNews(i) /\ \A j \in 1 .. Len(queue) : j > i => queue[j].kind \notin Wpa!LinkKinds

LinkInv ==
    /\ (~missed /\ NoNews /\ state \in Live) => link
    /\ \A i \in 1 .. Len(queue) :
          (~missed /\ LastNews(i) /\ queue[i].kind = "CONNECTED") => link

\* NoNews, written for the provers, is the LinkNews of LiveHasLink.
LEMMA NoNewsIsLinkNews == NoNews <=> Wpa!LinkNews = {}
BY DEF NoNews, Wpa!LinkNews

\* Only CONNECTED lifts a path that is down; only a level changes one that is live.
LEMMA LiveKept ==
    ASSUME NEW ev, ev.type \notin {"Connected"}, nextState(state, ev) \in Live
    PROVE  state \in Live
BY DEF nextState, Live, Grade, Weaken

\* Disconnected and Terminating end in a state that is not live.
LEMMA DownNews ==
    ASSUME NEW ev, ev.type \in {"Disconnected", "Terminating"}
    PROVE  nextState(state, ev) \notin Live
BY DEF nextState, Live

\* A dispatch applies the oldest message; the last news stays the last.
LEMMA DispatchPreservesLinkInv ==
    ASSUME WpaInv, LinkInv, Dispatch
    PROVE  LinkInv'
<1> DEFINE raw == Head(queue)
<1>1. /\ queue \in Seq(Wpa!Raw) /\ queue # <<>> /\ queue' = Tail(queue)
      /\ link' = link /\ missed' = missed
      /\ state' = nextState(state, Wpa!parseEvent(raw))
    BY DEF WpaInv, Wpa!TypeOK, Dispatch, Wpa!handleEvent, onWpaEvent, transition
<1>2. /\ Len(queue) \in Nat \ {0} /\ Len(queue') = Len(queue) - 1
      /\ \A i \in 1 .. Len(queue') : queue'[i] = queue[i + 1]
      /\ raw = queue[1]
    BY <1>1
<1>shift. \A j \in 1 .. Len(queue) : j > 1 =>
         j - 1 \in 1 .. Len(queue') /\ queue'[j - 1] = queue[j]
    <2> TAKE j \in 1 .. Len(queue)
    <2> HAVE j > 1
    <2>1. j - 1 \in 1 .. Len(queue') /\ (j - 1) + 1 = j
        BY <1>2
    <2> QED
        BY <1>2, <2>1
<1>3. ASSUME ~missed, NoNews', state' \in Live
      PROVE  link
    <2>rest. \A j \in 1 .. Len(queue) : j > 1 => queue[j].kind \notin Wpa!LinkKinds
        BY <1>3, <1>shift DEF NoNews
    <2>1. CASE raw.kind \in Wpa!LinkKinds
        <3>1. LastNews(1)
            BY <1>2, <2>1, <2>rest DEF LastNews, IsNews
        <3>2. CASE raw.kind = "CONNECTED"
            BY <1>2, <1>3, <3>1, <3>2 DEF LinkInv
        <3>3. CASE raw.kind \in {"DISCONNECTED", "TERMINATING"}
            <4>1. Wpa!parseEvent(raw).type \in {"Disconnected", "Terminating"}
                BY <3>3 DEF Wpa!parseEvent, Wpa!EventType
            <4> QED
                BY <4>1, <1>1, <1>3, DownNews
        <3> QED
            BY <2>1, <3>2, <3>3 DEF Wpa!LinkKinds
    <2>2. CASE raw.kind \notin Wpa!LinkKinds
        <3>1. NoNews
            BY <1>2, <2>2, <2>rest DEF NoNews
        <3>2. Wpa!parseEvent(raw).type \notin {"Connected"}
            BY <2>2 DEF Wpa!parseEvent, Wpa!EventType, Wpa!LinkKinds
        <3>3. state \in Live
            BY <1>1, <1>3, <3>2, LiveKept
        <3> QED
            BY <1>3, <3>1, <3>3 DEF LinkInv
    <2> QED
        BY <2>1, <2>2
<1>4. ASSUME NEW i \in 1 .. Len(queue'), ~missed, LastNews(i)', queue'[i].kind = "CONNECTED"
      PROVE  link
    <2>1. i + 1 \in 1 .. Len(queue) /\ LastNews(i + 1) /\ queue[i + 1].kind = "CONNECTED"
        <3>1. i + 1 \in 1 .. Len(queue) /\ queue[i + 1] = queue'[i]
            BY <1>2
        <3>2. ASSUME NEW j \in 1 .. Len(queue), j > i + 1
              PROVE  queue[j].kind \notin Wpa!LinkKinds
            <4>1. j > 1 /\ j - 1 > i
                BY <3>2
            <4> QED
                BY <1>4, <1>shift, <3>2, <4>1 DEF LastNews
        <3> QED
            BY <1>4, <3>1, <3>2 DEF LastNews, IsNews
    <2> QED
        BY <2>1, <1>4 DEF LinkInv
<1> QED
    BY <1>1, <1>3, <1>4 DEF LinkInv

\* A message that is appended: the last news, or no news.
LEMMA AppendNews ==
    ASSUME queue \in Seq(Wpa!Raw), NEW raw \in Wpa!Raw, queue' = Append(queue, raw)
    PROVE  /\ raw.kind \in Wpa!LinkKinds =>
                 /\ ~NoNews'
                 /\ \A i \in 1 .. Len(queue') : LastNews(i)' => queue'[i] = raw
           /\ raw.kind \notin Wpa!LinkKinds =>
                 /\ NoNews' => NoNews
                 /\ \A i \in 1 .. Len(queue') : LastNews(i)' =>
                       i \in 1 .. Len(queue) /\ LastNews(i) /\ queue'[i] = queue[i]
<1>1. /\ Len(queue) \in Nat /\ Len(queue') = Len(queue) + 1
      /\ queue'[Len(queue) + 1] = raw
      /\ \A i \in 1 .. Len(queue) : queue'[i] = queue[i]
    OBVIOUS
<1> QED
    BY <1>1 DEF NoNews, LastNews, IsNews

\* News that the link is gone: told last, or missed.
LEMMA TellDownPreservesLinkInv ==
    ASSUME WpaInv, NEW kind \in {"DISCONNECTED", "TERMINATING"}, Wpa!Tell(Wpa!Msg(kind))
    PROVE  LinkInv'
<1> DEFINE raw == Wpa!Msg(kind)
<1>1. raw \in Wpa!Raw /\ raw.kind \in Wpa!LinkKinds /\ raw.kind # "CONNECTED"
    BY DEF Wpa!Msg, Wpa!Raw, Wpa!LinkKinds
<1>2. CASE ~Wpa!Room
    BY <1>2 DEF Wpa!Tell, LinkInv
<1>3. CASE Wpa!Room
    <2>1. queue' = Append(queue, raw) /\ queue \in Seq(Wpa!Raw)
        BY <1>3 DEF Wpa!Tell, WpaInv, Wpa!TypeOK
    <2> QED
        BY <1>1, <2>1, AppendNews DEF LinkInv
<1> QED
    BY <1>2, <1>3

\* A change of the link is told last, or missed.
LEMMA SupplicantPreservesLinkInv ==
    ASSUME WpaInv, LinkInv, Wpa!SupplicantStep, UNCHANGED fsmVars
    PROVE  LinkInv'
<1>1. CASE Wpa!LinkUp
    BY <1>1 DEF Wpa!LinkUp, LinkInv
<1>2. CASE Wpa!LinkDown
    BY <1>2, TellDownPreservesLinkInv DEF Wpa!LinkDown
<1>3. CASE Wpa!Chatter
    <2>1. PICK raw \in Wpa!Raw : /\ raw.kind = "OTHER" \/ raw.kind = "SIGNAL-CHANGE"
                                /\ queue' = Append(queue, raw)
        BY <1>3 DEF Wpa!Chatter
    <2>2. raw.kind \notin Wpa!LinkKinds /\ queue \in Seq(Wpa!Raw)
        BY <2>1 DEF Wpa!LinkKinds, WpaInv, Wpa!TypeOK
    <2>3. link' = link /\ missed' = missed /\ state' = state
        BY <1>3 DEF Wpa!Chatter, fsmVars
    <2> QED
        BY <2>1, <2>2, <2>3, AppendNews DEF LinkInv
<1>4. CASE Wpa!Terminate
    BY <1>4, TellDownPreservesLinkInv DEF Wpa!Terminate
<1>5. CASE Wpa!Crash
    BY <1>5 DEF Wpa!Crash, LinkInv
<1>6. CASE Wpa!Restart
    BY <1>6 DEF Wpa!Restart, fsmVars, LinkInv, NoNews, LastNews, IsNews
<1> QED
    BY <1>1, <1>2, <1>3, <1>4, <1>5, <1>6 DEF Wpa!SupplicantStep

\* Nothing else than these four variables matters.
LEMMA UnchangedPreservesLinkInv ==
    ASSUME LinkInv, UNCHANGED <<state, link, queue, missed>>
    PROVE  LinkInv'
BY DEF LinkInv, NoNews, LastNews, IsNews

\* A detach, or a close, that drops news counts as missed; an attach drops nothing.
LEMMA ThreadPreservesLinkInv ==
    ASSUME WpaInv, LinkInv, Wpa!ThreadStep, UNCHANGED fsmVars
    PROVE  LinkInv'
<1> DEFINE Kept == UNCHANGED <<state, link, queue, missed>>
<1>1. ASSUME Wpa!LoseQueue, link' = link, state' = state
      PROVE  LinkInv'
    <2>1. queue' = <<>>
        BY <1>1 DEF Wpa!LoseQueue
    <2>2. ~missed' => ~missed /\ NoNews
        BY <1>1, NoNewsIsLinkNews DEF Wpa!LoseQueue
    <2> QED
        BY <1>1, <2>1, <2>2 DEF LinkInv
<1>2. CASE Wpa!AttachOk
    <2>1. queue = <<>>
        BY <1>2 DEF Wpa!AttachOk, Wpa!Goto, WpaInv, InLoop
    <2>2. UNCHANGED <<state, link, queue, missed>>
        BY <1>2, <2>1 DEF Wpa!AttachOk, fsmVars
    <2> QED
        BY <2>2, UnchangedPreservesLinkInv
<1>3. CASE Wpa!Detach
    <2>1. link' = link /\ state' = state /\ (Wpa!LoseQueue \/ Kept)
        BY <1>3 DEF Wpa!Detach, Wpa!wpa_ctrl_detach, fsmVars
    <2> QED
        BY <1>1, <2>1, UnchangedPreservesLinkInv
<1>4. CASE Wpa!Close \/ Wpa!AttachFail
    <2>1. link' = link /\ state' = state /\ Wpa!LoseQueue
        BY <1>4 DEF Wpa!Close, Wpa!AttachFail, Wpa!wpa_ctrl_close, fsmVars
    <2> QED
        BY <1>1, <2>1
<1>5. CASE Wpa!Open
    <2>1. Kept
        BY <1>5 DEF Wpa!Open, fsmVars
    <2> QED
        BY <2>1, UnchangedPreservesLinkInv
<1>6. CASE ~Wpa!Detach /\ ~Wpa!Close /\ ~Wpa!AttachFail /\ ~Wpa!AttachOk /\ ~Wpa!Open
    <2>1. UNCHANGED Wpa!supplicantVars
        BY <1>6 DEF Wpa!ThreadStep, Wpa!Start, Wpa!EventLoopTest,
           Wpa!PollTimeout, Wpa!PollError, Wpa!Recheck, Wpa!Predicate, Wpa!StopTest,
           Wpa!Block, Wpa!Wake, Wpa!EndSleep, Wpa!Exit
    <2>2. UNCHANGED <<state, link, queue, missed>>
        BY <2>1 DEF Wpa!supplicantVars, fsmVars
    <2> QED
        BY <2>2, UnchangedPreservesLinkInv
<1> QED
    BY <1>2, <1>3, <1>4, <1>5, <1>6

\* Every step of the class preserves it.
LEMMA StepPreservesLinkInv ==
    ASSUME WpaInv, LinkInv, [Next]_vars
    PROVE  LinkInv'
<1>1. CASE Dispatch
    BY <1>1, DispatchPreservesLinkInv
<1>2. CASE Thread
    BY <1>2, ThreadPreservesLinkInv DEF Thread
<1>3. CASE Main
    <2>1. UNCHANGED <<state, link, queue, missed>>
        BY <1>3 DEF Main, Wpa!MainStep, Wpa!StopStore, Wpa!StopNotify, Wpa!Join,
                    Wpa!supplicantVars, fsmVars
    <2> QED
        BY <2>1, UnchangedPreservesLinkInv
<1>4. CASE Supplicant
    BY <1>4, SupplicantPreservesLinkInv DEF Supplicant
<1>5. CASE Kernel \/ UNCHANGED vars
    <2>1. UNCHANGED <<state, link, queue, missed>>
        BY <1>5 DEF Kernel, KernelStep, DhcpBound, IfaceDown, vars, wpaVars, fsmVars
    <2> QED
        BY <2>1, UnchangedPreservesLinkInv
<1> QED
    BY <1>1, <1>2, <1>3, <1>4, <1>5 DEF Next

\* A machine starts in Idle, which is not live.
LEMMA LinkInitInv == Init => LinkInv
BY DEF Init, FsmInit, Wpa!Init, LinkInv, Live

(***************************************************************************)
(* The state of the path follows the link, for every stream of messages,   *)
(* every loss of messages and every thresholds: a monitor that missed no   *)
(* change of the link and has dispatched all it was told never holds a     *)
(* path in use whose link is gone.                                         *)
(***************************************************************************)
THEOREM PathFollowsLink == Spec => []LiveHasLink
<1>1. Init => LinkInv
    BY LinkInitInv
<1>2. WpaInv /\ LinkInv /\ [Next]_vars => LinkInv'
    BY StepPreservesLinkInv
<1>3. LinkInv => LiveHasLink
    BY NoNewsIsLinkNews DEF LinkInv, LiveHasLink
<1> QED
    BY <1>1, <1>2, <1>3, WpaInvariant, PTL DEF Spec

=============================================================================
