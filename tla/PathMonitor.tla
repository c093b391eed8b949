----------------------------- MODULE PathMonitor -----------------------------
(***************************************************************************)
(* One path class as main.cpp wires it: a WpaMonitor whose callback feeds  *)
(* the class's PathStateFsm, on the monitor's thread.  The two share no    *)
(* state; they meet in the dispatch of a message.                          *)
(***************************************************************************)
EXTENDS PathStateFsm, Sequences

CONSTANTS RssiFields, NoField, Trouble, MaxQueue, MaxRestarts

VARIABLES pc, stopRequested, backoff, notified, mainPc,
          supplicant, restarts, link, connected, attached, stale,
          queue, missed, orphaned

Wpa == INSTANCE WpaMonitor

\* Every level the parser can produce is a level of the state machine.
ASSUME RssiAssumption == Rssi = RssiFields \cup {0}

ASSUME WpaAssumption == Wpa!MonitorAssumption

wpaVars == <<pc, stopRequested, backoff, notified, mainPc,
             supplicant, restarts, link, connected, attached, stale,
             queue, missed, orphaned>>
vars == <<fsmVars, wpaVars>>

-----------------------------------------------------------------------------
Init == FsmInit /\ Wpa!Init

\* callback_(ev): the state machine and its callbacks run before the monitor
\* looks at its next message.
Dispatch ==
    /\ Wpa!handleEvent
    /\ onWpaEvent(Wpa!parseEvent(Head(queue)))

Thread == Wpa!ThreadStep /\ UNCHANGED fsmVars
Main == Wpa!MainStep /\ UNCHANGED fsmVars
Supplicant == Wpa!SupplicantStep /\ UNCHANGED fsmVars
Kernel == KernelStep /\ UNCHANGED wpaVars

Next == Dispatch \/ Thread \/ Main \/ Supplicant \/ Kernel

Spec == Init /\ [][Next]_vars

(***************************************************************************)
(* Fairness: the monitor thread is scheduled, and poll() has a timeout, so *)
(* a message on the socket is dispatched.  Nothing is assumed of the       *)
(* supplicant, of DHCP or of the kernel.                                   *)
(***************************************************************************)
FairSpec == Spec /\ WF_vars(Dispatch \/ Thread)

-----------------------------------------------------------------------------
TypeOK == FsmTypeOK /\ Wpa!TypeOK

(***************************************************************************)
(* The state of the path follows the link: when the monitor was told of    *)
(* the last change of the link and has dispatched all it was told, a path  *)
(* that is in use has a link under it.  (What happens while the monitor is *)
(* detached is never told: start() does not ask for the status when it     *)
(* attaches.)                                                              *)
(***************************************************************************)
LiveHasLink == (state \in Live /\ ~missed /\ Wpa!LinkNews = {}) => link

-----------------------------------------------------------------------------
(* What comments and documents say and the code does not do.               *)

\* PLANNING.md:294: "wlan0 route present when WiFi up": a path that stays up on an
\* interface that has a gateway gets its route.
UpGetsRoute ==
    (state = "PathUp" /\ lease = "gateway")
        ~> (route \/ state # "PathUp" \/ lease # "gateway" \/ mainPc # "running")

=============================================================================
