------------------------ MODULE NotificationService ------------------------
(***************************************************************************)
(* What the consumer API promises to consumers, without threads, sockets,  *)
(* descriptors or locks: path classes publish states, connections hold     *)
(* subscriptions, and every state that is published reaches every          *)
(* subscriber of its class or ends the subscription.                       *)
(***************************************************************************)
EXTENDS Integers

CONSTANTS Classes, Conns

VARIABLES
    now,        \* Classes: how many states the class has published
    delivered,  \* Classes: how many of them were delivered
    subs,       \* the subscriptions: [conn, class, handle]
    issued,     \* handles given out so far
    heard       \* <<conn, class, n>>: the n-th state of the class reached conn

vars == <<now, delivered, subs, issued, heard>>

Init ==
    /\ now = [k \in Classes |-> 0] /\ delivered = [k \in Classes |-> 0]
    /\ subs = {} /\ issued = 0
    /\ heard = {}

\* A state is published when the one before it has been delivered.
Publish(k) ==
    /\ delivered[k] = now[k]
    /\ now' = [now EXCEPT ![k] = @ + 1]
    /\ UNCHANGED <<delivered, subs, issued, heard>>

\* A subscription has a handle that was never used and replaces an earlier one of
\* its connection; one whose connection is being closed is over at once.
Subscribe(c, k) ==
    LET others == {s \in subs : s.conn # c} IN
    /\ issued' = issued + 1
    /\ subs' \in {others, others \cup {[conn |-> c, class |-> k, handle |-> issued + 1]}}
    /\ UNCHANGED <<now, delivered, heard>>

\* The state reaches some connections; a subscriber it does not reach is one no more.
Deliver(k, reached) ==
    /\ delivered[k] < now[k]
    /\ delivered' = [delivered EXCEPT ![k] = now[k]]
    /\ heard' = heard \cup {<<c, k, now[k]>> : c \in reached}
    /\ subs' = {s \in subs : s.class # k \/ s.conn \in reached}
    /\ UNCHANGED <<now, issued>>

\* Subscriptions end: unregistration, hangup, a bad request, the end of the server.
End ==
    /\ subs' \subseteq subs
    /\ UNCHANGED <<now, delivered, issued, heard>>

Next ==
    \/ \E k \in Classes : Publish(k) \/ \E reached \in SUBSET Conns : Deliver(k, reached)
    \/ \E c \in Conns, k \in Classes : Subscribe(c, k)
    \/ End

Spec == Init /\ [][Next]_vars

=============================================================================
