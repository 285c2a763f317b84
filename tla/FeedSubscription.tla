-------------------------- MODULE FeedSubscription --------------------------
(***************************************************************************)
(* What the gateway promises a dashboard connection, without queues,       *)
(* locks, goroutines or sockets: every feed has one current version, and   *)
(* what a connection displays of a feed                                    *)
(*   - starts at some version that was already published,                  *)
(*   - then advances one published version at a time, never backwards and  *)
(*     never past a version it did not show.                               *)
(* A connection may stop being served at any moment: it then reconnects    *)
(* under another identity. GatewayHub implements this specification.       *)
(***************************************************************************)
EXTENDS Naturals

CONSTANTS Clients, \* connection identities
          Feeds    \* the feed kinds of the dashboard

VARIABLES published, \* published[f]: versions of feed f published so far
          view       \* view[c][f]: the version connection c shows, 0 for none

vars == <<published, view>>

Init ==
    /\ published = [f \in Feeds |-> 0]
    /\ view = [c \in Clients |-> [f \in Feeds |-> 0]]

Publish(f) ==
    /\ published' = [published EXCEPT ![f] = @ + 1]
    /\ UNCHANGED view

\* The first version shown is any published one; after that, the next one.
Show(c, f) ==
    /\ \E v \in 1..published[f] :
          /\ view[c][f] = 0 \/ v = view[c][f] + 1
          /\ view' = [view EXCEPT ![c][f] = v]
    /\ UNCHANGED published

Next ==
    \/ \E f \in Feeds : Publish(f)
    \/ \E c \in Clients, f \in Feeds : Show(c, f)

Spec == Init /\ [][Next]_vars
=============================================================================
