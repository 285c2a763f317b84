----------------------------- MODULE FeedClient -----------------------------
(***************************************************************************)
(* The dashboard's connection to the gateway (src/frontend/src/hooks/      *)
(* useWebSocket.ts, utils/satelliteChunks.ts). A run of the React effect   *)
(* owns sockets, one after the other; each socket has a chunk assembler    *)
(* and a recovery loop that asks the gateway's /snapshot over HTTP. The    *)
(* user may disconnect the feed, which disposes the run of the effect, and *)
(* reconnect it, which starts another. JavaScript runs one callback at a   *)
(* time, so a callback is an action; sockets, timers and fetches of a      *)
(* disposed run may still call back.                                       *)
(*                                                                         *)
(* Only the satellite feed is modelled. A snapshot is a version number, in *)
(* frames of rows that the gateway sends on a socket without a gap. Time   *)
(* is left out: a timer may fire whenever it is armed, a frame may come    *)
(* later than a minute after its transfer began.                           *)
(***************************************************************************)
EXTENDS Integers, Sequences, FiniteSets

CONSTANTS
    Chunks,     \* frames of a snapshot
    MaxVersion, \* snapshots published (a bound)
    MaxToggles, \* times the user toggles the feed (a bound)
    MaxDrops    \* sockets lost, connects and fetches failed (a bound)

ASSUME ChunksAssumption == Chunks \in Nat \ {0}
ASSUME BoundsAssumption == {MaxVersion, MaxToggles, MaxDrops} \subseteq Nat

\* Each socket but the first replaces one that was dropped or closed.
Sockets == 1..(1 + MaxToggles + MaxDrops)
Effects == 1..(1 + MaxToggles)

VARIABLES
    version,   \* gateway: snapshot in the state cache, 0 for none
    paused,    \* useFeedCapture.paused
    effects,   \* runs of the effect so far
    live,      \* the run that is not disposed, 0 while paused
    armed,     \* per run of the effect: reconnect timers that will fire
    sockets,   \* sockets created so far
    sock,      \* "none", "connecting", "open", "closed" (the close event is
               \* still to come) or "gone"
    owner,     \* per socket: the run of the effect that created it
    ref,       \* wsRef.current, 0 for null
    wire,      \* per socket: frames underway
    assembler, \* per socket: state of its satelliteChunkAssembler
    recovery,  \* per socket: its request of /snapshot, "none", "asked", "answered"
    replied,   \* per socket: version in the reply
    connected, \* store.isConnectedToBackend
    shown,     \* store.satellites
    toggles, drops

vars == <<version, paused, effects, live, armed, sockets, sock, owner, ref, wire,
          assembler, recovery, replied, connected, shown, toggles, drops>>

\* Row blocks of version v, in order; no satellites before the first version.
Snapshot(v) == IF v = 0 THEN <<>> ELSE [i \in 1..Chunks |-> [id |-> v, index |-> i]]

Idle == [id |-> 0, rows |-> <<>>, next |-> 1]
Active(s) == sock[s] \in {"connecting", "open"}

\* The first run of the effect has connected and asked for a snapshot.
Init ==
    /\ version = 0 /\ paused = FALSE
    /\ effects = 1 /\ live = 1
    /\ armed = [e \in Effects |-> 0]
    /\ sockets = 1 /\ ref = 1
    /\ sock = [s \in Sockets |-> IF s = 1 THEN "connecting" ELSE "none"]
    /\ owner = [s \in Sockets |-> IF s = 1 THEN 1 ELSE 0]
    /\ wire = [s \in Sockets |-> <<>>]
    /\ assembler = [s \in Sockets |-> Idle]
    /\ recovery = [s \in Sockets |-> IF s = 1 THEN "asked" ELSE "none"]
    /\ replied = [s \in Sockets |-> 0]
    /\ connected = FALSE /\ shown = <<>>
    /\ toggles = 0 /\ drops = 0

\* connect() of run e, past its guards: a socket, and a request for the
\* snapshot unless the satellites shown are recent.
Connect(e) ==
    LET s == sockets + 1
    IN  /\ sockets' = s /\ ref' = s
        /\ sock' = [sock EXCEPT ![s] = "connecting"]
        /\ owner' = [owner EXCEPT ![s] = e]
        /\ \E r \in IF shown = <<>> THEN {"asked"} ELSE {"asked", "none"} :
              recovery' = [recovery EXCEPT ![s] = r]

-----------------------------------------------------------------------------
(* The user disconnects and reconnects the feed.                           *)

Toggle ==
    /\ toggles < MaxToggles
    /\ toggles' = toggles + 1
    /\ paused' = ~paused
    /\ UNCHANGED <<version, effects, live, armed, sockets, sock, owner, ref, wire,
                   assembler, recovery, replied, connected, shown, drops>>

\* React runs the cleanup of the effect, and the effect that stays idle.
Dispose ==
    /\ paused /\ live # 0
    /\ live' = 0
    /\ armed' = [armed EXCEPT ![live] = IF @ > 0 THEN @ - 1 ELSE 0]
    /\ ref' = 0
    /\ sock' = IF ref # 0 THEN [sock EXCEPT ![ref] = "closed"] ELSE sock
    /\ wire' = IF ref # 0 THEN [wire EXCEPT ![ref] = <<>>] ELSE wire
    /\ connected' = FALSE
    /\ UNCHANGED <<version, paused, effects, sockets, owner, assembler, recovery,
                   replied, shown, toggles, drops>>

Resume ==
    /\ ~paused /\ live = 0
    /\ effects' = effects + 1 /\ live' = effects + 1
    /\ Connect(effects + 1)
    /\ UNCHANGED <<version, paused, armed, wire, assembler, replied, connected,
                   shown, toggles, drops>>

-----------------------------------------------------------------------------
(* Socket events and the reconnect timer.                                  *)

\* The gateway greets a connection with its cached state.
Open(s) ==
    /\ sock[s] = "connecting"
    /\ sock' = [sock EXCEPT ![s] = "open"]
    /\ wire' = [wire EXCEPT ![s] = Snapshot(version)]
    /\ connected' = (live = owner[s] \/ connected)
    /\ UNCHANGED <<version, paused, effects, live, armed, sockets, owner, ref,
                   assembler, recovery, replied, shown, toggles, drops>>

\* The connection fails or is lost; the error handler only closes the socket.
Drop(s) ==
    /\ Active(s) /\ drops < MaxDrops
    /\ drops' = drops + 1
    /\ sock' = [sock EXCEPT ![s] = "closed"]
    /\ wire' = [wire EXCEPT ![s] = <<>>]
    /\ UNCHANGED <<version, paused, effects, live, armed, sockets, owner, ref,
                   assembler, recovery, replied, connected, shown, toggles>>

\* Variants: the flag is left alone;
\* no reconnect is scheduled.
CloseEventOf(s, current) ==
    /\ sock[s] = "closed"
    /\ sock' = [sock EXCEPT ![s] = "gone"]
    /\ IF current
       THEN /\ connected' = FALSE /\ ref' = 0
            /\ armed' = [armed EXCEPT ![owner[s]] = @ + 1]
       ELSE UNCHANGED <<connected, ref, armed>>
    /\ UNCHANGED <<version, paused, effects, live, sockets, owner, wire, assembler,
                   recovery, replied, shown, toggles, drops>>
CloseEventSilent(s) ==
    /\ sock[s] = "closed"
    /\ sock' = [sock EXCEPT ![s] = "gone"]
    /\ IF live = owner[s]
       THEN ref' = 0 /\ armed' = [armed EXCEPT ![owner[s]] = @ + 1]
       ELSE UNCHANGED <<ref, armed>>
    /\ UNCHANGED <<version, paused, effects, live, sockets, owner, wire, assembler,
                   recovery, replied, connected, shown, toggles, drops>>
CloseEventFinal(s) == CloseEventOf(s, FALSE)

CloseEvent(s) == CloseEventOf(s, live = owner[s])

\* connect() does nothing in a disposed run or beside an active socket.
ReconnectTimer(e) ==
    /\ armed[e] > 0
    /\ armed' = [armed EXCEPT ![e] = @ - 1]
    /\ IF live = e /\ ~(ref # 0 /\ Active(ref))
       THEN Connect(e)
       ELSE UNCHANGED <<sockets, ref, sock, owner, recovery>>
    /\ UNCHANGED <<version, paused, effects, live, wire, assembler, replied,
                   connected, shown, toggles, drops>>

-----------------------------------------------------------------------------
(* Satellite snapshots over the socket.                                    *)

\* The engine's next cycle reaches the gateway, which broadcasts it.
Publish ==
    /\ version < MaxVersion
    /\ version' = version + 1
    /\ wire' = [s \in Sockets |->
          IF sock[s] = "open" THEN wire[s] \o Snapshot(version + 1) ELSE wire[s]]
    /\ UNCHANGED <<paused, effects, live, armed, sockets, sock, owner, ref, assembler,
                   recovery, replied, connected, shown, toggles, drops>>

\* Variant: a frame that comes too late is skipped, not the transfer.
AssembleSkipping(a, f, late) ==
    LET b == IF f.index = 1 THEN [id |-> f.id, rows |-> <<>>, next |-> 1] ELSE a
    IN  IF f.id # b.id \/ f.index # b.next THEN Idle
        ELSE [b EXCEPT !.next = @ + 1, !.rows = IF late THEN @ ELSE Append(@, f)]

\* The assembler a after frame f, before a finished transfer is taken out.
Assemble(a, f, late) ==
    LET b == IF f.index = 1 THEN [id |-> f.id, rows |-> <<>>, next |-> 1] ELSE a
    IN  IF f.id # b.id \/ f.index # b.next \/ late
        THEN [b EXCEPT !.id = 0, !.rows = <<>>]
        ELSE [b EXCEPT !.rows = Append(@, f), !.next = @ + 1]

ReceiveFrame(s, late) ==
    /\ sock[s] = "open" /\ wire[s] # <<>>
    /\ late => Head(wire[s]).index > 1
    /\ wire' = [wire EXCEPT ![s] = Tail(@)]
    /\ LET a == Assemble(assembler[s], Head(wire[s]), late)
           finished == a.id # 0 /\ a.next > Chunks
       IN  /\ assembler' = [assembler EXCEPT ![s] =
                 IF finished THEN [a EXCEPT !.id = 0, !.rows = <<>>] ELSE a]
           /\ shown' = IF finished /\ live = owner[s] THEN a.rows ELSE shown
    /\ UNCHANGED <<version, paused, effects, live, armed, sockets, sock, owner, ref,
                   recovery, replied, connected, toggles, drops>>

-----------------------------------------------------------------------------
(* Satellite snapshots over HTTP.                                          *)

\* The interval of a socket runs until its close event; a request that is
\* underway ends, at the latest by its timeout, before the interval does.
Recover(s) ==
    /\ sock[s] \in {"connecting", "open", "closed"}
    /\ live = owner[s]
    /\ recovery[s] = "none"
    /\ recovery' = [recovery EXCEPT ![s] = "asked"]
    /\ UNCHANGED <<version, paused, effects, live, armed, sockets, sock, owner, ref,
                   wire, assembler, replied, connected, shown, toggles, drops>>

\* GET /snapshot
ServeSnapshot(s) ==
    /\ recovery[s] = "asked"
    /\ recovery' = [recovery EXCEPT ![s] = "answered"]
    /\ replied' = [replied EXCEPT ![s] = version]
    /\ UNCHANGED <<version, paused, effects, live, armed, sockets, sock, owner, ref,
                   wire, assembler, connected, shown, toggles, drops>>

\* An HTTP error, a network error or the timeout of 20 s.
RecoveryFails(s) ==
    /\ recovery[s] # "none" /\ drops < MaxDrops
    /\ drops' = drops + 1
    /\ recovery' = [recovery EXCEPT ![s] = "none"]
    /\ UNCHANGED <<version, paused, effects, live, armed, sockets, sock, owner, ref,
                   wire, assembler, replied, connected, shown, toggles>>

TakeReply(s, current) ==
    /\ recovery[s] = "answered"
    /\ recovery' = [recovery EXCEPT ![s] = "none"]
    /\ shown' = IF current /\ replied[s] # 0 THEN Snapshot(replied[s]) ELSE shown
    /\ UNCHANGED <<version, paused, effects, live, armed, sockets, sock, owner, ref,
                   wire, assembler, replied, connected, toggles, drops>>

\* Variant: the reply is not checked against the disposal of its run.
TakeReplyAlways(s) == TakeReply(s, TRUE)

\* A reply without satellites changes nothing, nor does a disposed run.
RecoveryReply(s) == TakeReply(s, live = owner[s])

Next ==
    \/ Toggle \/ Dispose \/ Resume \/ Publish
    \/ \E e \in Effects : ReconnectTimer(e)
    \/ \E s \in Sockets :
          \/ Open(s) \/ Drop(s) \/ CloseEvent(s)
          \/ \E late \in BOOLEAN : ReceiveFrame(s, late)
          \/ Recover(s) \/ ServeSnapshot(s) \/ RecoveryFails(s) \/ RecoveryReply(s)

Spec == Init /\ [][Next]_vars

\* Callbacks that are due are run, connects and requests are answered, and the
\* recovery interval asks again while the satellites shown grow old.
Fairness ==
    /\ WF_vars(Dispose) /\ WF_vars(Resume)
    /\ \A e \in Effects : WF_vars(ReconnectTimer(e))
    /\ \A s \in Sockets :
          /\ WF_vars(Open(s)) /\ WF_vars(CloseEvent(s))
          /\ WF_vars(\E late \in BOOLEAN : ReceiveFrame(s, late))
          /\ WF_vars(Recover(s) /\ shown # Snapshot(version))
          /\ WF_vars(ServeSnapshot(s)) /\ WF_vars(RecoveryReply(s))

FairSpec == Spec /\ Fairness

-----------------------------------------------------------------------------
(* Properties.                                                             *)

\* The variables are typed; a run of the effect has at most one reconnect timer.
TypeOK ==
    /\ version \in 0..MaxVersion /\ toggles \in 0..MaxToggles /\ drops \in 0..MaxDrops
    /\ paused \in BOOLEAN /\ connected \in BOOLEAN
    /\ effects \in Effects /\ live \in {0, effects}
    /\ armed \in [Effects -> {0, 1}]
    /\ sockets \in Sockets /\ ref \in 0..sockets
    /\ sock \in [Sockets -> {"none", "connecting", "open", "closed", "gone"}]
    /\ owner \in [Sockets -> 0..effects]
    /\ \A s \in Sockets : sock[s] = "none" <=> s > sockets
    /\ \A s \in Sockets : Len(wire[s]) <= Chunks * MaxVersion
    /\ recovery \in [Sockets -> {"none", "asked", "answered"}]
    /\ replied \in [Sockets -> 0..version]

\* The catalog shown is a whole snapshot, although sockets are lost in the
\* middle of a transfer, frames come too late and the feed is toggled: the
\* promise of satelliteChunks.ts never to publish a partial transfer.
ShownWhole == \E v \in 0..version : shown = Snapshot(v)

\* A socket that is connecting or open is the one wsRef holds, so that no
\* second one is opened beside it and disconnecting closes it; and the state
\* shown is that of a socket of the current run of the effect: connected only
\* between its open event and its close event.
SocketsCoherent ==
    /\ \A s \in Sockets : Active(s) => s = ref
    /\ connected => ref # 0 /\ owner[ref] = live /\ sock[ref] \in {"open", "closed"}
    /\ \A s \in Sockets : sock[s] = "open" => connected

\* After the feed was disconnected nothing that is still underway, be it a
\* frame, a reply or a timer, changes the catalog or reports a connection.
DisconnectedIsQuiet ==
    [][live = 0 => shown' = shown /\ ~connected']_vars

\* Unless the user keeps it disconnected, the dashboard always gets to a live
\* connection and the gateway's snapshot, after any lost sockets and requests
\* and also when a reply of /snapshot overtook a newer snapshot.
ComesToShowCurrent ==
    []<>(paused \/ (connected /\ shown = Snapshot(version)))
=============================================================================
