---------------------------- MODULE SessionProofs ---------------------------
(***************************************************************************)
(* Proofs about a session of the program: how the launcher starts and ends *)
(* it (Launcher), how the feed client fills the dashboard's stores         *)
(* (FeedClient) and how the panels share them (Workspace).                 *)
(*                                                                         *)
(* The feed client, for any length of a snapshot and any number of         *)
(* versions, toggles and losses: the variables are typed, no second socket *)
(* is opened beside an active one, the catalog shown is a whole snapshot,  *)
(* and a feed that was disconnected stays quiet.  A run of the effect that *)
(* is not disposed has either one socket, the one wsRef holds, or one      *)
(* reconnect timer (Runs), and each of the sockets but the first was paid  *)
(* for by a toggle or a loss (Counted).  An assembler that has a transfer  *)
(* holds its frames so far, in order and of one version (Whole), whatever  *)
(* frames it is given.                                                     *)
(*                                                                         *)
(* The workspace, for any satellites, reports, modes, panels and layers:   *)
(* selection and panels agree, and one owner has the camera.  A handler is *)
(* composed of operators on the stores, so the argument is one lemma for   *)
(* each.  Whoever follows was asked to: the follower has the camera only   *)
(* while a follow or a preview is set (Owned), none is set while a         *)
(* satellite is selected, and all are set in the aerospace panel, which    *)
(* stands alone (Good).  What a subscriber does on the way takes follows   *)
(* back and opens nothing (Turns).                                         *)
(*                                                                         *)
(* The launcher, for any number of launchers, services and crashes: its    *)
(* variables are typed, a session that ends leaves no service behind, and  *)
(* two sessions never start services at the same time as long as no        *)
(* launcher has mistaken the lock of another for a stale one.  A session   *)
(* that has not freed its lock owns it (LockOwned), and no other does      *)
(* (Exclusive).  A launcher that removes a lock read from it a process     *)
(* that it then found dead, and a process that ended never runs again      *)
(* (HolderGone); so if the lock still names that process, no session owns  *)
(* it.                                                                     *)
(***************************************************************************)
EXTENDS FeedClient, Workspace, Launcher, SequenceTheorems, TLAPS

-----------------------------------------------------------------------------
(* FeedClient. *)

States == {"none", "connecting", "open", "closed", "gone"}
Rows(v) == [id : 1..v, index : 1..Chunks]

Typed ==
    /\ version \in 0..MaxVersion /\ toggles \in 0..MaxToggles /\ drops \in 0..MaxDrops
    /\ paused \in BOOLEAN /\ connected \in BOOLEAN
    /\ effects \in Nat /\ effects > 0 /\ live \in {0, effects}
    /\ armed \in [Effects -> {0, 1}]
    /\ sockets \in Nat /\ sockets > 0 /\ ref \in 0..sockets
    /\ sock \in [Sockets -> States]
    /\ owner \in [Sockets -> 0..effects]

\* The run that is not disposed has its one socket or its one timer; the others
\* have none that is active or will be.
Runs ==
    /\ \A s \in Sockets : sock[s] = "none" <=> s > sockets
    /\ \A s \in Sockets : s <= sockets => owner[s] # 0
    /\ \A e \in Effects : armed[e] > 0 => e = live /\ ref = 0
    /\ ref # 0 => live # 0 /\ owner[ref] = live /\ sock[ref] \in {"connecting", "open", "closed"}
    /\ \A s \in Sockets : Active(s) => s = ref
    /\ \A s \in Sockets : sock[s] = "closed" /\ owner[s] = live => s = ref
    /\ connected => ref # 0 /\ sock[ref] \in {"open", "closed"}
    /\ \A s \in Sockets : sock[s] = "open" => connected

\* Runs of the effect are paid for by toggles, further sockets by runs and losses.
Counted ==
    /\ effects <= toggles + 1
    /\ paused \/ live = 0 => effects <= toggles
    /\ sockets <= effects + drops
    /\ (ref # 0 /\ sock[ref] = "closed") \/ (\E e \in Effects : armed[e] > 0)
          => sockets + 1 <= effects + drops

RunInv == Typed /\ Runs /\ Counted

Assemblers(v) == [id : Nat, rows : Seq(Rows(v)), next : Nat]

\* An assembler holds the first frames of one published version, or nothing.
Assembled(a, v) ==
    a.id # 0 =>
        /\ a.id \in 1..v /\ a.next - 1 \in 0..Chunks
        /\ a.rows = [i \in 1..(a.next - 1) |-> [id |-> a.id, index |-> i]]

\* What is underway and what is assembled are frames of published versions.
Whole ==
    /\ version \in Nat
    /\ wire \in [Sockets -> Seq(Rows(version))]
    /\ assembler \in [Sockets -> Assemblers(version)]
    /\ \A s \in Sockets : Assembled(assembler[s], version)
    /\ replied \in [Sockets -> 0..version]
    /\ ShownWhole

\* The gateway sends each version once.
Bounded == \A s \in Sockets : Len(wire[s]) <= Chunks * version

-----------------------------------------------------------------------------
(* The runs of the effect and their sockets.                               *)

LEMMA NatBounds == MaxVersion \in Nat /\ MaxToggles \in Nat /\ MaxDrops \in Nat
  BY BoundsAssumption

LEMMA Bounds == RunInv => effects \in Effects /\ sockets \in Sockets /\ ref \in Sockets \cup {0}
  BY BoundsAssumption DEF RunInv, Typed, Counted, Effects, Sockets

\* Past its guards connect() opens the only socket of its run.
LEMMA ConnectRuns ==
    ASSUME RunInv, NEW e \in Effects, Connect(e), live' = e, e = effects',
           e = live \/ e = effects + 1, ref = 0,
           armed' \in [Effects -> {0, 1}], \A f \in Effects : armed'[f] = 0,
           UNCHANGED <<version, paused, connected, toggles, drops>>,
           sockets + 1 <= effects' + drops, effects' <= toggles + 1,
           paused => effects' <= toggles
    PROVE  RunInv'
<1> DEFINE s == sockets + 1
<1>1. s \in Sockets /\ s > sockets
  <2>1. e \in Nat /\ s <= e + drops /\ e <= toggles + 1
    BY NatBounds DEF Effects
  <2>2. /\ toggles \in Nat /\ toggles <= MaxToggles
        /\ drops \in Nat /\ drops <= MaxDrops /\ s \in Nat /\ s > sockets /\ s > 0
    BY NatBounds DEF RunInv, Typed
  <2>3. s <= 1 + MaxToggles + MaxDrops
    BY <2>1, <2>2, NatBounds
  <2>4. QED
    BY <2>2, <2>3, NatBounds DEF Sockets
<1>2. /\ sockets' = s /\ ref' = s
      /\ sock' = [sock EXCEPT ![s] = "connecting"] /\ owner' = [owner EXCEPT ![s] = e]
  BY DEF Connect
<1>3. Typed'
  BY <1>1, <1>2 DEF RunInv, Typed, States, Effects
<1>4. ~connected /\ \A t \in Sockets : ~Active(t) /\ (sock[t] = "closed" => owner[t] # live)
  BY <1>1 DEF RunInv, Typed, Runs, Sockets
<1>5. \A t \in Sockets : sock[t] = "closed" => owner[t] # e
  BY <1>4 DEF RunInv, Typed, Runs
<1>6. /\ sock'[s] = "connecting" /\ owner'[s] = e
      /\ \A t \in Sockets \ {s} : sock'[t] = sock[t] /\ owner'[t] = owner[t]
  BY <1>1, <1>2 DEF RunInv, Typed
<1>7. \A t \in Sockets : sock'[t] = "none" <=> t > sockets'
  BY <1>1, <1>2, <1>6 DEF RunInv, Runs, Typed, Sockets
<1>8. Runs'
  BY <1>1, <1>2, <1>4, <1>5, <1>6, <1>7 DEF RunInv, Typed, Runs, Active, Sockets, Effects
<1>9. Counted'
  <2>1. e # 0 /\ sock'[ref'] # "closed" /\ \A f \in Effects : ~(armed'[f] > 0)
    BY <1>2, <1>6, NatBounds DEF Effects
  <2>2. QED
    BY <1>2, <2>1 DEF Counted
<1>10. QED
  BY <1>3, <1>8, <1>9 DEF RunInv

LEMMA Afford ==
    ASSUME NEW a \in Nat, NEW b \in Nat, NEW c \in Nat, NEW d \in Nat, c <= d
    PROVE  (b <= a + c => b <= a + d) /\ (b + 1 <= a + c => b + 1 <= a + d)
  OBVIOUS

\* Steps that leave runs and sockets alone; a request may fail.
LEMMA LeavesRuns ==
    ASSUME RunInv, version' \in 0..MaxVersion, drops' \in 0..MaxDrops, drops <= drops',
           UNCHANGED <<paused, effects, live, armed, sockets, sock, owner, ref, connected, toggles>>
    PROVE  RunInv'
<1>1. Typed' /\ Runs'
  BY DEF RunInv, Typed, Runs, Active
<1>2. sockets <= effects + drops' /\ (sockets + 1 <= effects + drops => sockets + 1 <= effects + drops')
  <2>1. effects \in Nat /\ sockets \in Nat /\ drops \in Nat /\ drops' \in Nat
    BY NatBounds DEF RunInv, Typed
  <2>2. sockets <= effects + drops /\ drops <= drops'
    BY DEF RunInv, Counted
  <2>3. QED
    BY <2>1, <2>2, Afford
<1>3. Counted'
  BY <1>2 DEF RunInv, Counted
<1>4. QED
  BY <1>1, <1>3 DEF RunInv

LEMMA RunStep == RunInv /\ [Next]_vars => RunInv'
<1> SUFFICES ASSUME RunInv, [Next]_vars PROVE RunInv'
  OBVIOUS
<1>1. CASE UNCHANGED vars
  BY <1>1, LeavesRuns, NatBounds DEF vars, RunInv, Typed
<1>2. CASE Toggle
  <2>1. Typed' /\ Runs'
    BY <1>2, NatBounds DEF Toggle, RunInv, Typed, Runs, Active
  <2>2. Counted'
    BY <1>2, NatBounds DEF Toggle, RunInv, Typed, Counted
  <2>3. QED
    BY <2>1, <2>2 DEF RunInv
<1>3. CASE Dispose
  <2>0. connected' \in BOOLEAN
    BY <1>3, Zenon DEF Dispose
  <2>1. /\ paused /\ live = effects /\ live \in Effects /\ live' = 0 /\ ref' = 0 /\ connected' = FALSE
        /\ sock' = IF ref # 0 THEN [sock EXCEPT ![ref] = "closed"] ELSE sock
        /\ UNCHANGED <<version, paused, effects, sockets, owner, toggles, drops>>
    BY <1>3, Bounds DEF Dispose, RunInv, Typed
  <2>2. armed' \in [Effects -> {0, 1}] /\ \A e \in Effects : armed'[e] = 0
    BY <1>3, <2>1 DEF Dispose, RunInv, Typed, Runs
  <2>3. Typed'
    <3>1. sock' \in [Sockets -> States]
      BY <2>1 DEF RunInv, Typed, States
    <3>2. live' \in {0, effects'} /\ ref' \in 0..sockets'
      BY <2>1 DEF RunInv, Typed
    <3>3. owner' \in [Sockets -> 0..effects']
      BY <2>1 DEF RunInv, Typed
    <3>4. QED
      BY <2>0, <2>1, <2>2, <3>1, <3>2, <3>3 DEF RunInv, Typed
  <2>4. ref # 0 => ref \in Sockets /\ ref <= sockets
    BY Bounds DEF RunInv, Typed
  <2>5. \A s \in Sockets : ~Active(s)' /\ sock'[s] # "open" /\ (sock'[s] = "none" <=> s > sockets)
    BY <2>1, <2>4 DEF RunInv, Typed, Runs, Active, Sockets
  <2>6. \A s \in Sockets : sock'[s] = "closed" => owner[s] # 0
    BY <2>5 DEF RunInv, Typed, Runs, Sockets
  <2>7. Runs'
    BY <2>1, <2>2, <2>5, <2>6 DEF RunInv, Typed, Runs, Active
  <2>8. Counted'
    BY <2>1, <2>2 DEF RunInv, Typed, Counted
  <2>9. QED
    BY <2>3, <2>7, <2>8 DEF RunInv
<1>4. CASE Resume
  <2> DEFINE e == effects + 1
  <2>1. live = 0 /\ ~paused /\ effects' = e /\ live' = e /\ Connect(e) /\ ref = 0
    BY <1>4 DEF Resume, RunInv, Runs
  <2>2. UNCHANGED <<version, paused, armed, connected, toggles, drops>>
    BY <1>4 DEF Resume
  <2>3. effects <= toggles /\ sockets <= effects + drops
    BY <2>1 DEF RunInv, Counted
  <2>4. e \in Effects /\ e <= toggles + 1 /\ sockets + 1 <= e + drops
    BY <2>3, NatBounds DEF RunInv, Typed, Effects
  <2>5. armed' \in [Effects -> {0, 1}] /\ \A f \in Effects : armed'[f] = 0
    BY <2>1, <2>2 DEF RunInv, Typed, Runs, Effects
  <2>6. QED
    BY <2>1, <2>2, <2>4, <2>5, ConnectRuns
<1>5. CASE \E e \in Effects : ReconnectTimer(e)
  <2> PICK e \in Effects : ReconnectTimer(e)
    BY <1>5
  <2>1. armed[e] > 0 /\ e = live /\ ref = 0 /\ armed' = [armed EXCEPT ![e] = armed[e] - 1]
    BY DEF ReconnectTimer, RunInv, Runs
  <2>2. /\ Connect(e)
        /\ UNCHANGED <<version, paused, effects, live, connected, toggles, drops>>
    BY <2>1 DEF ReconnectTimer
  <2>3. armed' \in [Effects -> {0, 1}] /\ \A f \in Effects : armed'[f] = 0
    BY <2>1 DEF RunInv, Typed, Runs
  <2>4. e = effects
    BY <2>1 DEF RunInv, Typed, Effects
  <2>5. sockets + 1 <= effects + drops /\ effects <= toggles + 1 /\ (paused => effects <= toggles)
    BY <2>1 DEF RunInv, Counted
  <2>6. QED
    BY <2>1, <2>2, <2>3, <2>4, <2>5, ConnectRuns
<1>6. CASE \E s \in Sockets : Open(s)
  <2> PICK s \in Sockets : Open(s)
    BY <1>6
  <2>0. s = ref /\ s # 0
    BY DEF Open, RunInv, Runs, Active, Sockets
  <2>1. /\ sock[s] = "connecting" /\ sock' = [sock EXCEPT ![s] = "open"] /\ s = ref /\ connected' = TRUE
        /\ UNCHANGED <<version, paused, effects, live, armed, sockets, owner, ref, toggles, drops>>
    BY <2>0 DEF Open, RunInv, Runs
  <2>2. Typed'
    BY <2>1 DEF RunInv, Typed, States
  <2>3. Runs'
    BY <2>1 DEF RunInv, Typed, Runs, Active, Sockets
  <2>4. Counted'
    BY <2>1 DEF RunInv, Typed, Counted
  <2>5. QED
    BY <2>2, <2>3, <2>4 DEF RunInv
<1>7. CASE \E s \in Sockets : Drop(s)
  <2> PICK s \in Sockets : Drop(s)
    BY <1>7
  <2>1. /\ sock[s] \in {"connecting", "open"} /\ s = ref /\ sock' = [sock EXCEPT ![s] = "closed"]
        /\ drops' = drops + 1 /\ drops < MaxDrops
        /\ UNCHANGED <<version, paused, effects, live, armed, sockets, owner, ref, connected, toggles>>
    BY DEF Drop, RunInv, Runs, Active
  <2>2. Typed'
    BY <2>1, NatBounds DEF RunInv, Typed, States
  <2>3. Runs'
    BY <2>1 DEF RunInv, Typed, Runs, Active, Sockets
  <2>4. Counted'
    BY <2>1, NatBounds DEF RunInv, Typed, Counted
  <2>5. QED
    BY <2>2, <2>3, <2>4 DEF RunInv
<1>8. CASE \E s \in Sockets : CloseEvent(s)
  <2> PICK s \in Sockets : CloseEvent(s)
    BY <1>8
  <2>1. /\ sock[s] = "closed" /\ sock' = [sock EXCEPT ![s] = "gone"]
        /\ UNCHANGED <<version, paused, effects, live, sockets, owner, toggles, drops>>
    BY DEF CloseEvent, CloseEventOf
  <2>2. CASE live = owner[s]
    <3>1. /\ s = ref /\ live \in Effects /\ connected' = FALSE /\ ref' = 0
          /\ armed' = [armed EXCEPT ![live] = armed[live] + 1]
      BY <2>1, <2>2, Bounds DEF CloseEvent, CloseEventOf, RunInv, Typed, Runs
    <3>2. armed[live] = 0 /\ s # 0
      BY <3>1 DEF RunInv, Typed, Runs, Sockets
    <3>3. armed' \in [Effects -> {0, 1}] /\ \A e \in Effects : armed'[e] > 0 => e = live
      BY <3>1, <3>2 DEF RunInv, Typed, Runs
    <3>4. Typed'
      <4>1. sock' \in [Sockets -> States]
        BY <2>1 DEF RunInv, Typed, States
      <4>2. connected' \in BOOLEAN
        BY <3>1, Zenon
      <4>3. ref' \in 0..sockets' /\ live' \in {0, effects'} /\ owner' \in [Sockets -> 0..effects']
        BY <2>1, <3>1 DEF RunInv, Typed
      <4>4. QED
        BY <2>1, <3>3, <4>1, <4>2, <4>3 DEF RunInv, Typed
    <3>5. Runs'
      BY <2>1, <3>1, <3>3 DEF RunInv, Typed, Runs, Active
    <3>6. Counted'
      BY <2>1, <3>1, <3>2 DEF RunInv, Typed, Counted
    <3>7. QED
      BY <3>4, <3>5, <3>6 DEF RunInv
  <2>3. CASE live # owner[s]
    <3>1. UNCHANGED <<connected, ref, armed>> /\ s # ref
      BY <2>3, <2>1 DEF CloseEvent, CloseEventOf, RunInv, Runs, Sockets
    <3>2. Typed'
      BY <2>1, <3>1 DEF RunInv, Typed, States
    <3>3. Runs'
      BY <2>1, <3>1 DEF RunInv, Typed, Runs, Active
    <3>4. Counted'
      BY <2>1, <3>1 DEF RunInv, Typed, Counted
    <3>5. QED
      BY <3>2, <3>3, <3>4 DEF RunInv
  <2>4. QED
    BY <2>2, <2>3
<1>9. CASE Publish
  BY <1>9, LeavesRuns, NatBounds DEF Publish, RunInv, Typed
<1>10. CASE \E s \in Sockets : \E late \in BOOLEAN : ReceiveFrame(s, late)
  BY <1>10, LeavesRuns, NatBounds DEF ReceiveFrame, RunInv, Typed
<1>11. CASE \E s \in Sockets : Recover(s) \/ ServeSnapshot(s) \/ RecoveryReply(s)
  BY <1>11, LeavesRuns, NatBounds DEF Recover, ServeSnapshot, RecoveryReply, TakeReply, RunInv, Typed
<1>12. CASE \E s \in Sockets : RecoveryFails(s)
  BY <1>12, LeavesRuns, NatBounds DEF RecoveryFails, RunInv, Typed
<1>13. QED
  BY <1>1, <1>2, <1>3, <1>4, <1>5, <1>6, <1>7, <1>8, <1>9, <1>10, <1>11, <1>12 DEF Next

LEMMA RunInit == Init => RunInv
<1> SUFFICES ASSUME Init PROVE RunInv
  OBVIOUS
<1>1. 1 \in Effects /\ 1 \in Sockets
  BY NatBounds DEF Effects, Sockets
<1>2. Typed
  <2>1. sock \in [Sockets -> States] /\ owner \in [Sockets -> 0..effects]
    BY DEF Init, States
  <2>2. /\ armed \in [Effects -> {0, 1}] /\ effects \in Nat /\ effects > 0
        /\ sockets \in Nat /\ sockets > 0 /\ ref \in 0..sockets /\ live \in {0, effects}
    BY DEF Init
  <2>3. paused \in BOOLEAN /\ connected \in BOOLEAN
    BY Zenon DEF Init
  <2>4. QED
    BY <2>1, <2>2, <2>3, NatBounds DEF Init, Typed
<1>3. Runs
  BY <1>1 DEF Init, Runs, Active, Sockets
<1>4. Counted
  BY <1>1 DEF Init, Counted
<1>5. QED
  BY <1>2, <1>3, <1>4 DEF RunInv

\* However sockets, timers and runs of the effect follow each other, an active
\* socket is the one that wsRef holds and the state shown is that socket's.
THEOREM ClientSocketsCoherent == Spec => []SocketsCoherent
<1>1. RunInv => SocketsCoherent
  BY DEF RunInv, Runs, SocketsCoherent
<1>2. QED
  BY RunInit, RunStep, <1>1, PTL DEF Spec

\* A request belongs to a socket that was created.
Asked ==
    /\ recovery \in [Sockets -> {"none", "asked", "answered"}]
    /\ \A s \in Sockets : recovery[s] # "none" => owner[s] # 0

LEMMA AskedStep == RunInv /\ Asked /\ [Next]_vars => Asked'
<1> SUFFICES ASSUME RunInv, Asked, [Next]_vars PROVE Asked'
  OBVIOUS
<1> USE DEF Asked
<1>1. ASSUME NEW e \in Nat, e # 0, Connect(e) PROVE Asked'
  <2>1. PICK r \in {"asked", "none"} : recovery' = [recovery EXCEPT ![sockets + 1] = r]
    BY <1>1 DEF Connect
  <2>2. owner' = [owner EXCEPT ![sockets + 1] = e]
    BY <1>1 DEF Connect
  <2>3. QED
    BY <1>1, <2>1, <2>2 DEF RunInv, Typed
<1>0. CASE UNCHANGED vars \/ Toggle \/ Dispose \/ Publish
  BY <1>0 DEF vars, Toggle, Dispose, Publish
<1>2. CASE (\E s \in Sockets : Open(s)) \/ (\E s \in Sockets : Drop(s)) \/ (\E s \in Sockets : CloseEvent(s))
  BY <1>2 DEF Open, Drop, CloseEvent, CloseEventOf
<1>8. CASE \E s \in Sockets : \E late \in BOOLEAN : ReceiveFrame(s, late)
  BY <1>8 DEF ReceiveFrame
<1>3. CASE Resume
  <2>1. effects + 1 \in Nat /\ effects + 1 # 0
    BY DEF RunInv, Typed
  <2>2. QED
    BY <1>1, <1>3, <2>1 DEF Resume
<1>4. CASE \E e \in Effects : ReconnectTimer(e)
  BY <1>1, <1>4 DEF ReconnectTimer, Effects
<1>5. CASE \E s \in Sockets : Recover(s)
  <2> PICK s \in Sockets : Recover(s)
    BY <1>5
  <2>1. owner[s] # 0
    BY DEF Recover, RunInv, Typed, Runs, Sockets
  <2>2. QED
    BY <2>1 DEF Recover
<1>6. CASE \/ \E s \in Sockets : ServeSnapshot(s)
           \/ \E s \in Sockets : RecoveryFails(s)
           \/ \E s \in Sockets : RecoveryReply(s)
  BY <1>6 DEF ServeSnapshot, RecoveryFails, RecoveryReply, TakeReply
<1>7. QED
  BY <1>0, <1>2, <1>3, <1>4, <1>5, <1>6, <1>8 DEF Next

\* A disposed run of the effect neither changes the catalog nor reports a
\* connection, whatever of it still calls back.
THEOREM ClientDisconnectedIsQuiet == Spec => DisconnectedIsQuiet
<1>1. RunInv /\ Asked /\ [Next]_vars => [live = 0 => shown' = shown /\ ~connected']_vars
  <2> SUFFICES ASSUME RunInv, Asked, Next, live = 0 PROVE shown' = shown /\ ~connected'
    OBVIOUS
  <2>1. ref = 0 /\ ~connected /\ \A s \in Sockets : sock[s] \notin {"connecting", "open"}
    BY DEF RunInv, Runs, Sockets, Active
  <2>2. CASE Resume \/ Toggle \/ Dispose \/ Publish
    <3>1. UNCHANGED <<shown, connected>>
      BY <2>2 DEF Resume, Toggle, Dispose, Publish
    <3>2. QED
      BY <2>1, <3>1, Zenon
  <2>3. CASE \E e \in Effects : ReconnectTimer(e)
    BY <2>1, <2>3 DEF ReconnectTimer
  <2>4. ~\E s \in Sockets : Open(s) \/ Drop(s) \/ \E late \in BOOLEAN : ReceiveFrame(s, late)
    BY <2>1 DEF Open, Drop, ReceiveFrame, Active
  <2>5. CASE \E s \in Sockets : CloseEvent(s)
    BY <2>1, <2>5 DEF CloseEvent, CloseEventOf
  <2>6. CASE \E s \in Sockets : Recover(s) \/ ServeSnapshot(s) \/ RecoveryFails(s)
    BY <2>1, <2>6 DEF Recover, ServeSnapshot, RecoveryFails
  <2>7. CASE \E s \in Sockets : RecoveryReply(s)
    <3> PICK s \in Sockets : RecoveryReply(s)
      BY <2>7
    <3>1. owner[s] # 0
      BY DEF Asked, RecoveryReply, TakeReply
    <3>2. QED
      BY <2>1, <3>1 DEF RecoveryReply, TakeReply
  <2>8. QED
    BY <2>2, <2>3, <2>4, <2>5, <2>6, <2>7 DEF Next
<1>2. Init => Asked
  BY DEF Init, Asked
<1>3. QED
  BY RunInit, RunStep, AskedStep, <1>1, <1>2, PTL DEF Spec, DisconnectedIsQuiet

-----------------------------------------------------------------------------
(* The catalog shown.                                                      *)

LEMMA SnapshotRows ==
    ASSUME NEW v \in Nat, v # 0
    PROVE  Snapshot(v) \in Seq(Rows(v)) /\ Len(Snapshot(v)) = Chunks
<1>1. Snapshot(v) = [i \in 1..Chunks |-> [id |-> v, index |-> i]]
  BY DEF Snapshot
<1>2. \A i \in 1..Chunks : [id |-> v, index |-> i] \in Rows(v)
  BY DEF Rows
<1>3. QED
  BY <1>1, <1>2, ChunksAssumption

LEMMA Grows ==
    ASSUME NEW v \in Nat, NEW w \in Nat, v <= w, NEW q \in Seq(Rows(v))
    PROVE  q \in Seq(Rows(w))
<1>1. Rows(v) \subseteq Rows(w)
  BY DEF Rows
<1>2. QED
  BY <1>1, SeqMonotonic

\* A frame extends the transfer it continues, begins one, or ends in nothing; with
\* its last frame the transfer is the snapshot.
LEMMA AssembleKeeps ==
    ASSUME NEW v \in Nat, NEW a \in Assemblers(v), Assembled(a, v), NEW f \in Rows(v), NEW late \in BOOLEAN
    PROVE  LET b == Assemble(a, f, late)
           IN  /\ b \in Assemblers(v) /\ Assembled(b, v)
               /\ b.id # 0 /\ b.next > Chunks => b.rows = Snapshot(b.id) /\ b.id \in 1..v
<1> DEFINE c == IF f.index = 1 THEN [id |-> f.id, rows |-> <<>>, next |-> 1] ELSE a
           b == Assemble(a, f, late)
<1>1. f.id \in 1..v /\ f.index \in 1..Chunks /\ f = [id |-> f.id, index |-> f.index]
  BY DEF Rows
<1>0. <<>> \in Seq(Rows(v))
  BY EmptySeq
<1>2. c \in Assemblers(v) /\ Assembled(c, v)
  <2>1. CASE f.index = 1
    <3>1. c = [id |-> f.id, rows |-> <<>>, next |-> 1]
      BY <2>1
    <3>2. c \in Assemblers(v)
      BY <1>0, <1>1, <3>1 DEF Assemblers
    <3>3. <<>> = [i \in 1..(1 - 1) |-> [id |-> f.id, index |-> i]]
      OBVIOUS
    <3>4. Assembled(c, v)
      BY <1>1, <3>1, <3>3, ChunksAssumption DEF Assembled
    <3>5. QED
      BY <3>2, <3>4
  <2>2. CASE f.index # 1
    BY <2>2
  <2>3. QED
    BY <2>1, <2>2
<1>3. CASE f.id # c.id \/ f.index # c.next \/ late
  <2>1. b = [c EXCEPT !.id = 0, !.rows = <<>>]
    BY <1>3 DEF Assemble
  <2> HIDE DEF c, b
  <2>2. b = [id |-> 0, rows |-> <<>>, next |-> c.next] /\ c.next \in Nat
    BY <1>2, <2>1 DEF Assemblers
  <2>3. b \in Assemblers(v) /\ b.id = 0
    BY <1>0, <2>2 DEF Assemblers
  <2>4. QED
    BY <2>3 DEF Assembled, b
<1>4. CASE f.id = c.id /\ f.index = c.next /\ ~late
  <2>1. b = [c EXCEPT !.rows = Append(c.rows, f), !.next = c.next + 1]
    BY <1>4 DEF Assemble
  <2> HIDE DEF c, b
  <2>2. c.id = f.id /\ c.next \in 1..Chunks /\ c.id # 0 /\ c.rows \in Seq(Rows(v))
    BY <1>1, <1>2, <1>4 DEF Assemblers
  <2>3. b.id = f.id /\ b.next = c.next + 1 /\ b.rows = Append(c.rows, f) /\ b \in Assemblers(v)
    <3>1. b = [id |-> c.id, rows |-> Append(c.rows, f), next |-> c.next + 1] /\ c.id \in Nat /\ c.next \in Nat
      BY <1>2, <2>1 DEF Assemblers
    <3>2. Append(c.rows, f) \in Seq(Rows(v))
      BY <2>2, AppendProperties
    <3>3. QED
      BY <2>2, <3>1, <3>2 DEF Assemblers
  <2>4. c.rows = [i \in 1..(c.next - 1) |-> [id |-> f.id, index |-> i]]
    BY <1>2, <2>2 DEF Assembled
  <2>5. b.rows = [i \in 1..c.next |-> [id |-> f.id, index |-> i]]
    <3>1. Len(c.rows) = c.next - 1
      BY <2>2, <2>4, ChunksAssumption
    <3>2. f = [id |-> f.id, index |-> c.next]
      BY <1>1, <1>4
    <3>3. QED
      BY <2>2, <2>3, <2>4, <3>1, <3>2, ChunksAssumption
  <2>6. Assembled(b, v)
    BY <1>1, <2>2, <2>3, <2>5, ChunksAssumption DEF Assembled
  <2>7. b.next > Chunks => b.rows = Snapshot(b.id)
    BY <1>1, <2>2, <2>3, <2>5, ChunksAssumption DEF Snapshot
  <2>8. QED
    BY <1>1, <2>3, <2>6, <2>7 DEF b
<1>5. QED
  BY <1>3, <1>4

\* What was true of the frames of a version stays true of a later one.
LEMMA WholeGrows ==
    ASSUME Whole, version' = version + 1, UNCHANGED <<assembler, replied, shown>>,
           wire' \in [Sockets -> Seq(Rows(version'))]
    PROVE  Whole'
<1>1. version \in Nat /\ version' \in Nat /\ version <= version'
  BY DEF Whole
<1>2. \A s \in Sockets : assembler[s] \in Assemblers(version')
  <2> TAKE s \in Sockets
  <2>1. assembler[s] = [id |-> assembler[s].id, rows |-> assembler[s].rows, next |-> assembler[s].next]
        /\ assembler[s].id \in Nat /\ assembler[s].next \in Nat /\ assembler[s].rows \in Seq(Rows(version))
    BY DEF Whole, Assemblers
  <2>2. assembler[s].rows \in Seq(Rows(version'))
    BY <1>1, <2>1, Grows
  <2>3. QED
    BY <2>1, <2>2 DEF Assemblers
<1>3. assembler' \in [Sockets -> Assemblers(version')]
  BY <1>2 DEF Whole
<1>4. \A s \in Sockets : Assembled(assembler[s], version')
  BY <1>1 DEF Whole, Assembled
<1>5. replied' \in [Sockets -> 0..version']
  BY <1>1 DEF Whole
<1>6. ShownWhole'
  <2>1. PICK v \in 0..version : shown = Snapshot(v)
    BY DEF Whole, ShownWhole
  <2>2. v \in 0..version'
    BY <1>1
  <2>3. QED
    BY <2>1, <2>2 DEF ShownWhole
<1>7. QED
  BY <1>1, <1>3, <1>4, <1>5, <1>6 DEF Whole

LEMMA WholeStep == Whole /\ [Next]_vars => Whole'
<1> SUFFICES ASSUME Whole, [Next]_vars PROVE Whole'
  OBVIOUS
<1>1. ASSUME UNCHANGED <<version, assembler, replied, shown>>,
             wire' \in [Sockets -> Seq(Rows(version))]
      PROVE  Whole'
  BY <1>1 DEF Whole, ShownWhole
<1>2. UNCHANGED wire => wire' \in [Sockets -> Seq(Rows(version))]
  BY DEF Whole
<1>3. \A s : wire' = [wire EXCEPT ![s] = <<>>] => wire' \in [Sockets -> Seq(Rows(version))]
  <2> TAKE s
  <2>1. <<>> \in Seq(Rows(version))
    BY EmptySeq
  <2>2. QED
    BY <2>1 DEF Whole
<1>4. CASE UNCHANGED vars \/ Toggle \/ Resume \/ \E e \in Effects : ReconnectTimer(e)
  BY <1>1, <1>2, <1>4 DEF vars, Toggle, Resume, ReconnectTimer
<1>5. CASE Dispose
  BY <1>1, <1>2, <1>3, <1>5 DEF Dispose
<1>6. CASE \/ \E s \in Sockets : CloseEvent(s)
           \/ \E s \in Sockets : Recover(s)
           \/ \E s \in Sockets : RecoveryFails(s)
  BY <1>1, <1>2, <1>6 DEF CloseEvent, CloseEventOf, Recover, RecoveryFails
<1>7. CASE \E s \in Sockets : Drop(s)
  BY <1>1, <1>3, <1>7 DEF Drop
<1>8. CASE \E s \in Sockets : Open(s)
  <2> PICK s \in Sockets : Open(s)
    BY <1>8
  <2>1. Snapshot(version) \in Seq(Rows(version))
    <3>1. CASE version = 0
      BY <3>1, EmptySeq DEF Snapshot
    <3>2. CASE version # 0
      BY <3>2, SnapshotRows DEF Whole
    <3>3. QED
      BY <3>1, <3>2
  <2>2. wire' = [wire EXCEPT ![s] = Snapshot(version)]
    BY DEF Open
  <2>3. wire' \in [Sockets -> Seq(Rows(version))]
    BY <2>1, <2>2 DEF Whole
  <2>4. QED
    BY <1>1, <2>3 DEF Open
<1>9. CASE Publish
  <2>1. version' = version + 1 /\ version' \in Nat /\ version' # 0 /\ version <= version'
    BY <1>9 DEF Publish, Whole
  <2>2. Snapshot(version') \in Seq(Rows(version'))
    BY <2>1, SnapshotRows
  <2>3. \A s \in Sockets : wire[s] \in Seq(Rows(version'))
    BY <2>1, Grows DEF Whole
  <2>4. \A s \in Sockets : wire[s] \o Snapshot(version') \in Seq(Rows(version'))
    BY <2>2, <2>3, ConcatProperties
  <2>5. wire' = [s \in Sockets |-> IF sock[s] = "open" THEN wire[s] \o Snapshot(version') ELSE wire[s]]
    BY <1>9, <2>1 DEF Publish
  <2>6. wire' \in [Sockets -> Seq(Rows(version'))]
    BY <2>3, <2>4, <2>5
  <2>7. QED
    BY <1>9, <2>1, <2>6, WholeGrows DEF Publish
<1>10. CASE \E s \in Sockets : \E late \in BOOLEAN : ReceiveFrame(s, late)
  <2> PICK s \in Sockets, late \in BOOLEAN : ReceiveFrame(s, late)
    BY <1>10
  <2> DEFINE a == Assemble(assembler[s], Head(wire[s]), late)
             done == a.id # 0 /\ a.next > Chunks
             b == IF done THEN [a EXCEPT !.id = 0, !.rows = <<>>] ELSE a
  <2>1. wire[s] # <<>> /\ wire[s] \in Seq(Rows(version)) /\ wire' = [wire EXCEPT ![s] = Tail(wire[s])]
    BY DEF ReceiveFrame, Whole
  <2>2. Head(wire[s]) \in Rows(version) /\ Tail(wire[s]) \in Seq(Rows(version))
    BY <2>1, HeadTailProperties
  <2>3. /\ a \in Assemblers(version) /\ Assembled(a, version)
        /\ done => a.rows = Snapshot(a.id) /\ a.id \in 1..version
    BY <2>2, AssembleKeeps DEF Whole
  <2>4. /\ assembler' = [assembler EXCEPT ![s] = b]
        /\ shown' = IF done /\ live = owner[s] THEN a.rows ELSE shown
        /\ UNCHANGED <<version, replied>>
    BY DEF ReceiveFrame
  <2> HIDE DEF a
  <2>5. b \in Assemblers(version) /\ Assembled(b, version)
    <3>1. CASE done
      <4>1. b = [id |-> 0, rows |-> <<>>, next |-> a.next] /\ a.next \in Nat
        BY <2>3, <3>1 DEF Assemblers
      <4>2. <<>> \in Seq(Rows(version))
        BY EmptySeq
      <4> HIDE DEF b
      <4>3. QED
        BY <4>1, <4>2 DEF Assemblers, Assembled
    <3>2. CASE ~done
      BY <2>3, <3>2
    <3>3. QED
      BY <3>1, <3>2
  <2> HIDE DEF b
  <2>6. ShownWhole'
    <3>1. CASE done /\ live = owner[s]
      <4>1. shown' = Snapshot(a.id) /\ a.id \in 1..version /\ version' = version /\ version \in Nat
        BY <2>3, <2>4, <3>1 DEF Whole
      <4>2. a.id \in 0..version'
        BY <4>1
      <4>3. QED
        BY <4>1, <4>2 DEF ShownWhole
    <3>2. CASE ~(done /\ live = owner[s])
      BY <2>4, <3>2 DEF ShownWhole, Whole
    <3>3. QED
      BY <3>1, <3>2
  <2>7. wire' \in [Sockets -> Seq(Rows(version'))]
    BY <2>1, <2>2, <2>4 DEF Whole
  <2>8. assembler' \in [Sockets -> Assemblers(version')] /\ \A t \in Sockets : Assembled(assembler'[t], version')
    BY <2>4, <2>5 DEF Whole
  <2>9. QED
    BY <2>4, <2>6, <2>7, <2>8 DEF Whole
<1>11. CASE \E s \in Sockets : ServeSnapshot(s)
  <2> PICK s \in Sockets : ServeSnapshot(s)
    BY <1>11
  <2>1. replied' = [replied EXCEPT ![s] = version] /\ UNCHANGED <<version, wire, assembler, shown>>
    BY DEF ServeSnapshot
  <2>2. replied' \in [Sockets -> 0..version]
    BY <2>1 DEF Whole
  <2>3. QED
    BY <2>1, <2>2 DEF Whole, ShownWhole
<1>12. CASE \E s \in Sockets : RecoveryReply(s)
  <2> PICK s \in Sockets : RecoveryReply(s)
    BY <1>12
  <2>1. UNCHANGED <<version, wire, assembler, replied>>
    BY DEF RecoveryReply, TakeReply
  <2>2. shown' = Snapshot(replied[s]) \/ shown' = shown
    BY DEF RecoveryReply, TakeReply
  <2>3. ShownWhole'
    BY <2>1, <2>2 DEF Whole, ShownWhole
  <2>4. QED
    BY <2>1, <2>3 DEF Whole
<1>13. QED
  BY <1>4, <1>5, <1>6, <1>7, <1>8, <1>9, <1>10, <1>11, <1>12 DEF Next

LEMMA WholeInit == Init => Whole
<1> SUFFICES ASSUME Init PROVE Whole
  OBVIOUS
<1>1. <<>> \in Seq(Rows(version)) /\ version = 0
  BY EmptySeq DEF Init
<1>2. wire \in [Sockets -> Seq(Rows(version))] /\ replied \in [Sockets -> 0..version]
  BY <1>1 DEF Init
<1>3. assembler \in [Sockets -> Assemblers(version)] /\ \A s \in Sockets : assembler[s].id = 0
  BY <1>1 DEF Init, Idle, Assemblers
<1>4. ShownWhole
  BY DEF Init, ShownWhole, Snapshot
<1>5. QED
  BY <1>1, <1>2, <1>3, <1>4 DEF Whole, Assembled

\* Whatever sockets are lost, frames come late and replies overtake each other: a
\* partial transfer is never shown.
THEOREM ClientShownWhole == Spec => []ShownWhole
<1>1. Whole => ShownWhole
  BY DEF Whole
<1>2. QED
  BY WholeInit, WholeStep, <1>1, PTL DEF Spec

-----------------------------------------------------------------------------
(* Type correctness.                                                       *)

LEMMA Products ==
    ASSUME NEW c \in Nat, NEW v \in Nat
    PROVE  /\ c * v \in Nat /\ c * (v + 1) = c * v + c /\ c * 0 = 0
           /\ \A w \in Nat : v <= w => c * v <= c * w
           /\ v # 0 => c <= c * v
<1>1. c * v \in Nat /\ c * (v + 1) = c * v + c /\ c * 0 = 0
  OBVIOUS
<1>2. ASSUME NEW w \in Nat, v <= w PROVE c * v <= c * w
  <2>1. w - v \in Nat /\ w = v + (w - v)
    BY <1>2
  <2>2. c * w = c * v + c * (w - v) /\ c * (w - v) \in Nat
    BY <2>1
  <2>3. QED
    BY <1>1, <2>2
<1>3. ASSUME v # 0 PROVE c <= c * v
  <2>1. v - 1 \in Nat /\ v = (v - 1) + 1
    BY <1>3
  <2>2. c * v = c * (v - 1) + c /\ c * (v - 1) \in Nat
    BY <2>1
  <2>3. QED
    BY <2>2
<1>4. QED
  BY <1>1, <1>2, <1>3

LEMMA BoundedStep == Whole /\ Bounded /\ [Next]_vars => Bounded'
<1> SUFFICES ASSUME Whole, Bounded, [Next]_vars PROVE Bounded'
  OBVIOUS
<1>1. /\ version \in Nat /\ Chunks \in Nat /\ Chunks * version \in Nat
      /\ \A s \in Sockets : wire[s] \in Seq(Rows(version)) /\ Len(wire[s]) \in Nat
  BY Products, ChunksAssumption, LenProperties DEF Whole
<1>2. ASSUME version' = version, UNCHANGED wire PROVE Bounded'
  BY <1>2 DEF Bounded
<1>3. ASSUME NEW s, version' = version, wire' = [wire EXCEPT ![s] = <<>>] PROVE Bounded'
  BY <1>1, <1>3 DEF Bounded, Whole
<1>4. CASE UNCHANGED vars \/ Toggle \/ Resume \/ \E e \in Effects : ReconnectTimer(e)
  BY <1>2, <1>4 DEF vars, Toggle, Resume, ReconnectTimer
<1>5. CASE Dispose
  BY <1>2, <1>3, <1>5 DEF Dispose
<1>6. CASE \/ \E s \in Sockets : CloseEvent(s)
           \/ \E s \in Sockets : Recover(s)
           \/ \E s \in Sockets : RecoveryFails(s)
  BY <1>2, <1>6 DEF CloseEvent, CloseEventOf, Recover, RecoveryFails
<1>7. CASE \/ \E s \in Sockets : ServeSnapshot(s)
           \/ \E s \in Sockets : RecoveryReply(s)
  BY <1>2, <1>7 DEF ServeSnapshot, RecoveryReply, TakeReply
<1>8. CASE \E s \in Sockets : Drop(s)
  BY <1>3, <1>8 DEF Drop
<1>9. CASE \E s \in Sockets : Open(s)
  <2> PICK s \in Sockets : Open(s)
    BY <1>9
  <2>1. Len(Snapshot(version)) <= Chunks * version
    <3>1. CASE version = 0
      BY <1>1, <3>1 DEF Snapshot
    <3>2. CASE version # 0
      BY <1>1, <3>2, SnapshotRows, Products
    <3>3. QED
      BY <3>1, <3>2
  <2>2. wire' = [wire EXCEPT ![s] = Snapshot(version)] /\ version' = version
    BY DEF Open
  <2>3. QED
    BY <2>1, <2>2 DEF Bounded, Whole
<1>10. CASE Publish
  <2>1. version' = version + 1 /\ version' \in Nat /\ version' # 0 /\ version <= version'
    BY <1>1, <1>10 DEF Publish
  <2>2. Snapshot(version') \in Seq(Rows(version')) /\ Len(Snapshot(version')) = Chunks
    BY <2>1, SnapshotRows
  <2>3. \A s \in Sockets : wire[s] \in Seq(Rows(version'))
    BY <1>1, <2>1, Grows
  <2>4. \A s \in Sockets : Len(wire[s] \o Snapshot(version')) = Len(wire[s]) + Chunks
    BY <2>2, <2>3, ConcatProperties
  <2>5. \A s \in Sockets : wire'[s] = wire[s] \o Snapshot(version') \/ wire'[s] = wire[s]
    BY <1>10, <2>1 DEF Publish
  <2>6. Chunks * version' = Chunks * version + Chunks
    BY <1>1, <2>1, Products
  <2>7. \A s \in Sockets : Len(wire[s]) <= Chunks * version
    BY DEF Bounded
  <2>8. \A s \in Sockets : Len(wire'[s]) <= Chunks * version + Chunks
    BY <1>1, <2>4, <2>5, <2>7
  <2>9. QED
    BY <2>6, <2>8 DEF Bounded
<1>11. CASE \E s \in Sockets : \E late \in BOOLEAN : ReceiveFrame(s, late)
  <2> PICK s \in Sockets, late \in BOOLEAN : ReceiveFrame(s, late)
    BY <1>11
  <2>1. wire[s] # <<>> /\ wire' = [wire EXCEPT ![s] = Tail(wire[s])] /\ version' = version
    BY DEF ReceiveFrame
  <2>2. Len(Tail(wire[s])) = Len(wire[s]) - 1
    BY <1>1, <2>1, HeadTailProperties
  <2>3. Len(Tail(wire[s])) <= Chunks * version
    BY <1>1, <2>2 DEF Bounded
  <2>4. QED
    BY <2>1, <2>3 DEF Bounded, Whole
<1>12. QED
  BY <1>4, <1>5, <1>6, <1>7, <1>8, <1>9, <1>10, <1>11 DEF Next

\* Every reachable state of the connection is well typed; in particular no run of
\* the effect has two reconnect timers.
THEOREM ClientTypeCorrect == Spec => []TypeOK
<1>1. Init => RunInv /\ Asked /\ Whole /\ Bounded
  <2>1. Init => Asked
    BY DEF Init, Asked
  <2>2. Init => Bounded
    BY ChunksAssumption DEF Init, Bounded
  <2>3. QED
    BY <2>1, <2>2, RunInit, WholeInit
<1>2. RunInv /\ Asked /\ Whole /\ Bounded /\ [Next]_vars => (RunInv /\ Asked /\ Whole /\ Bounded)'
  BY RunStep, AskedStep, WholeStep, BoundedStep
<1>3. RunInv /\ Asked /\ Whole /\ Bounded => TypeOK
  <2> SUFFICES ASSUME RunInv, Asked, Whole, Bounded PROVE TypeOK
    OBVIOUS
  <2>1. \A s \in Sockets : Len(wire[s]) <= Chunks * MaxVersion
    <3> TAKE s \in Sockets
    <3>1. wire[s] \in Seq(Rows(version)) /\ Len(wire[s]) \in Nat
      BY LenProperties DEF Whole
    <3>2. version \in Nat /\ version <= MaxVersion /\ MaxVersion \in Nat /\ Chunks \in Nat
      BY NatBounds, ChunksAssumption DEF RunInv, Typed
    <3>3. Chunks * version <= Chunks * MaxVersion /\ Chunks * version \in Nat /\ Chunks * MaxVersion \in Nat
      BY <3>2, Products
    <3>4. Len(wire[s]) <= Chunks * version
      BY DEF Bounded
    <3>5. QED
      BY <3>1, <3>3, <3>4
  <2>2. effects \in Effects /\ sockets \in Sockets
    BY Bounds
  <2>3. \A s \in Sockets : sock[s] = "none" <=> s > sockets
    BY DEF RunInv, Runs
  <2>4. QED
    BY <2>1, <2>2, <2>3 DEF RunInv, Typed, States, Asked, Whole, TypeOK
<1>4. QED
  BY <1>1, <1>2, <1>3, PTL DEF Spec

-----------------------------------------------------------------------------
(* Workspace: the operators on the stores. *)

Apps  == [sat : Sats \cup {None}, conj : Conjs \cup {None}, panels : SUBSET (Panels \cup DetailPanels),
          mode : Modes, earthOnly : BOOLEAN]
Scenes == [satellitesOn : BOOLEAN, following : BOOLEAN]
Explorers == [catalogOpen : BOOLEAN, earthOpen : BOOLEAN]
Airs  == [open : BOOLEAN, tab : {"aircraft", "launches"}, aircraftOn : BOOLEAN, launchesOn : BOOLEAN,
          selected : {None, Launch, Aircraft}, followed : BOOLEAN, launchFollow : BOOLEAN,
          aircraftFollow : BOOLEAN, sim : {None, "follow", "free"}]
Cams  == [tracked : BOOLEAN, active : {None, "sim", "launch", "air"}, flight : {None, "scene", "immersive"},
          lift : {"idle", "preparing", "ready"}, presented : Sats \cup {None}]
StoreSets == [app : Apps, scene : Scenes, explorer : Explorers, air : Airs, cam : Cams]

\* The aerospace follower was asked to follow something.
Follows(a)  == a.aircraftFollow \/ a.launchFollow \/ a.sim = "follow"
\* Nothing else moves the camera.
Free(c) == ~c.tracked /\ c.flight # "scene"
\* The follower has the camera only while it follows, and then alone.
Owned(s) == s.cam.active # None => Follows(s.air) /\ Free(s.cam)

LEMMA Released ==
  ASSUME NEW s \in StoreSets
  PROVE  /\ Release(s) \in StoreSets /\ Release(s).app = s.app /\ Release(s).scene = s.scene
         /\ Release(s).explorer = s.explorer /\ Release(s).air = s.air /\ Release(s).cam.active = None
         /\ Owned(Release(s))
  BY DEF Release, StoreSets, Cams, Owned

LEMMA Flown ==
  ASSUME NEW s \in StoreSets, NEW k \in {"scene", "immersive"}
  PROVE  /\ Fly(s, k) \in StoreSets /\ Fly(s, k).app = s.app /\ Fly(s, k).scene = s.scene
         /\ Fly(s, k).explorer = s.explorer /\ Fly(s, k).air = s.air /\ Fly(s, k).cam.active = s.cam.active
         /\ Owned(s) /\ (k = "scene" => s.cam.active = None) => Owned(Fly(s, k))
  BY DEF Fly, StoreSets, Cams, Owned, Free

LEMMA Following ==
  ASSUME NEW s \in StoreSets, NEW on \in BOOLEAN
  PROVE  /\ SetFollowing(s, on) \in StoreSets /\ SetFollowing(s, on).app = s.app
         /\ SetFollowing(s, on).explorer = s.explorer /\ SetFollowing(s, on).air = s.air
         /\ Owned(s) => Owned(SetFollowing(s, on))
         /\ SetFollowing(s, on).cam.lift = s.cam.lift /\ SetFollowing(s, on).cam.active = s.cam.active
         /\ SetFollowing(s, on).scene.satellitesOn = s.scene.satellitesOn
  BY DEF SetFollowing, StoreSets, Scenes, Cams, Owned, Free

LEMMA Tracking ==
  ASSUME NEW s \in StoreSets
  PROVE  /\ Track(s) \in StoreSets /\ Track(s).app = s.app /\ Track(s).explorer = s.explorer /\ Track(s).air = s.air
         /\ (s.cam.active # None => Free(s.cam)) => Owned(Track(s))
         /\ ~Follows(s.air) => Track(s).cam.active = None
         /\ Track(s).cam.lift = s.cam.lift
<1> DEFINE id == Wanted(s)
           t == SetFollowing(s, FALSE)
           u == [t EXCEPT !.cam.active = id, !.cam.flight = None, !.cam.tracked = FALSE]
<1>1. id \in {None, "sim", "launch", "air"} /\ (~Follows(s.air) => id = None)
  BY DEF Wanted, Follows
<1>2. id # None => Follows(s.air)
  BY <1>1
<1>3. t \in StoreSets /\ t.app = s.app /\ t.explorer = s.explorer /\ t.air = s.air /\ t.cam.lift = s.cam.lift
  BY Following
<1>4. ~HasPosition(s, None)
  BY DEF HasPosition, None
<1> HIDE DEF id, t
<1>5. /\ u \in StoreSets /\ u.app = t.app /\ u.explorer = t.explorer /\ u.air = t.air /\ u.cam.lift = t.cam.lift
      /\ (id # None => Owned(u))
  <2>1. /\ u \in StoreSets /\ u.app = t.app /\ u.explorer = t.explorer /\ u.air = t.air /\ u.cam.lift = t.cam.lift
        /\ u.cam.tracked = FALSE /\ u.cam.flight = None
    <3> DEFINE t1 == [t EXCEPT !.cam.active = id]
               t2 == [t1 EXCEPT !.cam.flight = None]
    <3>1. u = [t2 EXCEPT !.cam.tracked = FALSE]
      BY Zenon
    <3> HIDE DEF u
    <3>2. t1 \in StoreSets /\ t1.app = t.app /\ t1.explorer = t.explorer /\ t1.air = t.air /\ t1.cam.lift = t.cam.lift
      BY <1>1, <1>3 DEF StoreSets, Cams
    <3> HIDE DEF t1
    <3>3. /\ t2 \in StoreSets /\ t2.app = t1.app /\ t2.explorer = t1.explorer /\ t2.air = t1.air /\ t2.cam.lift = t1.cam.lift
          /\ t2.cam.flight = None
      BY <3>2 DEF StoreSets, Cams
    <3> HIDE DEF t2
    <3>4. QED
      BY <3>1, <3>2, <3>3 DEF StoreSets, Cams
  <2> HIDE DEF u
  <2>2. QED
    BY <1>2, <1>3, <2>1 DEF Owned, Free, None
<1>6. Track(s) = IF ~HasPosition(s, id) THEN Release(s) ELSE IF s.cam.active = id THEN s ELSE u
  BY Zenon DEF Track, id, t
<1>7. Release(s).cam.lift = s.cam.lift
  BY DEF Release, StoreSets, Cams
<1> HIDE DEF u
<1>8. QED
  BY <1>1, <1>2, <1>3, <1>4, <1>5, <1>6, <1>7, Released DEF Owned

LEMMA Owning ==
  ASSUME NEW s \in StoreSets, NEW n \in Airs
  PROVE  /\ Own(s, n) \in StoreSets /\ Own(s, n).app = s.app /\ Own(s, n).explorer = s.explorer /\ Own(s, n).air = n
         /\ Owned(s) => Owned(Own(s, n)) /\ (~Follows(n) => Own(s, n).cam.active = None)
         /\ Own(s, n).cam.lift = s.cam.lift
<1> DEFINE t == [s EXCEPT !.air = n]
<1>1. t \in StoreSets /\ t.app = s.app /\ t.explorer = s.explorer /\ t.air = n /\ t.cam = s.cam
  BY DEF StoreSets
<1>2. Own(s, n) = IF Ownership(n) # Ownership(s.air) THEN Track(t) ELSE t
  BY DEF Own
<1>3. Ownership(n) = Ownership(s.air) => (Follows(n) <=> Follows(s.air))
  BY DEF Ownership, Follows, Airs, StoreSets
<1> HIDE DEF t
<1>4. CASE Ownership(n) = Ownership(s.air)
  BY <1>1, <1>2, <1>3, <1>4 DEF Owned
<1>5. CASE Ownership(n) # Ownership(s.air)
  <2>1. /\ Track(t) \in StoreSets /\ Track(t).app = t.app /\ Track(t).explorer = t.explorer /\ Track(t).air = t.air
        /\ (~Follows(t.air) => Track(t).cam.active = None) /\ ((t.cam.active # None => Free(t.cam)) => Owned(Track(t)))
        /\ Track(t).cam.lift = t.cam.lift
    BY <1>1, Tracking
  <2>2. QED
    BY <1>1, <1>2, <1>5, <2>1 DEF Owned
<1>6. QED
  BY <1>4, <1>5

\* Nothing is followed and no preview is set.
Unclaimed(a) == ~a.aircraftFollow /\ ~a.launchFollow /\ a.sim = None
\* The aerospace panel stays as it is and no follow is set.
Eases(a, b) == b.open = a.open /\ (Unclaimed(a) => Unclaimed(b))
\* What subscribers do: the selection stays, follows end, the camera keeps one owner.
Turns(s, t) ==
  t \in StoreSets /\ t.app = s.app /\ t.explorer = s.explorer /\ Eases(s.air, t.air) /\ (Owned(s) => Owned(t))

LEMMA Letting ==
  ASSUME NEW a \in Airs
  PROVE  Detached(a) \in Airs /\ Eases(a, Detached(a)) /\ ~Follows(Detached(a)) /\ Detached(a).tab = a.tab
         /\ Detached(a).selected = a.selected
  BY DEF Detached, Airs, Eases, Unclaimed, Follows, SimOff, None

LEMMA TurnsOn ==
  ASSUME NEW s, NEW t, NEW u, Turns(s, t), Turns(t, u)
  PROVE  Turns(s, u)
  BY DEF Turns, Eases

LEMMA Detaching ==
  ASSUME NEW s \in StoreSets
  PROVE  Turns(s, Detach(s)) /\ Detach(s).air = Detached(s.air) /\ (Owned(s) => Detach(s).cam.active = None)
<1>1. s.air \in Airs
  BY DEF StoreSets
<1>2. QED
  BY <1>1, Letting, Owning DEF Detach, Turns

LEMMA Flying ==
  ASSUME NEW s \in StoreSets, NEW k \in {"scene", "immersive"}, k = "scene" /\ Owned(s) => s.cam.active = None
  PROVE  Turns(s, Fly(s, k))
  BY Flown DEF Turns, Eases

LEMMA Requesting == ASSUME NEW s \in StoreSets, NEW c PROVE Turns(s, RequestCamera(s, c))
<1> DEFINE f == SetFollowing(s, FALSE)
           d == Detach(f)
           r == Release(d)
           v == [r EXCEPT !.cam.tracked = FALSE]
<1>1. Turns(s, f)
  BY Following DEF Turns, Eases
<1>2. Turns(f, d)
  BY <1>1, Detaching DEF Turns
<1>3. Turns(d, r) /\ r.cam.active = None
  BY <1>2, Released DEF Turns, Eases
<1>4. RequestCamera(s, c) = IF c \in {"zoom-in", "zoom-out"} THEN s
                            ELSE IF c = "orbit" /\ s.app.sat = None THEN v ELSE Fly(v, "scene")
  BY DEF RequestCamera
<1> HIDE DEF f, d, r
<1>5. Turns(r, v) /\ v.cam.active = None
  BY <1>3 DEF Turns, Eases, StoreSets, Cams, Owned, Free
<1> HIDE DEF v
<1>6. Turns(v, Fly(v, "scene"))
  BY <1>5, Flying DEF Turns
<1>7. Turns(s, s)
  BY DEF Turns, Eases
<1>8. QED
  BY <1>1, <1>2, <1>3, <1>4, <1>5, <1>6, <1>7, TurnsOn

LEMMA FlyingToSatellite == ASSUME NEW s \in StoreSets PROVE Turns(s, FlyToSatellite(s))
<1>1. Turns(s, Detach(s)) /\ (Owned(s) => Detach(s).cam.active = None)
  BY Detaching
<1>2. CASE Owned(s)
  BY <1>1, <1>2, Flying, TurnsOn DEF FlyToSatellite, Turns
<1>3. CASE ~Owned(s)
  BY <1>1, <1>3, Flown DEF FlyToSatellite, Turns, Eases
<1>4. QED
  BY <1>2, <1>3

LEMMA GlobeReacting == ASSUME NEW s \in StoreSets, NEW was PROVE Turns(s, GlobeReacts(s, was))
<1> DEFINE i == IF s.app.earthOnly # was.earthOnly THEN Fly(s, "immersive") ELSE s
           m == IF s.app.mode = was.mode \/ s.app.earthOnly THEN i
                ELSE IF s.app.mode = "STORM" THEN RequestCamera(Detach(i), "polar")
                ELSE Detach(i)
           f == IF s.app.sat \notin {None, was.sat} /\ ~m.scene.following /\ ~s.app.earthOnly
                THEN FlyToSatellite(m) ELSE m
<1>1. GlobeReacts(s, was) = IF s.app.conj \notin {None, was.conj} /\ "conjunction-detail" \in s.app.panels /\ ~s.app.earthOnly
                            THEN FlyToSatellite(f) ELSE f
  BY DEF GlobeReacts
<1>0. \A t \in StoreSets : Turns(t, t)
  BY DEF Turns, Eases
<1>2. Turns(s, i)
  BY <1>0, Flying
<1> HIDE DEF i
<1>3. Turns(i, m)
  <2>1. i \in StoreSets /\ Turns(i, i) /\ Turns(i, Detach(i))
    BY <1>0, <1>2, Detaching DEF Turns
  <2>2. Turns(Detach(i), RequestCamera(Detach(i), "polar"))
    BY <2>1, Requesting DEF Turns
  <2>3. QED
    BY <2>1, <2>2, TurnsOn
<1> HIDE DEF m
<1>4. Turns(m, f)
  BY <1>0, <1>3, FlyingToSatellite DEF Turns
<1> HIDE DEF f
<1>5. Turns(f, GlobeReacts(s, was))
  BY <1>0, <1>1, <1>4, FlyingToSatellite DEF Turns
<1>6. QED
  BY <1>2, <1>3, <1>4, <1>5, TurnsOn

LEMMA Taking ==
  ASSUME NEW s \in StoreSets
  PROVE  Turns(s, TakesCamera(s)) /\ Unclaimed(TakesCamera(s).air)
<1> DEFINE n == [s.air EXCEPT !.aircraftFollow = FALSE, !.launchFollow = FALSE, !.sim = None]
<1>1. n \in Airs /\ Eases(s.air, n) /\ Unclaimed(n)
  BY DEF StoreSets, Airs, Eases, Unclaimed
<1>2. TakesCamera(s) = Release(Own(s, n))
  BY DEF TakesCamera
<1> HIDE DEF n
<1>3. Turns(s, Own(s, n)) /\ Own(s, n).air = n
  BY <1>1, Owning DEF Turns
<1>4. Turns(Own(s, n), Release(Own(s, n))) /\ Release(Own(s, n)).air = n
  BY <1>3, Released DEF Turns, Eases
<1>5. QED
  BY <1>1, <1>2, <1>3, <1>4, TurnsOn

LEMMA TakingCamera ==
  ASSUME NEW s \in StoreSets, NEW was
  PROVE  /\ Turns(s, SelectionTakesCamera(s, was))
         /\ s.app.sat \notin {None, was.sat} => Unclaimed(SelectionTakesCamera(s, was).air)
<1>1. Turns(s, s)
  BY DEF Turns, Eases
<1>2. QED
  BY <1>1, Taking DEF SelectionTakesCamera

\* The selection and the panels of the store agree.
AppCoherent(a) == "satellite-detail" \in a.panels <=> a.sat # None
\* The stores between two handlers.
Good(s) ==
  /\ s \in StoreSets /\ Owned(s) /\ AppCoherent(s.app)
  /\ s.air.open => s.app.panels = {}
  /\ s.app.sat # None => Unclaimed(s.air)

LEMMA GoodTurns == ASSUME NEW s, NEW t, Good(s), Turns(s, t) PROVE Good(t)
  BY DEF Good, Turns, Eases

LEMMA SettingApp ==
  ASSUME NEW s \in StoreSets, Owned(s), NEW next \in Apps, NEW assigned \in BOOLEAN,
         AppCoherent(next), next.sat # None /\ next.sat = s.app.sat => Unclaimed(s.air),
         assigned \/ (s.air.open => next.panels = {})
  PROVE  Good(SetApp(s, next, assigned)) /\ SetApp(s, next, assigned).app = next
<1> DEFINE b == [s EXCEPT !.app = next]
           g == GlobeReacts(b, s.app)
           t == SelectionTakesCamera(g, s.app)
           n == [t.air EXCEPT !.open = FALSE]
           o == Own(t, n)
           e == [o EXCEPT !.explorer = [catalogOpen |-> FALSE, earthOpen |-> FALSE]]
<1>1. b \in StoreSets /\ b.app = next /\ Owned(b) /\ b.air = s.air
  BY DEF StoreSets, Owned
<1>2. SetApp(s, next, assigned) = IF assigned /\ t.app.panels # {} THEN e ELSE t
  BY DEF SetApp, PanelsReplace
<1> HIDE DEF b
<1>3. Turns(b, g)
  BY <1>1, GlobeReacting
<1> HIDE DEF g
<1>4. Turns(g, t) /\ (g.app.sat \notin {None, s.app.sat} => Unclaimed(t.air))
  BY <1>3, TakingCamera DEF Turns
<1> HIDE DEF t
<1>5. /\ t \in StoreSets /\ t.app = next /\ Owned(t) /\ t.air.open = s.air.open
      /\ next.sat # None => Unclaimed(t.air)
  BY <1>1, <1>3, <1>4 DEF Turns, Eases
<1>6. n \in Airs /\ n.open = FALSE /\ (Unclaimed(t.air) => Unclaimed(n))
  BY <1>5 DEF StoreSets, Airs, Unclaimed
<1> HIDE DEF n
<1>7. o \in StoreSets /\ o.app = next /\ Owned(o) /\ o.air = n
  BY <1>5, <1>6, Owning
<1> HIDE DEF o
<1>8. e \in StoreSets /\ e.app = next /\ Owned(e) /\ e.air = n
  BY <1>7 DEF StoreSets, Explorers, Owned
<1> HIDE DEF e
<1>9. QED
  BY <1>2, <1>5, <1>6, <1>8 DEF Good

LEMMA Assigning ==
  ASSUME NEW s, Good(s), NEW next \in Apps, AppCoherent(next)
  PROVE  Good(SetApp(s, next, TRUE)) /\ SetApp(s, next, TRUE).app = next
<1>1. s \in StoreSets /\ Owned(s) /\ (s.app.sat # None => Unclaimed(s.air))
  BY DEF Good
<1>2. next.sat # None /\ next.sat = s.app.sat => Unclaimed(s.air)
  BY <1>1
<1>3. TRUE \in BOOLEAN /\ (TRUE \/ (s.air.open => next.panels = {}))
  OBVIOUS
<1>4. QED
  BY <1>1, <1>2, <1>3, SettingApp, Zenon

LEMMA Adjusting ==
  ASSUME NEW s, Good(s), NEW next \in Apps, AppCoherent(next), next.panels = s.app.panels
  PROVE  Good(SetApp(s, next, FALSE))
<1>1. s \in StoreSets /\ Owned(s) /\ (s.app.sat # None => Unclaimed(s.air)) /\ (s.air.open => s.app.panels = {})
  BY DEF Good
<1>2. next.sat # None /\ next.sat = s.app.sat => Unclaimed(s.air)
  BY <1>1
<1>3. FALSE \in BOOLEAN /\ (FALSE \/ (s.air.open => next.panels = {}))
  BY <1>1
<1>4. QED
  BY <1>1, <1>2, <1>3, SettingApp, Zenon

LEMMA Names ==
  /\ "OPS" \in Modes /\ "active-conjunctions" \in Panels /\ Launch # Aircraft
  /\ "satellite-detail" \notin Panels /\ "conjunction-detail" \notin Panels
  /\ None \notin Sats /\ None \notin Conjs /\ Launch # None /\ Aircraft # None
  BY WorkspaceAssumption DEF DetailPanels

LEMMA Selecting ==
  ASSUME NEW s, Good(s), NEW sat \in Sats \cup {None}
  PROVE  Good(SetSelectedSatellite(s, sat)) /\ SetSelectedSatellite(s, sat).app.sat = sat
<1> DEFINE next == [s.app EXCEPT !.sat = sat,
             !.panels = IF sat # None THEN @ \cup {"satellite-detail"} ELSE @ \ {"satellite-detail"}]
<1>1. next \in Apps /\ AppCoherent(next) /\ next.sat = sat
  BY DEF Good, StoreSets, Apps, AppCoherent, DetailPanels
<1>2. SetSelectedSatellite(s, sat) = SetApp(s, next, TRUE)
  BY DEF SetSelectedSatellite
<1> HIDE DEF next
<1>3. QED
  BY <1>1, <1>2, Assigning

LEMMA SelectingPair ==
  ASSUME NEW s, Good(s), NEW c \in Conjs \cup {None}, NEW details \in BOOLEAN
  PROVE  Good(SetSelectedConjunction(s, c, details))
<1> DEFINE bare == c # None /\ ~details
           next == [s.app EXCEPT !.conj = c, !.sat = IF bare THEN None ELSE @,
             !.panels = IF c # None /\ details THEN @ \cup {"conjunction-detail"}
                        ELSE @ \ ({"conjunction-detail"} \cup IF bare THEN {"satellite-detail"} ELSE {})]
<1>1. next \in Apps /\ AppCoherent(next) /\ next.sat \in {None, s.app.sat}
  BY DEF Good, StoreSets, Apps, AppCoherent, DetailPanels
<1>2. SetSelectedConjunction(s, c, details) = SetApp(s, next, TRUE)
  BY DEF SetSelectedConjunction
<1> HIDE DEF next
<1>3. QED
  BY <1>1, <1>2, Assigning

LEMMA OpeningPanel == ASSUME NEW s, Good(s), NEW p \in Panels PROVE Good(OpenPanel(s, p))
<1> DEFINE next == [s.app EXCEPT !.panels = @ \cup {p}]
<1>1. next \in Apps /\ AppCoherent(next) /\ next.sat = s.app.sat
  BY Names DEF Good, StoreSets, Apps, AppCoherent, DetailPanels
<1>2. OpenPanel(s, p) = SetApp(s, next, TRUE)
  BY DEF OpenPanel
<1> HIDE DEF next
<1>3. QED
  BY <1>1, <1>2, Assigning

LEMMA ClosingPanel == ASSUME NEW s, Good(s), NEW p PROVE Good(ClosePanel(s, p))
<1> DEFINE next == [s.app EXCEPT !.panels = @ \ {p}, !.sat = IF p = "satellite-detail" THEN None ELSE @,
                          !.conj = IF p = "conjunction-detail" THEN None ELSE @]
<1>1. next \in Apps /\ AppCoherent(next) /\ next.sat \in {None, s.app.sat}
  BY DEF Good, StoreSets, Apps, AppCoherent, DetailPanels
<1>2. ClosePanel(s, p) = SetApp(s, next, TRUE)
  BY DEF ClosePanel
<1> HIDE DEF next
<1>3. QED
  BY <1>1, <1>2, Assigning

LEMMA ClosingAll ==
  ASSUME NEW s \in StoreSets, Owned(s)
  PROVE  Good(CloseAllPanels(s)) /\ CloseAllPanels(s).app.sat = None
<1> DEFINE next == [s.app EXCEPT !.panels = {}, !.sat = None, !.conj = None]
<1>1. next \in Apps /\ AppCoherent(next) /\ next.sat = None
  BY DEF StoreSets, Apps, AppCoherent, DetailPanels
<1>2. CloseAllPanels(s) = SetApp(s, next, TRUE)
  BY DEF CloseAllPanels
<1> HIDE DEF next
<1>3. QED
  <2>1. TRUE \in BOOLEAN /\ (next.sat # None /\ next.sat = s.app.sat => Unclaimed(s.air)) /\ (TRUE \/ (s.air.open => next.panels = {}))
    BY <1>1
  <2>2. QED
    BY <1>1, <1>2, <2>1, SettingApp, Zenon

LEMMA ChangingMode == ASSUME NEW s, Good(s), NEW m \in Modes PROVE Good(SetMode(s, m))
<1> DEFINE next == [s.app EXCEPT !.mode = m]
<1>1. next \in Apps /\ AppCoherent(next) /\ next.sat = s.app.sat /\ next.panels = s.app.panels
  BY DEF Good, StoreSets, Apps, AppCoherent
<1>2. SetMode(s, m) = SetApp(s, next, FALSE)
  BY DEF SetMode
<1> HIDE DEF next
<1>3. QED
  BY <1>1, <1>2, Adjusting

LEMMA Immersing == ASSUME NEW s, Good(s), NEW b \in BOOLEAN PROVE Good(SetEarthOnly(s, b))
<1> DEFINE next == [s.app EXCEPT !.earthOnly = b]
<1>1. next \in Apps /\ AppCoherent(next) /\ next.sat = s.app.sat /\ next.panels = s.app.panels
  BY DEF Good, StoreSets, Apps, AppCoherent
<1>2. SetEarthOnly(s, b) = SetApp(s, next, FALSE)
  BY DEF SetEarthOnly
<1> HIDE DEF next
<1>3. QED
  BY <1>1, <1>2, Adjusting

LEMMA SettingAir ==
  ASSUME NEW s, Good(s), NEW n \in Airs, s.app.sat # None /\ ~(n.open /\ ~s.air.open) => Unclaimed(n)
  PROVE  /\ Good(SetAir(s, n))
         /\ ~Follows(n) /\ (n.open => s.air.open) => SetAir(s, n).cam.active = None
<1> DEFINE t == Own(s, n)
           c == [t EXCEPT !.explorer = [catalogOpen |-> FALSE, earthOpen |-> FALSE]]
<1>1. /\ t \in StoreSets /\ t.app = s.app /\ t.air = n /\ Owned(t)
      /\ ~Follows(n) => t.cam.active = None
  BY Owning DEF Good
<1>2. SetAir(s, n) = IF n.open /\ ~s.air.open THEN CloseAllPanels(c) ELSE t
  BY DEF SetAir
<1> HIDE DEF t
<1>3. c \in StoreSets /\ Owned(c)
  BY <1>1 DEF StoreSets, Explorers, Owned
<1> HIDE DEF c
<1>4. QED
  BY <1>1, <1>2, <1>3, ClosingAll DEF Good

LEMMA Exploring == ASSUME NEW s, Good(s), NEW a \in BOOLEAN, NEW b \in BOOLEAN PROVE Good(SetExplorer(s, a, b))
  BY DEF SetExplorer, Good, StoreSets, Explorers, Owned

LEMMA FollowingGood == ASSUME NEW s, Good(s), NEW on \in BOOLEAN PROVE Good(SetFollowing(s, on))
  BY Following DEF Good

LEMMA LayeringSatellites ==
  ASSUME NEW s, Good(s), NEW on \in BOOLEAN
  PROVE  Good(SetSatellitesOn(s, on)) /\ SetSatellitesOn(s, on).air = s.air /\ SetSatellitesOn(s, on).app = s.app
<1> DEFINE f == SetFollowing(s, on /\ s.scene.following)
<1>1. f \in StoreSets /\ Good(f) /\ f.air = s.air /\ f.app = s.app
  BY Following, FollowingGood DEF Good, StoreSets, Scenes
<1>2. SetSatellitesOn(s, on) = [f EXCEPT !.scene.satellitesOn = on]
  BY DEF SetSatellitesOn
<1> HIDE DEF f
<1>3. QED
  BY <1>1, <1>2 DEF Good, StoreSets, Scenes, Owned

\* The satellites have the camera to themselves while one is selected.
LEMMA SelectedFree == ASSUME NEW s, Good(s), s.app.sat # None PROVE s.cam.active = None
  BY DEF Good, Owned, Unclaimed, Follows, None

LEMMA Presenting == ASSUME NEW s, Good(s) PROVE Good(PresentationUpdate(s))
<1> DEFINE sat == s.app.sat
           t == [s EXCEPT !.cam.presented = sat]
           d == Detach(t)
           v == [d EXCEPT !.cam.tracked = FALSE]
           fitted == IF s.cam.presented = sat THEN s
                     ELSE IF ~s.scene.following /\ sat \in High THEN Fly(v, "scene") ELSE t
           u == [fitted EXCEPT !.cam.tracked = TRUE]
           w == [fitted EXCEPT !.cam.tracked = TRUE, !.cam.flight = None]
<1>1. CASE ~Presented(s)
  <2>1. PresentationUpdate(s) = SetFollowing(s, FALSE)
    BY <1>1 DEF PresentationUpdate
  <2>2. QED
    BY <2>1, FollowingGood
<1>2. CASE Presented(s)
  <2>1. PresentationUpdate(s) = IF s.scene.following /\ ~s.cam.tracked THEN w ELSE fitted
    BY <1>2 DEF PresentationUpdate
  <2>2. sat \in Sats /\ sat # None
    BY <1>2 DEF Presented, Good, StoreSets, Apps
  <2>3. Turns(s, t)
    BY <2>2 DEF Good, Turns, Eases, StoreSets, Cams, Owned, Free
  <2>4. Good(t) /\ t.app = s.app
    BY <2>3, GoodTurns DEF Turns
  <2> HIDE DEF t
  <2>5. Turns(t, d) /\ d.cam.active = None
    BY <2>4, Detaching DEF Good
  <2> HIDE DEF d
  <2>6. Turns(d, v) /\ v.cam.active = None
    BY <2>5 DEF Turns, Eases, StoreSets, Cams, Owned, Free
  <2> HIDE DEF v
  <2>7. Turns(v, Fly(v, "scene"))
    BY <2>6, Flying DEF Turns
  <2>8. Turns(t, Fly(v, "scene"))
    BY <2>5, <2>6, <2>7, TurnsOn
  <2>9. Good(fitted) /\ fitted.app = s.app
    BY <2>4, <2>8, GoodTurns DEF Turns
  <2> HIDE DEF fitted
  <2>10. fitted.cam.active = None
    BY <2>2, <2>9, SelectedFree
  <2>11. Good(u) /\ u.cam.active = None
    BY <2>9, <2>10 DEF Good, StoreSets, Cams, Owned
  <2>12. w = [u EXCEPT !.cam.flight = None]
    BY Zenon
  <2> HIDE DEF u, w
  <2>13. Good(w)
    BY <2>11, <2>12 DEF Good, StoreSets, Cams, Owned
  <2>14. QED
    BY <2>1, <2>9, <2>13
<1>3. QED
  BY <1>1, <1>2

LEMMA LiftingOff == ASSUME NEW s, Good(s) PROVE Good(LiftoffTick(s))
<1> DEFINE n == [s.air EXCEPT !.sim = None]
           a == SetAir(s, n)
           b == [s EXCEPT !.cam.lift = "preparing"]
           c == [b EXCEPT !.cam.flight = None]
           d == [c EXCEPT !.cam.tracked = FALSE]
           e == [s EXCEPT !.cam.lift = "preparing", !.cam.flight = None, !.cam.tracked = FALSE]
<1>1. \A t : Good(t) => Good([t EXCEPT !.cam.lift = "idle"])
  BY DEF Good, StoreSets, Cams, Owned, Free
<1>2. n \in Airs /\ (Unclaimed(s.air) => Unclaimed(n)) /\ n.open = s.air.open
  BY DEF Good, StoreSets, Airs, Unclaimed
<1> HIDE DEF n
<1>3. Good(a)
  BY <1>2, SettingAir DEF Good
<1> HIDE DEF a
<1>4. Good(b)
  BY DEF Good, StoreSets, Cams, Owned, Free
<1> HIDE DEF b
<1>5. Good(c)
  BY <1>4 DEF Good, StoreSets, Cams, Owned, Free, None
<1> HIDE DEF c
<1>6. Good(d)
  BY <1>5 DEF Good, StoreSets, Cams, Owned, Free
<1>7. e = d
  BY Zenon DEF b, c
<1> HIDE DEF d, e
<1>8. Good(SetFollowing(SetSelectedSatellite(e, None), FALSE))
  BY <1>6, <1>7, Selecting, FollowingGood
<1>9. LiftoffTick(s) =
        IF s.air.sim = None THEN [s EXCEPT !.cam.lift = "idle"]
        ELSE IF s.air.selected # Launch \/ Launch \notin listed THEN [a EXCEPT !.cam.lift = "idle"]
        ELSE IF s.cam.lift # "idle" THEN s
        ELSE SetFollowing(SetSelectedSatellite(e, None), FALSE)
  BY Zenon DEF LiftoffTick, a, n, e
<1>10. QED
  BY <1>1, <1>3, <1>8, <1>9

LEMMA TrackingGood == ASSUME NEW s, Good(s) PROVE Good(Track(s))
<1>1. Turns(s, Track(s))
  BY Tracking DEF Good, Turns, Eases, Owned
<1>2. QED
  BY <1>1, GoodTurns

-----------------------------------------------------------------------------
(* The actions. *)

LEMMA Becoming == ASSUME NEW s, Good(s), Becomes(s) PROVE Good(Stores)'
<1>1. Stores' = s
  BY DEF Becomes, Stores, Good, StoreSets
<1>2. QED
  BY <1>1 DEF Good, Owned

LEMMA Fields ==
  Good(Stores) => /\ Stores \in StoreSets /\ Stores.app = app /\ Stores.air = air /\ Stores.scene = scene
                  /\ Stores.explorer = explorer /\ Stores.cam = cam /\ Owned(Stores)
                  /\ air \in Airs /\ app \in Apps /\ scene \in Scenes /\ explorer \in Explorers
                  /\ air.open => app.panels = {} /\ app.sat = None
                  /\ app.sat # None => Unclaimed(air)
  BY DEF Good, Stores, StoreSets, AppCoherent

\* The aerospace store is set while its panel is open or opens, or is only eased.
LEMMA Airing ==
  ASSUME Good(Stores), NEW n \in Airs, air.open \/ n.open \/ (Unclaimed(air) => Unclaimed(n)), Becomes(SetAir(Stores, n))
  PROVE  Good(Stores)'
<1>1. Stores.app.sat # None /\ ~(n.open /\ ~Stores.air.open) => Unclaimed(n)
  BY Fields
<1>2. Good(SetAir(Stores, n))
  BY <1>1, SettingAir
<1>3. QED
  BY <1>2, Becoming

LEMMA SelectKeeps == ASSUME Good(Stores), Select PROVE Good(Stores)'
<1>1. CASE \E sat \in Sats : SearchSelect(sat)
  BY <1>1, Becoming, ChangingMode, Selecting, Names DEF SearchSelect
<1>2. CASE \E sat \in Sats : PickSatellite(sat)
  <2>1. PICK sat \in Sats : PickSatellite(sat)
    BY <1>2
  <2> DEFINE n == [air EXCEPT !.selected = None, !.sim = None, !.followed = FALSE]
             s == SetAir(Stores, n)
  <2>2. n \in Airs /\ (Unclaimed(air) => Unclaimed(n)) /\ n.open = air.open
    BY Fields DEF Airs, Unclaimed
  <2>3. Becomes(SetSelectedSatellite(CloseAllPanels(s), sat))
    BY <2>1 DEF PickSatellite
  <2> HIDE DEF n
  <2>4. Good(s)
    BY <2>2, Fields, SettingAir
  <2> HIDE DEF s
  <2>5. Good(CloseAllPanels(s))
    BY <2>4, ClosingAll DEF Good
  <2>6. QED
    BY <2>3, <2>5, Selecting, Becoming
<1>3. CASE \E id \in {Launch, Aircraft} : PickObject(id)
  <2>1. PICK id \in {Launch, Aircraft} : PickObject(id)
    BY <1>3
  <2> DEFINE s == CloseAllPanels(Stores)
             n == [s.air EXCEPT !.selected = id, !.open = TRUE, !.sim = None,
                                !.tab = IF id = Aircraft THEN "aircraft" ELSE "launches"]
  <2>2. Becomes(SetAir(s, n))
    BY <2>1 DEF PickObject
  <2>3. Good(s) /\ s.app.sat = None
    BY ClosingAll, Fields
  <2> HIDE DEF s
  <2>4. n \in Airs
    BY <2>3 DEF Good, StoreSets, Airs
  <2> HIDE DEF n
  <2>5. QED
    BY <2>2, <2>3, <2>4, SettingAir, Becoming
<1>4. CASE \E id \in {Launch, Aircraft} : SelectRow(id)
  <2>1. PICK id \in {Launch, Aircraft} : SelectRow(id)
    BY <1>4
  <2> DEFINE n == [air EXCEPT !.selected = id, !.sim = IF id = Launch THEN None ELSE @]
  <2>2. n \in Airs /\ air.open /\ Becomes(SetAir(Stores, n))
    BY <2>1, Fields DEF Airs, SelectRow, AerospaceShown
  <2> HIDE DEF n
  <2>3. QED
    BY <2>2, Airing
<1>5. CASE \E id \in {Launch, Aircraft} : Locate(id)
  <2>1. PICK id \in {Launch, Aircraft} : Locate(id)
    BY <1>5
  <2> DEFINE n == [Detached(air) EXCEPT !.aircraftOn = @ \/ id = Aircraft, !.launchesOn = @ \/ id = Launch]
             s == SetAir(Stores, n)
  <2>2. n \in Airs /\ ~Follows(n)
    BY Fields, Letting DEF Airs, Follows
  <2>3. app.sat = None /\ air.open /\ (Becomes(s) \/ Becomes(Fly(s, "scene")))
    BY <2>1, Fields DEF Locate, AircraftShown, LaunchShown, AerospaceShown
  <2> HIDE DEF n
  <2>4. Good(s) /\ s.cam.active = None
    BY <2>2, <2>3, Fields, SettingAir
  <2> HIDE DEF s
  <2>5. Good(Fly(s, "scene"))
    BY <2>4, Flying, GoodTurns DEF Good
  <2>6. QED
    BY <2>3, <2>4, <2>5, Becoming
<1>6. CASE PickCamera
  <2> DEFINE s == CloseAllPanels(Stores)
             n == [s.air EXCEPT !.open = FALSE]
  <2>1. Becomes(SetExplorer(SetAir(s, n), FALSE, TRUE))
    BY <1>6 DEF PickCamera
  <2>2. Good(s) /\ s.app.sat = None
    BY ClosingAll, Fields
  <2> HIDE DEF s
  <2>3. n \in Airs
    BY <2>2 DEF Good, StoreSets, Airs
  <2> HIDE DEF n
  <2>4. QED
    BY <2>1, <2>2, <2>3, SettingAir, Exploring, Becoming
<1>7. CASE ClearAircraft
  <2> DEFINE n == [air EXCEPT !.selected = None, !.aircraftFollow = FALSE]
  <2>1. n \in Airs /\ air.open /\ Becomes(SetAir(Stores, n))
    BY <1>7, Fields DEF Airs, ClearAircraft, AircraftShown, AerospaceShown
  <2> HIDE DEF n
  <2>2. QED
    BY <2>1, Airing
<1>8. CASE ChangeRegion
  <2> DEFINE n == [air EXCEPT !.selected = None]
  <2>1. n \in Airs /\ air.open /\ Becomes(SetAir(Stores, n))
    BY <1>8, Fields DEF Airs, ChangeRegion, AerospaceShown
  <2> HIDE DEF n
  <2>2. QED
    BY <2>1, Airing
<1>9. CASE ScanArea
  <2> DEFINE n == [air EXCEPT !.selected = None, !.aircraftFollow = FALSE]
  <2>1. n \in Airs /\ air.open /\ Becomes(SetAir(Stores, n))
    BY <1>9, Fields DEF Airs, ScanArea, AerospaceShown
  <2> HIDE DEF n
  <2>2. QED
    BY <2>1, Airing
<1>10. QED
  BY <1>1, <1>2, <1>3, <1>4, <1>5, <1>6, <1>7, <1>8, <1>9 DEF Select

LEMMA EncounterKeeps == ASSUME Good(Stores), SelectEncounter PROVE Good(Stores)'
<1>1. CASE \E sat \in Sats : ReviewSelect(sat)
  BY <1>1, Becoming, ChangingMode, Selecting, Names DEF ReviewSelect
<1>2. CASE \E sat \in Sats : WorkbenchSelect(sat)
  BY <1>2, Becoming, Selecting DEF WorkbenchSelect
<1>3. CASE \E c \in Conjs : PickConjunction(c)
  <2>1. PICK c \in Conjs : PickConjunction(c)
    BY <1>3
  <2> DEFINE s == SetSelectedConjunction(Stores, c, FALSE)
  <2>2. Becomes(SetExplorer(s, TRUE, s.explorer.earthOpen))
    BY <2>1 DEF PickConjunction
  <2>3. Good(s)
    BY SelectingPair
  <2> HIDE DEF s
  <2>4. s.explorer.earthOpen \in BOOLEAN
    BY <2>3 DEF Good, StoreSets, Explorers
  <2>5. Good(SetExplorer(s, TRUE, s.explorer.earthOpen))
    BY <2>3, <2>4, Exploring
  <2>6. QED
    BY <2>2, <2>5, Becoming
<1>4. CASE \E c \in Conjs : ListSelect(c)
  <2>1. PICK c \in Conjs : ListSelect(c)
    BY <1>4
  <2>2. Good(SetSelectedConjunction(Stores, c, TRUE))
    BY SelectingPair
  <2>3. QED
    BY <2>1, <2>2, ClosingPanel, Becoming DEF ListSelect
<1>5. CASE \E c \in Conjs \cup {None}, details \in BOOLEAN : (c = None => ~details) /\ PairSelect(c, details)
  BY <1>5, SelectingPair, Becoming DEF PairSelect
<1>6. CASE CloseExplorer
  <2> DEFINE a == explorer.catalogOpen /\ ~WorkbenchShown
             b == explorer.earthOpen /\ WorkbenchShown
  <2>1. Becomes(SetExplorer(Stores, a, b)) /\ a \in BOOLEAN /\ b \in BOOLEAN
    BY <1>6, Fields DEF CloseExplorer
  <2> HIDE DEF a, b
  <2>2. QED
    BY <2>1, Exploring, Becoming
<1>7. CASE OpenPairs
  <2>1. Becomes(SetExplorer(Stores, TRUE, explorer.earthOpen)) /\ explorer.earthOpen \in BOOLEAN
    BY <1>7, Fields DEF OpenPairs, Explorers
  <2>2. QED
    BY <2>1, Exploring, Becoming
<1>8. QED
  BY <1>1, <1>2, <1>3, <1>4, <1>5, <1>6, <1>7 DEF SelectEncounter

LEMMA ArrangeKeeps == ASSUME Good(Stores), Arrange PROVE Good(Stores)'
<1>1. CASE \E m \in Modes : ChangeMode(m) \/ TimelineSelect(m)
  BY <1>1, ChangingMode, Becoming DEF ChangeMode, TimelineSelect
<1>2. CASE Immerse
  <2>1. Becomes(SetEarthOnly(Stores, ~app.earthOnly)) /\ (~app.earthOnly) \in BOOLEAN
    BY <1>2 DEF Immerse
  <2>2. QED
    BY <2>1, Immersing, Becoming
<1>3. CASE Escape
  <2> DEFINE s == IF OverlaysShown THEN CloseAllPanels(Stores) ELSE Stores
             e == SetExplorer(s, FALSE, FALSE)
             n == [s.air EXCEPT !.open = FALSE]
  <2>1. Becomes(SetAir(e, n))
    BY <1>3 DEF Escape
  <2>2. Good(s)
    BY ClosingAll, Fields
  <2> HIDE DEF s
  <2>3. Good(e) /\ e.air = s.air /\ e.app = s.app
    BY <2>2, Exploring DEF SetExplorer, Good, StoreSets
  <2> HIDE DEF e
  <2>4. n \in Airs /\ (Unclaimed(s.air) => Unclaimed(n)) /\ ~n.open
    BY <2>2 DEF Good, StoreSets, Airs, Unclaimed
  <2> HIDE DEF n
  <2>5. Good(SetAir(e, n))
    BY <2>3, <2>4, SettingAir DEF Good
  <2>6. QED
    BY <2>1, <2>5, Becoming
<1>4. CASE ToggleList
  BY <1>4, OpeningPanel, ClosingPanel, Becoming, Names DEF ToggleList
<1>5. CASE CloseAerospace
  <2> DEFINE n == [air EXCEPT !.open = FALSE]
  <2>1. n \in Airs /\ air.open /\ Becomes(SetAir(Stores, n))
    BY <1>5, Fields DEF CloseAerospace, AerospaceShown, Airs
  <2> HIDE DEF n
  <2>2. QED
    BY <2>1, Airing
<1>6. CASE \E tab \in {"catalog", "aircraft", "launches", "earth"} : ExplorerOpen(tab)
  <2>1. PICK tab \in {"catalog", "aircraft", "launches", "earth"} : ExplorerOpen(tab)
    BY <1>6
  <2> DEFINE d == Detach(Stores)
             f == SetFollowing(d, FALSE)
             s == CloseAllPanels(f)
             a == tab = "catalog" /\ ~explorer.catalogOpen
             b == tab = "earth" /\ ~explorer.earthOpen
             t == SetExplorer(s, a, b)
             flying == tab \in {"aircraft", "launches"}
             opens == flying /\ ~(air.open /\ air.tab = tab)
             n == [t.air EXCEPT !.open = opens, !.tab = IF flying THEN tab ELSE @]
  <2>2. Becomes(SetAir(t, n))
    BY <2>1 DEF ExplorerOpen
  <2>3. Good(d)
    BY Fields, Detaching, GoodTurns
  <2> HIDE DEF d
  <2>4. Good(f)
    BY <2>3, FollowingGood
  <2> HIDE DEF f
  <2>5. Good(s) /\ s.app.sat = None
    BY <2>4, ClosingAll DEF Good
  <2> HIDE DEF s
  <2>6. a \in BOOLEAN /\ b \in BOOLEAN
    OBVIOUS
  <2> HIDE DEF a, b
  <2>7. Good(t) /\ t.app.sat = None
    BY <2>5, <2>6, Exploring DEF SetExplorer, Good, StoreSets
  <2> HIDE DEF t
  <2>8. n \in Airs
    <3>1. opens \in BOOLEAN /\ t.air \in Airs
      BY <2>7 DEF Good, StoreSets
    <3> HIDE DEF opens
    <3>2. QED
      BY <3>1 DEF Airs
  <2> HIDE DEF n
  <2>9. Good(SetAir(t, n))
    BY <2>7, <2>8, SettingAir
  <2>10. QED
    BY <2>2, <2>9, Becoming
<1>7. CASE \E p \in Panels \cup DetailPanels : CloseCard(p)
  BY <1>7, ClosingPanel, Becoming DEF CloseCard
<1>8. QED
  BY <1>1, <1>2, <1>3, <1>4, <1>5, <1>6, <1>7 DEF Arrange

LEMMA DecorateKeeps == ASSUME Good(Stores), Decorate PROVE Good(Stores)'
<1>1. CASE \E p \in Panels \ {"active-conjunctions"} : OpenReadout(p)
  <2>1. Good(CloseAllPanels(Stores))
    BY Fields, ClosingAll
  <2>2. QED
    BY <1>1, <2>1, OpeningPanel, Becoming DEF OpenReadout
<1>2. CASE \E l \in Layers : SetLayers(l)
  <2>1. PICK l \in Layers : SetLayers(l)
    BY <1>2
  <2> DEFINE s == SetSatellitesOn(Stores, l[1])
             n == [air EXCEPT !.aircraftOn = l[2], !.launchesOn = l[3]]
  <2>2. l[1] \in BOOLEAN /\ l[2] \in BOOLEAN /\ l[3] \in BOOLEAN
    BY WorkspaceAssumption
  <2>3. Becomes(SetAir(s, n))
    BY <2>1 DEF SetLayers
  <2>4. n \in Airs /\ (Unclaimed(air) => Unclaimed(n)) /\ n.open = air.open
    BY <2>2, Fields DEF Airs, Unclaimed
  <2> HIDE DEF n
  <2>5. Good(s) /\ s.air = air /\ s.app = app
    BY <2>2, LayeringSatellites, Fields
  <2> HIDE DEF s
  <2>6. Good(SetAir(s, n))
    BY <2>4, <2>5, SettingAir, Fields
  <2>7. QED
    BY <2>3, <2>6, Becoming
<1>3. QED
  BY <1>1, <1>2 DEF Decorate

LEMMA SteerKeeps == ASSUME Good(Stores), Steer PROVE Good(Stores)'
<1>1. CASE \E c \in {"home", "zoom-in", "orbit"} : CameraCommand(c)
  <2>1. PICK c \in {"home", "zoom-in", "orbit"} : CameraCommand(c)
    BY <1>1
  <2>2. Good(RequestCamera(Stores, c))
    BY Fields, Requesting, GoodTurns
  <2>3. QED
    BY <2>1, <2>2, Becoming DEF CameraCommand
<1>2. CASE FollowSatellite
  <2>1. Becomes(SetFollowing(Stores, ~scene.following)) /\ (~scene.following) \in BOOLEAN
    BY <1>2 DEF FollowSatellite
  <2>2. QED
    BY <2>1, FollowingGood, Becoming
<1>3. CASE InspectorFollow
  <2>1. Becomes(SetFollowing(SetSatellitesOn(Stores, TRUE), ~scene.following)) /\ (~scene.following) \in BOOLEAN
    BY <1>3 DEF InspectorFollow
  <2>2. Good(SetSatellitesOn(Stores, TRUE))
    BY LayeringSatellites
  <2>3. QED
    BY <2>1, <2>2, FollowingGood, Becoming
<1>4. CASE EarthLocate
  <2> DEFINE n == Detached(air)
             s == SetAir(Stores, n)
             f == SetFollowing(s, FALSE)
  <2>1. Becomes(Fly(f, "scene"))
    BY <1>4 DEF EarthLocate
  <2>2. n \in Airs /\ ~Follows(n) /\ n.open = air.open /\ (Unclaimed(air) => Unclaimed(n))
    BY Fields, Letting DEF Eases
  <2> HIDE DEF n
  <2>3. Good(s) /\ s.cam.active = None
    BY <2>2, Fields, SettingAir
  <2> HIDE DEF s
  <2>4. Good(f) /\ f.cam.active = None
    BY <2>3, Following, FollowingGood DEF Good
  <2> HIDE DEF f
  <2>5. Good(Fly(f, "scene"))
    BY <2>4, Flying, GoodTurns DEF Good
  <2>6. QED
    BY <2>1, <2>5, Becoming
<1>5. CASE FollowAircraft
  <2> DEFINE n == [air EXCEPT !.aircraftFollow = ~@, !.launchFollow = FALSE]
  <2>1. n \in Airs /\ air.open /\ Becomes(SetAir(Stores, n))
    BY <1>5, Fields DEF Airs, FollowAircraft, AircraftShown, AerospaceShown
  <2> HIDE DEF n
  <2>2. QED
    BY <2>1, Airing
<1>6. CASE FollowLaunch
  <2> DEFINE follow == ~air.followed
             n == [air EXCEPT !.followed = ~@, !.launchFollow = follow, !.sim = None,
                              !.aircraftFollow = FALSE, !.launchesOn = TRUE]
  <2>1. air.open /\ Becomes(SetAir(Stores, n))
    BY <1>6 DEF FollowLaunch, LaunchShown, AerospaceShown
  <2>2. follow \in BOOLEAN
    OBVIOUS
  <2> HIDE DEF follow
  <2>3. n \in Airs
    BY <2>2, Fields DEF Airs
  <2> HIDE DEF n
  <2>4. QED
    BY <2>1, <2>3, Airing
<1>7. CASE ShowWatched
  <2> DEFINE n == [air EXCEPT !.selected = Launch, !.open = TRUE, !.tab = "launches", !.launchFollow = TRUE]
  <2>1. n \in Airs /\ n.open /\ Becomes(SetAir(Stores, n))
    BY <1>7, Fields DEF Airs, ShowWatched
  <2> HIDE DEF n
  <2>2. QED
    BY <2>1, Airing
<1>8. CASE StopWatching
  <2> DEFINE n == [air EXCEPT !.followed = FALSE, !.launchFollow = FALSE]
  <2>1. n \in Airs /\ (Unclaimed(air) => Unclaimed(n)) /\ Becomes(SetAir(Stores, n))
    BY <1>8, Fields DEF Airs, Unclaimed, StopWatching
  <2> HIDE DEF n
  <2>2. QED
    BY <2>1, Airing
<1>9. QED
  BY <1>1, <1>2, <1>3, <1>4, <1>5, <1>6, <1>7, <1>8 DEF Steer

LEMMA RehearseKeeps == ASSUME Good(Stores), Rehearse PROVE Good(Stores)'
<1>1. CASE Preview
  <2> DEFINE n == [air EXCEPT !.sim = "follow", !.followed = FALSE, !.launchesOn = TRUE]
  <2>1. n \in Airs /\ air.open /\ Becomes(SetAir(Stores, n))
    BY <1>1, Fields DEF Airs, Preview, LaunchShown, AerospaceShown
  <2> HIDE DEF n
  <2>2. QED
    BY <2>1, Airing
<1>2. CASE PreviewFollow
  <2> DEFINE n == [air EXCEPT !.sim = IF @ = "follow" THEN "free" ELSE "follow"]
  <2>1. n \in Airs /\ air.open /\ Becomes(SetAir(Stores, n))
    BY <1>2, Fields DEF Airs, PreviewFollow, LaunchShown, AerospaceShown
  <2> HIDE DEF n
  <2>2. QED
    BY <2>1, Airing
<1>3. CASE ExitPreview
  <2> DEFINE n == [air EXCEPT !.sim = None]
  <2>1. n \in Airs /\ (Unclaimed(air) => Unclaimed(n)) /\ Becomes(SetAir(Stores, n))
    BY <1>3, Fields DEF Airs, Unclaimed, ExitPreview
  <2> HIDE DEF n
  <2>2. QED
    BY <2>1, Airing
<1>4. CASE TerrainReady
  <2>1. Becomes([Stores EXCEPT !.cam.lift = "ready"])
    BY <1>4 DEF TerrainReady
  <2>2. Good([Stores EXCEPT !.cam.lift = "ready"])
    BY DEF Good, StoreSets, Cams, Owned, Free
  <2>3. QED
    BY <2>1, <2>2, Becoming
<1>5. QED
  BY <1>1, <1>2, <1>3, <1>4 DEF Rehearse

LEMMA GlobeKeeps == ASSUME Good(Stores), Globe PROVE Good(Stores)'
<1>1. CASE GlobeFrame
  BY <1>1, Presenting, LiftingOff, TrackingGood, Becoming DEF GlobeFrame
<1>2. CASE \E id \in Passing : Listing(id)
  BY <1>2 DEF Listing, Stores, Good, Owned
<1>3. CASE CatalogMessage
  <2>1. Good(TakesCamera(Stores))
    BY Fields, Taking, GoodTurns
  <2>2. QED
    BY <1>3, <2>1, Becoming DEF CatalogMessage
<1>4. CASE ConjunctionMessage
  <2> DEFINE next == [app EXCEPT !.conj = None]
  <2>1. next \in Apps /\ AppCoherent(next) /\ next.panels = app.panels /\ next.sat = app.sat
    BY Fields DEF Apps, AppCoherent, Good
  <2>2. Stores' = [app |-> next, scene |-> scene, explorer |-> explorer, air |-> air, cam |-> cam]
    BY <1>4 DEF ConjunctionMessage, Stores
  <2> HIDE DEF next
  <2>3. cam \in Cams
    BY Fields DEF StoreSets
  <2>4. Stores' \in StoreSets
    BY <2>1, <2>2, <2>3, Fields DEF StoreSets
  <2>5. QED
    BY <2>1, <2>2, <2>4, Fields DEF Good, Owned
<1>5. QED
  BY <1>1, <1>2, <1>3, <1>4 DEF Globe

LEMMA MissionKeeps == ASSUME Good(Stores), OpenMission \/ CloseMission PROVE Good(Stores)'
<1>1. NoCamera \in Cams /\ [NoCamera EXCEPT !.flight = "scene"] \in Cams
  BY DEF NoCamera, Cams, None
<1>2. NoCamera.active = None /\ [NoCamera EXCEPT !.flight = "scene"].active = None
  BY DEF NoCamera
<1>3. ASSUME NEW n \in Airs, NEW c \in Cams, Unclaimed(air) => Unclaimed(n), n.open = air.open, c.active = None,
             air' = n, cam' = c, UNCHANGED <<app, scene, explorer>>
      PROVE  Good(Stores)'
  <2>1. Stores' = [app |-> app, scene |-> scene, explorer |-> explorer, air |-> n, cam |-> c]
    BY <1>3 DEF Stores
  <2>2. Stores' \in StoreSets
    BY <1>3, <2>1, Fields DEF StoreSets
  <2>3. AppCoherent(Stores'.app)
    BY <2>1 DEF Good, Stores
  <2>4. QED
    BY <1>3, <2>1, <2>2, <2>3, Fields DEF Good, Owned
<1>4. CASE OpenMission
  <2>1. [air EXCEPT !.sim = None] \in Airs /\ (Unclaimed(air) => Unclaimed([air EXCEPT !.sim = None]))
        /\ [air EXCEPT !.sim = None].open = air.open
    BY Fields DEF Airs, Unclaimed
  <2>2. QED
    BY <1>1, <1>2, <1>3, <1>4, <2>1 DEF OpenMission
<1>5. CASE CloseMission
  <2>1. Detached(air) \in Airs /\ (Unclaimed(air) => Unclaimed(Detached(air))) /\ Detached(air).open = air.open
    BY Fields, Letting DEF Eases
  <2>2. QED
    BY <1>1, <1>2, <1>3, <1>5, <2>1 DEF CloseMission
<1>6. QED
  BY <1>4, <1>5

\* The other two variables.
Placed == mission \in BOOLEAN /\ listed \subseteq Sats \cup {Launch, Aircraft}

LEMMA WorkspaceStart == WorkspaceInit => Good(Stores) /\ Placed
<1> SUFFICES ASSUME WorkspaceInit PROVE Good(Stores) /\ Placed
  OBVIOUS
<1>1. Placed
  BY DEF WorkspaceInit, Placed
<1>2. app \in Apps /\ scene \in Scenes /\ explorer \in Explorers
  BY WorkspaceAssumption DEF WorkspaceInit, Apps, Scenes, Explorers
<1>3. PICK linked \in Linked :
       air = [open |-> linked, tab |-> "launches", aircraftOn |-> TRUE, launchesOn |-> TRUE,
              selected |-> IF linked THEN Launch ELSE None, followed |-> linked, launchFollow |-> linked,
              aircraftFollow |-> FALSE, sim |-> None]
  BY DEF WorkspaceInit
<1>4. air \in Airs
  BY <1>3, WorkspaceAssumption DEF Airs
<1>5. cam \in Cams /\ cam.active = None
  BY DEF WorkspaceInit, NoCamera, Cams, None
<1>6. Stores \in StoreSets
  BY <1>2, <1>4, <1>5 DEF Stores, StoreSets
<1>7. Stores.app.panels = {} /\ Stores.app.sat = None /\ Stores.cam.active = None
  BY <1>5 DEF Stores, WorkspaceInit
<1>8. QED
  BY <1>1, <1>6, <1>7 DEF Good, Owned, AppCoherent

LEMMA PlacedStep == Placed /\ [WorkspaceNext]_workspaceVars => Placed'
<1>1. Select \/ SelectEncounter => UNCHANGED <<mission, listed>>
  BY DEF Select, SearchSelect, PickSatellite, PickObject, SelectRow, Locate, PickCamera, ClearAircraft, ChangeRegion, ScanArea,
         SelectEncounter, ReviewSelect, WorkbenchSelect, PickConjunction, ListSelect, PairSelect, CloseExplorer, OpenPairs, Becomes
<1>2. Arrange \/ Decorate => UNCHANGED <<mission, listed>>
  BY DEF Arrange, ChangeMode, TimelineSelect, Immerse, Escape, ToggleList, CloseAerospace, ExplorerOpen, CloseCard,
         Decorate, OpenReadout, SetLayers, Becomes
<1>3. Steer \/ Rehearse => UNCHANGED <<mission, listed>>
  BY DEF Steer, CameraCommand, FollowSatellite, InspectorFollow, EarthLocate, FollowAircraft, FollowLaunch, ShowWatched,
         StopWatching, Rehearse, Preview, PreviewFollow, ExitPreview, TerrainReady, Becomes
<1>4. Globe /\ Placed => Placed'
  BY WorkspaceAssumption DEF Globe, GlobeFrame, Listing, CatalogMessage, ConjunctionMessage, Becomes, Placed
<1>5. OpenMission \/ CloseMission => mission' \in BOOLEAN /\ listed' = listed
  BY DEF OpenMission, CloseMission
<1>6. UNCHANGED workspaceVars => UNCHANGED <<mission, listed>>
  BY DEF workspaceVars
<1>7. QED
  BY <1>1, <1>2, <1>3, <1>4, <1>5, <1>6 DEF WorkspaceNext, Placed

LEMMA GoodStep == Good(Stores) /\ [WorkspaceNext]_workspaceVars => Good(Stores)'
<1>1. Good(Stores) /\ UNCHANGED workspaceVars => Good(Stores)'
  BY DEF workspaceVars, Stores, Good, Owned
<1>2. QED
  BY <1>1, SelectKeeps, EncounterKeeps, ArrangeKeeps, DecorateKeeps, SteerKeeps, RehearseKeeps, GlobeKeeps, MissionKeeps
     DEF WorkspaceNext

LEMMA WorkspaceInvariant == WorkspaceSpec => [](Good(Stores) /\ Placed)
<1>1. WorkspaceInit => Good(Stores) /\ Placed
  BY WorkspaceStart
<1>2. Good(Stores) /\ Placed /\ [WorkspaceNext]_workspaceVars => (Good(Stores) /\ Placed)'
  BY GoodStep, PlacedStep
<1>3. QED
  BY <1>1, <1>2, PTL DEF WorkspaceSpec

\* The stores are well formed.
THEOREM WorkspaceTypeCorrect == WorkspaceSpec => []WorkspaceTypeOK
<1>1. Good(Stores) /\ Placed => WorkspaceTypeOK
  <2> SUFFICES ASSUME Good(Stores), Placed PROVE WorkspaceTypeOK
    OBVIOUS
  <2>1. Stores.cam \in Cams /\ Stores.cam = cam
    BY DEF Good, StoreSets, Stores
  <2>2. QED
    BY <2>1, Fields DEF WorkspaceTypeOK, Placed, Apps, Scenes, Explorers, Airs, Cams
<1>2. QED
  BY <1>1, WorkspaceInvariant, PTL

\* Whatever closes or replaces a panel, the aerospace panel stands alone, and the
\* satellite's panel is open exactly while one is selected.
THEOREM WorkspacePanelsCoherent == WorkspaceSpec => []PanelsCoherent
<1>1. Good(Stores) => PanelsCoherent
  BY DEF Good, AppCoherent, Stores, PanelsCoherent
<1>2. QED
  BY <1>1, WorkspaceInvariant, PTL

\* The satellite tracker, the aerospace follower and the globe's flights do not
\* contend for the camera.
THEOREM WorkspaceOneCameraOwner == WorkspaceSpec => []OneCameraOwner
<1>1. Good(Stores) => OneCameraOwner
  BY DEF Good, Owned, Free, Stores, OneCameraOwner
<1>2. QED
  BY <1>1, WorkspaceInvariant, PTL

\* A rocket preview that runs never coexists with a selected satellite.
THEOREM WorkspacePreviewOwnsSelection == WorkspaceSpec => []PreviewOwnsSelection
<1>1. Good(Stores) => PreviewOwnsSelection
  BY Fields DEF Unclaimed, PreviewOwnsSelection
<1>2. QED
  BY <1>1, WorkspaceInvariant, PTL

-----------------------------------------------------------------------------
(* Launcher. *)

Owns(l)   == Holding(l) /\ down[l] # "done"
Final     == {"refused", "crashed", "ended"}

\* The process a launcher read from the state file has been started; one that was
\* found dead has ended.
HolderGone ==
    /\ state \in Launchers => pc[state] # "new"
    /\ \A l \in Launchers :
          /\ pc[l] \in {"check", "remove"} => old[l] \in Launchers /\ pc[old[l]] # "new"
          /\ pc[l] = "remove" => pc[old[l]] \in Final

LockOwned     == \A l \in Launchers : Owns(l) => locked /\ state \in {NoOne, l}
Exclusive == \A l, m \in Launchers : Owns(l) /\ Owns(m) => l = m

LockInv == LauncherTypeOK /\ HolderGone /\ (~misled => LockOwned /\ Exclusive)

\* Services are killed before the shutdown goes on, and none is launched after it
\* began.
Emptied ==
    \A l \in Launchers :
        /\ down[l] \in {"infra", "unlock", "done"} => alive[l] = {}
        /\ pc[l] = "ended" => down[l] = "done"

-----------------------------------------------------------------------------

PCs == Over \cup {"occupied", "check", "remove", "retake", "logs", "prepare", "ports",
                  "status", "up", "launch", "ready", "caught"}

USE DEF lock, children, infra, Numbers

LEMMA TypeInit == LauncherInit => LauncherTypeOK
<1> SUFFICES ASSUME LauncherInit PROVE LauncherTypeOK
  OBVIOUS
<1>1. alive \in [Launchers -> SUBSET Numbers] /\ \A l \in Launchers : alive[l] \subseteq 1..launched[l]
  BY DEF LauncherInit
<1>2. launched \in [Launchers -> 0..Services] /\ crashes \in 0..MaxCrashes
  BY NumbersAssumption DEF LauncherInit
<1>3. owned \in [Launchers -> BOOLEAN] /\ failed \in [Launchers -> BOOLEAN]
  BY DEF LauncherInit
<1>4. QED
  BY <1>1, <1>2, <1>3 DEF LauncherInit, LauncherTypeOK, Over

\* Every step keeps the variables typed.
LEMMA TypeStep == LauncherTypeOK /\ [LauncherNext]_launcherVars => LauncherTypeOK'
<1> SUFFICES ASSUME LauncherTypeOK, [LauncherNext]_launcherVars PROVE LauncherTypeOK'
  OBVIOUS
<1> USE NumbersAssumption
<1>1. CASE UNCHANGED launcherVars
  BY <1>1 DEF LauncherTypeOK, launcherVars
<1>2. CASE LauncherNext
  <2> PICK l \in Launchers :
        \/ Startup(l) \/ Shutdown(l)
        \/ Stop(l) \/ Crash(l)
        \/ \E i \in Numbers : ServiceExits(l, i)
    BY <1>2 DEF LauncherNext
  <2>1. CASE TakeLock(l)
    BY <2>1 DEF TakeLock, Goto, LauncherTypeOK, Over
  <2>2. CASE ReadState(l)
    BY <2>2 DEF ReadState, Goto, LauncherTypeOK, Over
  <2>3. CASE CheckHolder(l)
    BY <2>3 DEF CheckHolder, Goto, LauncherTypeOK, Over
  <2>4. CASE RemoveStale(l)
    BY <2>4 DEF RemoveStale, Goto, LauncherTypeOK, Over
  <2>5. CASE Retake(l)
    BY <2>5 DEF Retake, Goto, LauncherTypeOK, Over
  <2>6. CASE OpenServer(l)
    BY <2>6 DEF OpenServer, Goto, LauncherTypeOK, Over
  <2>7. CASE WriteState(l)
    BY <2>7 DEF WriteState, Throw, ShutDown, Goto, LauncherTypeOK, Over
  <2>8. CASE CheckPorts(l)
    BY <2>8 DEF CheckPorts, Throw, ShutDown, Goto, LauncherTypeOK, Over
  <2>9. CASE ContainerStatus(l)
    <3>1. owned' \in [Launchers -> BOOLEAN]
      BY <2>9 DEF ContainerStatus, Throw, LauncherTypeOK
    <3>2. QED
      BY <2>9, <3>1 DEF ContainerStatus, Throw, ShutDown, Goto, LauncherTypeOK, Over
  <2>10. CASE StartContainers(l)
    BY <2>10 DEF StartContainers, Throw, ShutDown, Goto, LauncherTypeOK, Over
  <2>11. CASE StartupFails(l)
    BY <2>11 DEF StartupFails, Throw, ShutDown, Goto, LauncherTypeOK, Over
  <2>12. CASE LaunchService(l)
    <3>1. CASE down[l] # "no" /\ Throw(l, "launch")
      BY <3>1 DEF Throw, ShutDown, Goto, LauncherTypeOK, Over
    <3>2. CASE ~(down[l] # "no" /\ Throw(l, "launch"))
      <4>1. /\ launched[l] < Services
            /\ launched' = [launched EXCEPT ![l] = launched[l] + 1]
            /\ alive' = [alive EXCEPT ![l] = alive[l] \cup {launched[l] + 1}]
        BY <2>12, <3>2 DEF LaunchService
      <4>2. launched' \in [Launchers -> 0..Services] /\ launched[l] \in Nat
        BY <4>1 DEF LauncherTypeOK
      <4>3. \A m \in Launchers : alive'[m] \subseteq 1..launched'[m]
        BY <4>1, <4>2 DEF LauncherTypeOK
      <4>4. QED
        BY <2>12, <3>2, <4>2, <4>3 DEF LaunchService, Goto, LauncherTypeOK, Over
    <3>3. QED
      BY <3>1, <3>2
  <2>13. CASE Ready(l)
    BY <2>13 DEF Ready, Goto, LauncherTypeOK, Over
  <2>14. CASE KillChildren(l)
    BY <2>14 DEF KillChildren, Shut, LauncherTypeOK, Over
  <2>15. CASE StopContainers(l)
    BY <2>15 DEF StopContainers, Shut, LauncherTypeOK, Over
  <2>16. CASE Unlock(l)
    BY <2>16 DEF Unlock, Shut, LauncherTypeOK, Over
  <2>17. CASE End(l)
    BY <2>17 DEF End, LauncherTypeOK, Over
  <2>18. CASE Stop(l)
    BY <2>18 DEF Stop, ShutDown, LauncherTypeOK, Over
  <2>19. CASE Crash(l)
    BY <2>19 DEF Crash, LauncherTypeOK, Over
  <2>20. CASE \E i \in Numbers : ServiceExits(l, i)
    <3>1. failed' \in [Launchers -> BOOLEAN]
      BY <2>20 DEF ServiceExits, LauncherTypeOK
    <3>2. /\ alive' \in [Launchers -> SUBSET Numbers]
          /\ \A m \in Launchers : alive'[m] \subseteq 1..launched'[m]
      BY <2>20 DEF ServiceExits, LauncherTypeOK
    <3>3. QED
      BY <2>20, <3>1, <3>2 DEF ServiceExits, ShutDown, LauncherTypeOK, Over
  <2>21. CASE LaunchFails(l)
    BY <2>21 DEF LaunchFails, Goto, LauncherTypeOK, Over
  <2>22. CASE ListenFails(l)
    BY <2>22 DEF ListenFails, Goto, LauncherTypeOK, Over
  <2>23. QED
    BY <2>1, <2>2, <2>3, <2>4, <2>5, <2>6, <2>7, <2>8, <2>9, <2>10, <2>11, <2>12,
       <2>13, <2>14, <2>15, <2>16, <2>17, <2>18, <2>19, <2>20, <2>21, <2>22 DEF Startup, Shutdown
<1>3. QED
  BY <1>1, <1>2

\* Every reachable state of the launchers is well typed.
THEOREM LauncherTypeCorrect == LauncherSpec => []LauncherTypeOK
  BY TypeInit, TypeStep, PTL DEF LauncherSpec

-----------------------------------------------------------------------------
(* One session.                                                            *)

LockSafe == HolderGone /\ (~misled => LockOwned /\ Exclusive)

\* A step that leaves the lock alone, and takes no flow to "new", "check" or "remove"
\* and none on that has ended, keeps the invariant.
LEMMA LeavesLock ==
    ASSUME LockInv, UNCHANGED lock, old' = old,
           \A m \in Launchers : Owns(m)' => Owns(m),
           \A m \in Launchers : pc'[m] \in {"new", "check", "remove"} => pc'[m] = pc[m],
           \A m \in Launchers : pc[m] \in Final => pc'[m] = pc[m]
    PROVE  LockSafe'
<1>1. HolderGone'
  BY DEF LockInv, HolderGone
<1>2. ~misled' => LockOwned' /\ Exclusive'
  BY DEF LockInv, LockOwned, Exclusive
<1>3. QED
  BY <1>1, <1>2 DEF LockSafe

\* An error leaves the lock to the shutdown.
LEMMA ThrowLeavesLock ==
    ASSUME LockInv, NEW l \in Launchers, NEW from, from \notin Over \cup {"occupied", "check", "remove", "retake"},
           Throw(l, from)
    PROVE  LockSafe'
<1>1. pc' = [pc EXCEPT ![l] = "caught"] /\ pc[l] = from /\ UNCHANGED <<lock, old>>
  BY DEF Throw, Goto
<1>2. \/ down' = down
      \/ down' = [down EXCEPT ![l] = "kill"] /\ down[l] = "no"
  BY DEF Throw, ShutDown
<1>3. \A m \in Launchers : Owns(m)' => Owns(m)
  BY <1>1, <1>2 DEF Owns, Holding, LockInv, LauncherTypeOK
<1>4. QED
  BY <1>1, <1>3, LeavesLock DEF LockInv, LauncherTypeOK, Final, Over

\* A freed lock is taken: nobody owned it.
LEMMA TakesFreeLock ==
    ASSUME LockInv, NEW l \in Launchers, pc[l] \in {"new", "retake"}, ~locked,
           pc' = [pc EXCEPT ![l] = "logs"], locked' = TRUE, state' = NoOne,
           UNCHANGED <<misled, down, old>>
    PROVE  LockSafe'
<1>1. HolderGone'
  BY NoOneAssumption DEF LockInv, HolderGone, LauncherTypeOK, Final
<1>2. ASSUME ~misled PROVE \A m \in Launchers : Owns(m)' => m = l
  BY <1>2 DEF LockInv, LockOwned, Owns, Holding, LauncherTypeOK
<1>3. QED
  BY <1>1, <1>2 DEF LockSafe, LockOwned, Exclusive

LEMMA LockStep == LockInv /\ [LauncherNext]_launcherVars => LockSafe'
<1> SUFFICES ASSUME LockInv, [LauncherNext]_launcherVars PROVE LockSafe'
  OBVIOUS
<1>1. CASE UNCHANGED launcherVars
  BY <1>1, LeavesLock DEF launcherVars, Owns, Holding
<1>2. CASE LauncherNext
  <2> PICK l \in Launchers :
        \/ Startup(l) \/ Shutdown(l)
        \/ Stop(l) \/ Crash(l)
        \/ \E i \in Numbers : ServiceExits(l, i)
    BY <1>2 DEF LauncherNext
  <2> USE DEF Goto
  <2>1. CASE TakeLock(l)
    <3>1. CASE locked
      <4>1. pc' = [pc EXCEPT ![l] = "occupied"] /\ UNCHANGED <<lock, old, down>> /\ pc[l] = "new"
        BY <2>1, <3>1 DEF TakeLock
      <4>2. QED
        BY <4>1, LeavesLock DEF LockInv, LauncherTypeOK, Owns, Holding, Over, Final
    <3>2. CASE ~locked
      BY <2>1, <3>2, TakesFreeLock DEF TakeLock
    <3>3. QED
      BY <3>1, <3>2
  <2>2. CASE ReadState(l)
    <3>1. /\ pc[l] = "occupied" /\ UNCHANGED <<lock, down>>
          /\ \/ pc' = [pc EXCEPT ![l] = "refused"]
             \/ /\ pc' = [pc EXCEPT ![l] = "check"]
                /\ old' = [old EXCEPT ![l] = state] /\ state # NoOne
      BY <2>2 DEF ReadState
    <3>2. \A m \in Launchers \ {l} : old'[m] = old[m]
      BY <2>2 DEF ReadState, LockInv, LauncherTypeOK
    <3>3. HolderGone'
      BY <3>1, <3>2, NoOneAssumption DEF LockInv, LauncherTypeOK, HolderGone, Final
    <3>4. \A m \in Launchers : Owns(m)' => Owns(m)
      BY <3>1 DEF LockInv, LauncherTypeOK, Owns, Holding, Over
    <3>5. QED
      BY <3>1, <3>3, <3>4 DEF LockSafe, LockInv, LockOwned, Exclusive
  <2>3. CASE CheckHolder(l)
    <3>1. /\ pc[l] = "check" /\ UNCHANGED <<lock, down, old>>
          /\ \/ pc' = [pc EXCEPT ![l] = "refused"]
             \/ pc' = [pc EXCEPT ![l] = "remove"] /\ pc[old[l]] \in Over
      BY <2>3 DEF CheckHolder, Process
    <3>2. old[l] \in Launchers /\ pc[old[l]] # "new"
      BY <3>1 DEF LockInv, HolderGone
    <3>3. HolderGone'
      BY <3>1, <3>2 DEF LockInv, LauncherTypeOK, HolderGone, Final, Over
    <3>4. \A m \in Launchers : Owns(m)' => Owns(m)
      BY <3>1 DEF LockInv, LauncherTypeOK, Owns, Holding, Over
    <3>5. QED
      BY <3>1, <3>3, <3>4 DEF LockSafe, LockInv, LockOwned, Exclusive
  <2>4. CASE RemoveStale(l)
    <3>1. /\ pc[l] = "remove" /\ pc' = [pc EXCEPT ![l] = "retake"] /\ UNCHANGED <<down, old>>
          /\ state' = NoOne /\ misled' = (misled \/ (locked /\ state # old[l]))
      BY <2>4 DEF RemoveStale
    <3>2. old[l] \in Launchers /\ pc[old[l]] \in Final
      BY <3>1 DEF LockInv, HolderGone
    <3>3. HolderGone'
      BY <3>1, <3>2, NoOneAssumption DEF LockInv, LauncherTypeOK, HolderGone, Final
    <3>4. ASSUME ~misled', NEW m \in Launchers, Owns(m) PROVE FALSE
      <4>1. locked /\ state \in {NoOne, m} /\ state = old[l]
        BY <3>1, <3>4 DEF LockInv, LockOwned
      <4>2. m = old[l]
        BY <3>2, <4>1, NoOneAssumption
      <4>3. QED
        BY <3>2, <3>4, <4>2 DEF Owns, Holding, Final, Over
    <3>5. \A m \in Launchers : Owns(m)' => Owns(m)
      BY <3>1 DEF LockInv, LauncherTypeOK, Owns, Holding, Over
    <3>6. QED
      BY <3>3, <3>4, <3>5 DEF LockSafe, LockOwned, Exclusive
  <2>5. CASE Retake(l)
    <3>1. CASE locked
      <4>1. pc' = [pc EXCEPT ![l] = "refused"] /\ UNCHANGED <<lock, old, down>> /\ pc[l] = "retake"
        BY <2>5, <3>1 DEF Retake
      <4>2. QED
        BY <4>1, LeavesLock DEF LockInv, LauncherTypeOK, Owns, Holding, Over, Final
    <3>2. CASE ~locked
      BY <2>5, <3>2, TakesFreeLock DEF Retake
    <3>3. QED
      BY <3>1, <3>2
  <2>6. CASE OpenServer(l)
    <3>1. pc' = [pc EXCEPT ![l] = "prepare"] /\ UNCHANGED <<lock, old, down>> /\ pc[l] = "logs"
      BY <2>6 DEF OpenServer
    <3>2. QED
      BY <3>1, LeavesLock DEF LockInv, LauncherTypeOK, Owns, Holding, Over, Final
  <2>7. CASE WriteState(l)
    <3>1. CASE Throw(l, "prepare")
      BY <3>1, ThrowLeavesLock DEF Over
    <3>2. CASE ~Throw(l, "prepare")
      <4>1. /\ pc[l] = "prepare" /\ pc' = [pc EXCEPT ![l] = "ports"] /\ UNCHANGED <<locked, down, old>>
            /\ locked /\ state' = l /\ misled' = (misled \/ down[l] = "done")
        BY <2>7, <3>2 DEF WriteState
      <4>2. HolderGone'
        BY <4>1 DEF LockInv, LauncherTypeOK, HolderGone, Final
      <4>3. ASSUME ~misled', NEW m \in Launchers, Owns(m)' PROVE m = l /\ Owns(l)
        <5>1. Owns(m) /\ Owns(l) /\ ~misled
          BY <4>1, <4>3 DEF Owns, Holding, LockInv, LauncherTypeOK, Over
        <5>2. QED
          BY <5>1 DEF LockInv, Exclusive
      <4>4. QED
        BY <4>1, <4>2, <4>3 DEF LockSafe, LockOwned, Exclusive
    <3>3. QED
      BY <3>1, <3>2
  <2>8. CASE CheckPorts(l)
    <3>1. CASE Throw(l, "ports")
      BY <3>1, ThrowLeavesLock DEF Over
    <3>2. CASE ~Throw(l, "ports")
      <4>1. pc' = [pc EXCEPT ![l] = "status"] /\ UNCHANGED <<lock, old, down>> /\ pc[l] = "ports"
        BY <2>8, <3>2 DEF CheckPorts
      <4>2. QED
        BY <4>1, LeavesLock DEF LockInv, LauncherTypeOK, Owns, Holding, Over, Final
    <3>3. QED
      BY <3>1, <3>2
  <2>9. CASE ContainerStatus(l)
    <3>1. CASE Throw(l, "status")
      BY <3>1, ThrowLeavesLock DEF Over
    <3>2. CASE ~Throw(l, "status")
      <4>1. pc' = [pc EXCEPT ![l] = "up"] /\ UNCHANGED <<lock, old, down>> /\ pc[l] = "status"
        BY <2>9, <3>2 DEF ContainerStatus
      <4>2. QED
        BY <4>1, LeavesLock DEF LockInv, LauncherTypeOK, Owns, Holding, Over, Final
    <3>3. QED
      BY <3>1, <3>2
  <2>10. CASE StartContainers(l)
    <3>1. CASE Throw(l, "up")
      BY <3>1, ThrowLeavesLock DEF Over
    <3>2. CASE ~Throw(l, "up")
      <4>1. pc' = [pc EXCEPT ![l] = "launch"] /\ UNCHANGED <<lock, old, down>> /\ pc[l] = "up"
        BY <2>10, <3>2 DEF StartContainers
      <4>2. QED
        BY <4>1, LeavesLock DEF LockInv, LauncherTypeOK, Owns, Holding, Over, Final
    <3>3. QED
      BY <3>1, <3>2
  <2>11. CASE StartupFails(l)
    BY <2>11, ThrowLeavesLock DEF StartupFails, Over
  <2>12. CASE LaunchService(l)
    <3>1. CASE Throw(l, "launch")
      BY <3>1, ThrowLeavesLock DEF Over
    <3>2. CASE ~Throw(l, "launch")
      <4>1. pc' = [pc EXCEPT ![l] = "launch"] /\ UNCHANGED <<lock, old, down>> /\ pc[l] = "launch"
        BY <2>12, <3>2 DEF LaunchService
      <4>2. QED
        BY <4>1, LeavesLock DEF LockInv, LauncherTypeOK, Owns, Holding, Over, Final
    <3>3. QED
      BY <3>1, <3>2
  <2>13. CASE Ready(l)
    <3>1. /\ pc[l] = "launch" /\ UNCHANGED <<lock, old, down>>
          /\ pc' = [pc EXCEPT ![l] = "ready"] \/ pc' = [pc EXCEPT ![l] = "caught"]
      BY <2>13 DEF Ready
    <3>2. QED
      BY <3>1, LeavesLock DEF LockInv, LauncherTypeOK, Owns, Holding, Over, Final
  <2>14. CASE KillChildren(l) \/ StopContainers(l)
    <3>1. /\ UNCHANGED <<lock, old, pc>> /\ down[l] \in {"kill", "infra"}
          /\ \E d : down' = [down EXCEPT ![l] = d]
      BY <2>14 DEF KillChildren, StopContainers, Shut
    <3>2. \A m \in Launchers : Owns(m)' => Owns(m)
      BY <3>1 DEF LockInv, LauncherTypeOK, Owns, Holding
    <3>3. QED
      BY <3>1, <3>2, LeavesLock
  <2>15. CASE Unlock(l)
    <3>1. /\ UNCHANGED <<misled, old, pc>> /\ state' = NoOne /\ Owns(l)
          /\ down' = [down EXCEPT ![l] = "done"]
      BY <2>15 DEF Unlock, Shut, Owns
    <3>2. HolderGone'
      BY <3>1, NoOneAssumption DEF LockInv, HolderGone
    <3>3. ASSUME ~misled, NEW m \in Launchers PROVE ~Owns(m)'
      BY <3>1, <3>3 DEF LockInv, LauncherTypeOK, Exclusive, Owns, Holding
    <3>4. QED
      BY <3>1, <3>2, <3>3 DEF LockSafe, LockOwned, Exclusive
  <2>16. CASE End(l)
    <3>1. /\ pc[l] \in {"ready", "caught"} /\ pc' = [pc EXCEPT ![l] = "ended"] /\ UNCHANGED <<lock, old, down>>
      BY <2>16 DEF End
    <3>2. QED
      BY <3>1, LeavesLock DEF LockInv, LauncherTypeOK, Owns, Holding, Over, Final
  <2>17. CASE Stop(l)
    <3>1. /\ UNCHANGED <<lock, old, pc>> /\ down' = [down EXCEPT ![l] = "kill"] /\ down[l] = "no"
      BY <2>17 DEF Stop, ShutDown
    <3>2. QED
      BY <3>1, LeavesLock DEF LockInv, LauncherTypeOK, Owns, Holding
  <2>18. CASE Crash(l)
    <3>1. pc[l] \notin Over /\ pc' = [pc EXCEPT ![l] = "crashed"] /\ UNCHANGED <<lock, old, down>>
      BY <2>18 DEF Crash, Process
    <3>2. QED
      BY <3>1, LeavesLock DEF LockInv, LauncherTypeOK, Owns, Holding, Over, Final
  <2>19. CASE \E i \in Numbers : ServiceExits(l, i)
    <3>1. /\ UNCHANGED <<lock, old, pc>>
          /\ \/ down' = down
             \/ down' = [down EXCEPT ![l] = "kill"] /\ down[l] = "no"
      BY <2>19 DEF ServiceExits, ShutDown
    <3>2. QED
      BY <3>1, LeavesLock DEF LockInv, LauncherTypeOK, Owns, Holding
  <2>20. CASE LaunchFails(l)
    <3>1. /\ pc[l] \in {"new", "occupied", "remove", "retake"}
          /\ pc' = [pc EXCEPT ![l] = "refused"] /\ UNCHANGED <<lock, old, down>>
      BY <2>20 DEF LaunchFails
    <3>2. QED
      BY <3>1, LeavesLock DEF LockInv, LauncherTypeOK, Owns, Holding, Over, Final
  <2>21. CASE ListenFails(l)
    <3>1. /\ pc[l] = "prepare" /\ pc' = [pc EXCEPT ![l] = "caught"] /\ UNCHANGED <<lock, old>>
          /\ down' = [down EXCEPT ![l] = IF down[l] = "no" THEN "kill" ELSE down[l]]
      BY <2>21 DEF ListenFails
    <3>2. \A m \in Launchers : Owns(m)' => Owns(m)
      BY <3>1 DEF Owns, Holding, LockInv, LauncherTypeOK, Over
    <3>3. QED
      BY <3>1, <3>2, LeavesLock DEF LockInv, LauncherTypeOK, Final, Over
  <2>22. QED
    BY <2>1, <2>2, <2>3, <2>4, <2>5, <2>6, <2>7, <2>8, <2>9, <2>10, <2>11, <2>12,
       <2>13, <2>14, <2>15, <2>16, <2>17, <2>18, <2>19, <2>20, <2>21 DEF Startup, Shutdown
<1>3. QED
  BY <1>1, <1>2

\* Two sessions never start services at the same time, for any number of
\* launchers and crashes, unless one mistook the lock of another.
THEOREM LauncherOneSession == LauncherSpec => []OneSession
<1>1. LauncherInit => LockInv
  <2>1. LauncherInit => HolderGone /\ LockOwned /\ Exclusive
    BY NoOneAssumption DEF LauncherInit, HolderGone, LockOwned, Exclusive, Owns, Holding, Over
  <2>2. QED
    BY <2>1, TypeInit DEF LockInv
<1>2. LockInv /\ [LauncherNext]_launcherVars => LockInv'
  BY TypeStep, LockStep DEF LockInv, LockSafe
<1>3. LockInv => OneSession
  BY DEF LockInv, Exclusive, Owns, OneSession
<1>4. QED
  BY <1>1, <1>2, <1>3, PTL DEF LauncherSpec

-----------------------------------------------------------------------------
(* What a session leaves behind.                                           *)

\* A service is launched while its session is not stopping only, and a session
\* that frees its lock has killed those that ran.
LEMMA EmptiedStep == LauncherTypeOK /\ Emptied /\ [LauncherNext]_launcherVars => Emptied'
<1> SUFFICES ASSUME LauncherTypeOK, Emptied, [LauncherNext]_launcherVars PROVE Emptied'
  OBVIOUS
<1>1. CASE UNCHANGED launcherVars
  BY <1>1 DEF Emptied, launcherVars
<1>2. CASE LauncherNext
  <2> PICK l \in Launchers :
        \/ Startup(l) \/ Shutdown(l)
        \/ Stop(l) \/ Crash(l)
        \/ \E i \in Numbers : ServiceExits(l, i)
    BY <1>2 DEF LauncherNext
  <2> USE DEF Emptied, LauncherTypeOK
  <2>1. ASSUME NEW from, Throw(l, from), from # "ended" PROVE Emptied'
    BY <2>1 DEF Throw, ShutDown, Goto
  <2>2. CASE TakeLock(l)
    BY <2>2 DEF TakeLock, Goto
  <2>3. CASE ReadState(l)
    BY <2>3 DEF ReadState, Goto
  <2>4. CASE CheckHolder(l)
    BY <2>4 DEF CheckHolder, Goto
  <2>5. CASE RemoveStale(l)
    BY <2>5 DEF RemoveStale, Goto
  <2>6. CASE Retake(l)
    BY <2>6 DEF Retake, Goto
  <2>7. CASE OpenServer(l)
    BY <2>7 DEF OpenServer, Goto
  <2>8. CASE WriteState(l)
    BY <2>8, <2>1 DEF WriteState, Goto
  <2>9. CASE CheckPorts(l)
    BY <2>9, <2>1 DEF CheckPorts, Goto
  <2>10. CASE ContainerStatus(l)
    <3>1. CASE Throw(l, "status")
      BY <3>1, <2>1
    <3>2. CASE pc' = [pc EXCEPT ![l] = "up"] /\ UNCHANGED <<down, alive>>
      BY <3>2
    <3>3. QED
      BY <2>10, <3>1, <3>2 DEF ContainerStatus, Goto
  <2>11. CASE StartContainers(l)
    BY <2>11, <2>1 DEF StartContainers, Goto
  <2>12. CASE StartupFails(l)
    BY <2>12, <2>1 DEF StartupFails
  <2>13. CASE LaunchService(l)
    <3>1. CASE Throw(l, "launch")
      BY <3>1, <2>1
    <3>2. CASE /\ pc' = [pc EXCEPT ![l] = "launch"] /\ down' = down /\ down[l] = "no"
               /\ alive' = [alive EXCEPT ![l] = alive[l] \cup {launched[l] + 1}]
      BY <3>2
    <3>3. QED
      BY <2>13, <3>1, <3>2 DEF LaunchService, Goto
  <2>14. CASE Ready(l)
    BY <2>14 DEF Ready, Goto
  <2>15. CASE KillChildren(l)
    BY <2>15 DEF KillChildren, Shut, Holding, Over
  <2>16. CASE StopContainers(l)
    BY <2>16 DEF StopContainers, Shut, Holding, Over
  <2>17. CASE Unlock(l)
    BY <2>17 DEF Unlock, Shut, Holding, Over
  <2>18. CASE End(l)
    BY <2>18 DEF End
  <2>19. CASE Stop(l)
    BY <2>19 DEF Stop, ShutDown, Holding, Over
  <2>20. CASE Crash(l)
    BY <2>20 DEF Crash
  <2>21. CASE \E i \in Numbers : ServiceExits(l, i)
    <3> PICK i \in Numbers : ServiceExits(l, i)
      BY <2>21
    <3>1. /\ pc' = pc /\ (\A m \in Launchers : alive[m] = {} => alive'[m] = {})
          /\ \/ down' = down
             \/ down' = [down EXCEPT ![l] = "kill"] /\ pc[l] # "ended"
      BY DEF ServiceExits, ShutDown, Holding, Over
    <3>2. QED
      BY <3>1
  <2>22. CASE LaunchFails(l)
    BY <2>22 DEF LaunchFails, Goto
  <2>23. CASE ListenFails(l)
    BY <2>23 DEF ListenFails, Goto
  <2>24. QED
    BY <2>2, <2>3, <2>4, <2>5, <2>6, <2>7, <2>8, <2>9, <2>10, <2>11, <2>12, <2>13,
       <2>14, <2>15, <2>16, <2>17, <2>18, <2>19, <2>20, <2>21, <2>22, <2>23 DEF Startup, Shutdown
<1>3. QED
  BY <1>1, <1>2

\* Whatever point of its startup a stop, a failed command or the exit of a service
\* meets, a session that ends leaves none of its services running.
THEOREM LauncherNothingLeftBehind == LauncherSpec => []NothingLeftBehind
<1>1. LauncherInit => LauncherTypeOK /\ Emptied
  BY TypeInit DEF LauncherInit, Emptied
<1>2. LauncherTypeOK /\ Emptied /\ [LauncherNext]_launcherVars => (LauncherTypeOK /\ Emptied)'
  BY TypeStep, EmptiedStep
<1>3. Emptied => NothingLeftBehind
  BY DEF Emptied, NothingLeftBehind
<1>4. QED
  BY <1>1, <1>2, <1>3, PTL DEF LauncherSpec
=============================================================================
