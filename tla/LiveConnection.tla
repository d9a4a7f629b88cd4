---------------------------- MODULE LiveConnection ----------------------------
(***************************************************************************)
(* What the dashboard sees of a live session: the connection to the broker *)
(* (live-session/client.ts), the projector that numbers what is sent, the  *)
(* lease of the browser in control (lease.ts), and the handlers of         *)
(* index.ts that use them.                                                 *)
(*                                                                         *)
(* The broker is the environment.  What it does with a message is taken    *)
(* from the comments of index.ts: it ignores a snapshot whose revision is  *)
(* not newer (270) and an event whose sequence does not follow (245-250),  *)
(* and rebuilds its panels from a snapshot (541-550).                      *)
(*                                                                         *)
(* No name here is one of LiveInputs or GoalSession: the proofs extend all *)
(* three.                                                                  *)
(***************************************************************************)
EXTENDS Naturals, Sequences

CONSTANTS
  MaxBridged,   \* bound: sessions one after the other
  MaxRevision,  \* bound: revision up to which the bridge publishes
  MaxQueue,     \* bound: frames that wait for a full socket
  MaxPanels,    \* bound: states of a feature panel
  MaxDrops      \* bound: failures of a connection

ASSUME LiveConnectionAssumption ==
  /\ {MaxBridged, MaxRevision, MaxQueue, MaxPanels, MaxDrops} \subseteq Nat
  /\ MaxBridged > 0

VARIABLES
  bridged, up,          \* the session, and whether it has a client
  connecting, socket, ready, retry,   \* fields of the client; retry: reconnectTimer
  blocked, critical, update,          \* its backpressure: pendingCritical, pendingUpdates
  revision, sequence,   \* of the projector
  panel, parked,        \* the feature panel, and whether it waits to be published
  lease, grace,         \* whether a lease is held; disconnectTimer
  drops,                \* failures so far
  ghost,                \* what a stopped client of each session may still be sent
  mirror,               \* what the broker holds for this connection
  ignored, squeezed, forked,  \* of this connection: an event was ignored; an update
                              \* waited; the session was forked
  ghosted               \* a ghost stopped the timer, or made a lease without one, since
                        \* this client was last connected

clientVars == <<connecting, socket, ready, retry, blocked, critical, update>>
leaseVars == <<lease, grace>>
sentVars == <<critical, update, mirror, ignored, squeezed>>
cvars == <<bridged, up, connecting, socket, ready, retry, blocked, critical,
          update, revision, sequence, panel, parked, lease, grace,
          drops, ghost, mirror, ignored, squeezed, forked, ghosted>>

Sockets == {"none", "live", "destroyed"}
Frame == [kind : {"snapshot", "event", "claim", "panel", "update"}, session : 1..MaxBridged,
          rev : Nat, seq : Nat, panel : 0..MaxPanels, lease : BOOLEAN]
NoFrame == {}

\* A broker that has seen nothing of this connection.
Blank == [rev |-> 0, seq |-> 0, session |-> 0, panel |-> 0, lease |-> FALSE]

\* A stopped client whose socket was live: in its handshake, or welcomed.
Ghosts == {"none", "handshake", "welcomed"}

CTypeOK ==
  /\ bridged \in 0..MaxBridged /\ socket \in Sockets
  /\ {up, connecting, ready, retry, blocked, parked, lease, grace, ignored,
      squeezed, forked, ghosted} \subseteq BOOLEAN
  /\ ghost \in [1..MaxBridged -> Ghosts]
  /\ critical \in Seq(Frame) /\ update \subseteq Frame
  /\ revision \in Nat /\ sequence \in Nat
  /\ panel \in 0..MaxPanels

CInit ==
  /\ bridged = 0 /\ up = FALSE
  /\ connecting = FALSE /\ socket = "none" /\ ready = FALSE /\ retry = FALSE
  /\ blocked = FALSE /\ critical = <<>> /\ update = NoFrame
  /\ revision = 1 /\ sequence = 0
  /\ panel = 0 /\ parked = FALSE
  /\ lease = FALSE /\ grace = FALSE /\ drops = 0
  /\ ghost = [s \in 1..MaxBridged |-> "none"] /\ mirror = Blank
  /\ ignored = FALSE /\ squeezed = FALSE /\ forked = FALSE /\ ghosted = FALSE

-----------------------------------------------------------------------------
(* The broker (external).                                                  *)

Fits(m, f) ==
  IF f.kind = "snapshot" THEN f.rev > m.rev ELSE m.rev # 0 /\ f.seq = m.seq + 1

Receives(m, f) ==
  IF ~Fits(m, f) THEN m
  ELSE CASE f.kind = "snapshot" -> [rev |-> f.rev, seq |-> f.seq, session |-> f.session,
                                    panel |-> 0, lease |-> f.lease]
         [] f.kind = "panel"    -> [m EXCEPT !.seq = f.seq, !.panel = f.panel]
         [] f.kind = "claim"    -> [m EXCEPT !.seq = f.seq, !.lease = f.lease]
         [] OTHER               -> [m EXCEPT !.seq = f.seq]

\* An event that the broker ignores although it does not yet have it.  Not so
\* the news of the lease ahead of the first snapshot, which carries it again.
Misses(m, f) ==
  /\ ~Fits(m, f) /\ f.kind # "snapshot"
  /\ IF m.rev = 0 THEN f.kind # "claim" ELSE f.seq > m.seq

\* What a broker that holds m holds after each of the frames.
After(m, frames) ==
  LET after[k \in 0..Len(frames)] == IF k = 0 THEN m ELSE Receives(after[k - 1], frames[k])
  IN after

ReceivesAll(m, frames) == After(m, frames)[Len(frames)]

MissesSome(m, frames) == \E k \in 1..Len(frames) : Misses(After(m, frames)[k - 1], frames[k])

-----------------------------------------------------------------------------
(* Sending: sendMessage, enqueue, flushPending.                            *)

Write(frames) ==
  /\ mirror' = ReceivesAll(mirror, frames)
  /\ ignored' = (ignored \/ MissesSome(mirror, frames))

\* Frames other than updates: written, kept in order, or lost with the socket.
Send(frames) ==
  IF blocked
  THEN critical' = critical \o frames /\ UNCHANGED <<mirror, ignored>>
  ELSE /\ IF socket = "live" THEN Write(frames) ELSE UNCHANGED <<mirror, ignored>>
       /\ UNCHANGED critical

Sends(frames) == Send(frames) /\ UNCHANGED <<update, squeezed>>

\* An update takes the place of the one that waits; from here on the order of
\* the numbers on the wire is not that of the events.
SendsUpdate(f) ==
  IF blocked
  THEN /\ update' = {f} /\ squeezed' = TRUE
       /\ UNCHANGED <<critical, mirror, ignored>>
  ELSE /\ Send(<<f>>)
       /\ UNCHANGED <<update, squeezed>>

EventOf(kind, seq) ==
  [kind |-> kind, session |-> bridged, rev |-> 0, seq |-> seq,
   panel |-> IF kind = "panel" THEN panel ELSE 0, lease |-> FALSE]

\* claim_changed
ClaimEvent(seq, held) == [EventOf("claim", seq) EXCEPT !.lease = held]

SnapshotOf(s, rev, seq, held) ==
  [kind |-> "snapshot", session |-> s, rev |-> rev, seq |-> seq, panel |-> 0, lease |-> held]

\* republishLiveFeatures: a snapshot is followed by the panels it lacks.
Republished(seq) == IF panel = 0 THEN <<>> ELSE <<EventOf("panel", seq + 1)>>

\* flushFeatureSnapshots: what was parked.
Flushed(seq) == IF parked THEN <<EventOf("panel", seq + 1)>> ELSE <<>>

\* The summary of a snapshot looks at the lease, and announces one that it finds
\* expired: the event goes ahead of the snapshot.
Lapsed(expired) == IF expired THEN <<ClaimEvent(sequence + 1, FALSE)>> ELSE <<>>

\* A snapshot and its afterSnapshot.
SnapshotAndPanels(rev, seq, held) ==
  <<SnapshotOf(bridged, rev, seq, held)>> \o Republished(seq)

\* sendSnapshot at revision rev.
SnapshotFrames(rev, expired) ==
  LET lapsed == Lapsed(expired)
  IN lapsed \o SnapshotAndPanels(rev + 2 * Len(lapsed), sequence + Len(lapsed),
                                lease /\ ~expired)

\* The socket takes no more for now: write returned false.
SocketFills ==
  /\ ready /\ socket = "live" /\ ~blocked
  /\ blocked' = TRUE
  /\ UNCHANGED <<bridged, up, connecting, socket, ready, retry, critical, update,
                 revision, sequence, panel, parked, leaseVars, drops, ghost,
                 mirror, ignored, squeezed, forked, ghosted>>

\* "drain": what must not be lost first, then the latest update; the socket may
\* fill again after any of them.
SocketDrains ==
  /\ blocked /\ socket = "live"
  /\ LET all == critical \o (IF update = NoFrame THEN <<>> ELSE <<CHOOSE f \in update : TRUE>>)
     IN \E n \in 0..Len(all) :
          /\ n = 0 => all = <<>>
          /\ Write(SubSeq(all, 1, n))
          /\ critical' = SubSeq(critical, n + 1, Len(critical))
          /\ update' = IF n = Len(all) THEN NoFrame ELSE update
          /\ blocked' = (n < Len(all))
  /\ UNCHANGED <<bridged, up, connecting, socket, ready, retry, revision, sequence,
                 panel, parked, leaseVars, drops, ghost, squeezed, forked, ghosted>>

\* The connection is over: the broker drops what it held of it.
Forgotten ==
  mirror' = Blank /\ ignored' = FALSE /\ squeezed' = FALSE /\ forked' = FALSE

-----------------------------------------------------------------------------
(* The connection: connect, handleLine, handleClose, scheduleReconnect.     *)

MayDrop == drops < MaxDrops

\* Faulty variant: only a connection that was ready is made again.
SchedulesRetryReady == retry' = (retry \/ (up /\ ready))

\* scheduleReconnect
SchedulesRetry == retry' = (retry \/ up)

RetryTimer ==
  /\ retry
  /\ retry' = FALSE
  /\ connecting' = (connecting \/ (up /\ socket = "none"))
  /\ UNCHANGED <<bridged, up, socket, ready, blocked, sentVars, revision, sequence,
                 panel, parked, leaseVars, drops, ghost, forked, ghosted>>

\* The token is read and the socket made; connecting is reset in either case.
Dials ==
  /\ connecting
  /\ connecting' = FALSE /\ socket' = "live"
  /\ UNCHANGED <<bridged, up, ready, retry, blocked, sentVars, revision, sequence,
                 panel, parked, leaseVars, drops, ghost, forked, ghosted>>

TokenUnreadable ==
  /\ connecting /\ MayDrop
  /\ connecting' = FALSE /\ SchedulesRetry
  /\ drops' = drops + 1
  /\ UNCHANGED <<bridged, up, socket, ready, blocked, sentVars, revision, sequence,
                 panel, parked, leaseVars, ghost, forked, ghosted>>

\* Faulty variant: the features are flushed at once, before the snapshot.
WelcomeFramesEager(expired) ==
  LET flushed == Flushed(sequence)
  IN flushed \o SnapshotAndPanels(revision + 1, sequence + Len(flushed), lease /\ ~expired)

\* onConnected, the snapshot, its panels, and the microtask that flushes.
WelcomeFrames(expired) ==
  LET first == SnapshotFrames(revision + 1, expired)
  IN first \o Flushed(sequence + Len(first) - 1)

\* Faulty variant: the timer of the lost connection goes on.
BackInTimeLate == UNCHANGED grace

\* markBrokerConnected
BackInTime == grace' = FALSE

Welcome ==
  /\ socket = "live" /\ ~ready
  /\ ready' = TRUE
  /\ BackInTime
  /\ \E expired \in {FALSE, lease} :
       LET frames == WelcomeFrames(expired)
       IN /\ lease' = (lease /\ ~expired)
          /\ sequence' = sequence + Len(frames) - 1
          /\ revision' = revision + Len(frames) + Len(Lapsed(expired))
          /\ Sends(frames)
  /\ parked' = FALSE /\ ghosted' = FALSE
  /\ UNCHANGED <<bridged, up, connecting, socket, retry, blocked, panel, drops,
                 ghost, forked>>

\* The client gives the connection up: overflow, a bad line, a refused hello.
\* "close" comes later.
Destroys ==
  /\ socket = "live" /\ MayDrop
  /\ socket' = "destroyed" /\ drops' = drops + 1
  /\ critical' = <<>> /\ update' = NoFrame
  /\ UNCHANGED <<bridged, up, connecting, ready, retry, blocked, revision, sequence,
                 panel, parked, leaseVars, ghost, mirror, ignored, squeezed,
                 forked, ghosted>>

\* handleClose of the present socket, whoever closed it.
Closed ==
  /\ socket = "destroyed" \/ (socket = "live" /\ MayDrop)
  /\ socket' = "none" /\ ready' = FALSE /\ blocked' = FALSE
  /\ critical' = <<>> /\ update' = NoFrame
  /\ SchedulesRetry
  /\ drops' = IF socket = "live" THEN drops + 1 ELSE drops
  /\ revision' = IF ready THEN revision + 1 ELSE revision
  /\ grace' = (grace \/ (ready /\ lease))
  /\ Forgotten
  /\ UNCHANGED <<bridged, up, connecting, sequence, panel, parked, lease, ghost,
                 ghosted>>

\* A stopped client still reads its socket (160): one that was in its handshake
\* is welcomed all the same, and its onConnected acts on what the present session
\* uses.
GhostWelcomed ==
  /\ \E s \in 1..MaxBridged :
       /\ ghost[s] = "handshake"
       /\ ghost' = [ghost EXCEPT ![s] = "welcomed"]
  /\ ghosted' = (ghosted \/ grace)
  /\ grace' = FALSE
  /\ revision' = IF up THEN revision + 1 ELSE revision
  /\ UNCHANGED <<bridged, up, clientVars, sequence, panel, parked, lease,
                 drops, mirror, ignored, squeezed, forked>>

-----------------------------------------------------------------------------
(* What the bridge sends.                                                  *)

CanPublish == up /\ ready /\ revision < MaxRevision /\ Len(critical) < MaxQueue

\* publish: an event of the session.
Publish ==
  /\ CanPublish
  /\ sequence' = sequence + 1 /\ revision' = revision + 1
  /\ \/ Sends(<<EventOf("event", sequence + 1)>>)
     \/ SendsUpdate(EventOf("update", sequence + 1))
  /\ UNCHANGED <<bridged, up, connecting, socket, ready, retry, blocked, panel,
                 parked, leaseVars, drops, ghost, forked, ghosted>>

\* A feature publishes its panel; queueFeatureSnapshot keeps it for the timer.
PanelChanges ==
  /\ up /\ panel < MaxPanels
  /\ panel' = panel + 1 /\ parked' = TRUE
  /\ UNCHANGED <<bridged, up, clientVars, revision, sequence, leaseVars, drops,
                 ghost, mirror, ignored, squeezed, forked, ghosted>>

\* The timer of flushFeatureSnapshots; without a connection it leaves what is
\* parked for the next one.
FlushFeatures ==
  /\ CanPublish /\ parked
  /\ parked' = FALSE
  /\ sequence' = sequence + 1 /\ revision' = revision + 1
  /\ Sends(Flushed(sequence))
  /\ UNCHANGED <<bridged, up, connecting, socket, ready, retry, blocked, panel,
                 leaseVars, drops, ghost, forked, ghosted>>

\* Faulty variant: a snapshot goes out without the panels.
AfterSnapshotNothing(rev, expired) ==
  Lapsed(expired) \o <<SnapshotOf(bridged, rev + 2 * Len(Lapsed(expired)),
                                 sequence + Len(Lapsed(expired)), lease /\ ~expired)>>

\* What a refresh sends.
AfterSnapshot(rev, expired) == SnapshotFrames(rev, expired)

\* The debounced refresh of the goal and session_tree (marked), or a resync
\* that the dashboard asks for (not marked).
Refresh ==
  /\ CanPublish
  /\ \E marked \in {0, 1}, expired \in {FALSE, lease} :
       LET frames == AfterSnapshot(revision + marked, expired)
       IN /\ lease' = (lease /\ ~expired)
          /\ sequence' = sequence + Len(frames) - 1
          /\ revision' = revision + marked + Len(frames) - 1 + Len(Lapsed(expired))
          /\ Sends(frames)
  /\ UNCHANGED <<bridged, up, connecting, socket, ready, retry, blocked, panel,
                 parked, grace, drops, ghost, forked, ghosted>>

-----------------------------------------------------------------------------
(* The lease.  Its changes are published like any event; without a connection *)
(* the next snapshot tells them.                                           *)

Announce(held) ==
  /\ sequence' = sequence + 1 /\ revision' = revision + 2
  /\ Sends(<<ClaimEvent(sequence + 1, held)>>)

Changes(held) ==
  /\ lease' = held
  /\ IF ready
     THEN CanPublish /\ Announce(held)
     ELSE revision' = revision + 1 /\ UNCHANGED <<sequence, sentVars>>

\* claim, by a command of a browser, or renew by the browser that holds the lease.
Claim ==
  /\ CanPublish /\ socket = "live"
  /\ Changes(TRUE)
  /\ UNCHANGED <<bridged, up, connecting, socket, ready, retry, blocked, panel,
                 parked, grace, drops, ghost, forked, ghosted>>

\* The same command in the pipe of a stopped client: it is carried out on the
\* lease of the present session, whether that is connected or not.
GhostClaims ==
  /\ up /\ revision < MaxRevision
  /\ \E s \in 1..MaxBridged : ghost[s] = "welcomed"
  /\ Changes(TRUE)
  /\ ghosted' = (ghosted \/ (~ready /\ ~grace))
  /\ UNCHANGED <<bridged, up, connecting, socket, ready, retry, blocked, panel,
                 parked, grace, drops, ghost, forked>>

\* release, by the browser, by the user at the terminal, or on expiry.
Release ==
  /\ lease
  /\ Changes(FALSE)
  /\ UNCHANGED <<bridged, up, connecting, socket, ready, retry, blocked, panel,
                 parked, grace, drops, ghost, forked, ghosted>>

\* disconnectTimer: the browser did not come back in time.
GraceEnds ==
  /\ grace
  /\ grace' = FALSE /\ lease' = FALSE
  /\ revision' = IF lease THEN revision + 1 ELSE revision
  /\ UNCHANGED <<bridged, up, clientVars, sequence, panel, parked,
                 drops, ghost, mirror, ignored, squeezed, forked, ghosted>>

-----------------------------------------------------------------------------
(* Sessions.                                                               *)

\* client.stop: the socket says goodbye, and goes on being read until it closes.
StopsClient ==
  /\ socket' = "none" /\ ready' = FALSE /\ retry' = FALSE /\ blocked' = FALSE
  /\ critical' = <<>> /\ update' = NoFrame
  /\ ghost' = IF socket # "live" THEN ghost
              ELSE [ghost EXCEPT ![bridged] = IF ready THEN "welcomed" ELSE "handshake"]
  /\ Forgotten

\* The projector goes with the session: the next one counts from the start.
BridgeShutdown ==
  /\ up
  /\ up' = FALSE /\ connecting' = FALSE
  /\ StopsClient
  /\ lease' = FALSE /\ grace' = FALSE /\ parked' = FALSE
  /\ revision' = 1 /\ sequence' = 0 /\ ghosted' = FALSE
  /\ UNCHANGED <<bridged, panel, drops>>

\* session_start: a new projector and a new client, which begins to connect.
BridgeStart ==
  /\ bridged < MaxBridged
  /\ bridged' = bridged + 1 /\ up' = TRUE
  /\ StopsClient /\ connecting' = TRUE
  /\ lease' = FALSE
  /\ revision' = 1 /\ sequence' = 0
  /\ parked' = (panel # 0) /\ ghosted' = FALSE
  /\ UNCHANGED <<panel, grace, drops>>

\* session_start of a fork on a live connection: the connection stays, the
\* projector is new, and its first snapshot is sent as it is, after the news that
\* the lease is released.
Fork ==
  /\ up /\ ready /\ bridged < MaxBridged
  /\ bridged' = bridged + 1 /\ forked' = TRUE
  /\ lease' = FALSE
  /\ LET released == Lapsed(lease)
         frames == <<SnapshotOf(bridged + 1, 1, 0, FALSE)>> \o Republished(0)
     IN /\ Sends(released \o frames)
        /\ sequence' = Len(frames) - 1 /\ revision' = Len(frames)
  /\ parked' = (panel # 0)
  /\ UNCHANGED <<up, connecting, socket, ready, retry, blocked, panel, grace,
                 drops, ghost, ghosted>>

-----------------------------------------------------------------------------
CNext ==
  \/ SocketFills \/ SocketDrains
  \/ RetryTimer \/ Dials \/ TokenUnreadable \/ Welcome \/ Destroys \/ Closed
  \/ GhostWelcomed
  \/ Publish \/ PanelChanges \/ FlushFeatures \/ Refresh
  \/ Claim \/ GhostClaims \/ Release \/ GraceEnds
  \/ BridgeShutdown \/ BridgeStart \/ Fork

\* Timers fire, reads and sockets answer, and the broker welcomes who dials.
CFairness ==
  /\ WF_cvars(RetryTimer) /\ WF_cvars(Dials) /\ WF_cvars(Welcome)
  /\ WF_cvars(socket = "destroyed" /\ Closed)
  /\ WF_cvars(SocketDrains) /\ WF_cvars(FlushFeatures)

CSpec == CInit /\ [][CNext]_cvars /\ CFairness

-----------------------------------------------------------------------------
(* Properties.                                                             *)

\* The dashboard misses an event only if an update was squeezed in a full
\* socket or a session was forked: everywhere else what is sent on a connection
\* begins with a snapshot and follows it without a gap (index.ts:1104-1112).  Ahead
\* of the first snapshot there is at most the news that the lease expired (598),
\* which the dashboard ignores and the snapshot carries again.
NoGaps == ignored => squeezed \/ forked

Quiet == ready /\ socket = "live" /\ ~blocked /\ ~parked

\* At rest the dashboard shows the session, the panel and the lease as they are,
\* also after a snapshot, which empties its panels (republishLiveFeatures,
\* index.ts:552), and after a lease that was made or lost without a connection.
MirrorTrue ==
  Quiet /\ ~squeezed /\ ~forked =>
    mirror.session = bridged /\ mirror.panel = panel /\ mirror.lease = lease

\* The timer that takes a lease away never runs once the broker is back, and
\* while the broker is gone it runs whenever a lease is held (lease.ts:121-135),
\* unless a line in the pipe of a stopped client stopped it or made the lease.
GraceMatchesConnection ==
  /\ grace => ~ready
  /\ lease /\ ~ready => grace \/ ghosted

\* A client that lost its connection, or has none yet, is connected again, once
\* the broker stays up.
Reconnects == up /\ ~ready ~> ready \/ ~up
=============================================================================
