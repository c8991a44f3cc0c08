-------------------------------- MODULE Peers --------------------------------
(***************************************************************************)
(* The connection between two hosts: the Peer object that each of them has *)
(* for the other (p2p/peer.go) and the dialling and accepting of streams   *)
(* in p2p/host.go.  Both ends may dial, and streams may break.             *)
(***************************************************************************)
EXTENDS Naturals, FiniteSets

CONSTANTS
  Streams,     \* streams that may exist at a time
  NoStream,    \* no stream yet
  MaxTimers,   \* bound: more pending reconnects of a host are not told apart
  MaxFailures  \* bound: streams that break and dials that fail

ASSUME StreamAssumption ==
  /\ NoStream \notin Streams
  /\ MaxTimers \in Nat \ {0} /\ MaxFailures \in Nat

Host == {0, 1}
Other(h) == 1 - h

VARIABLES
  status,    \* Peer.status, on each host
  rwc,       \* Peer.rwc; the listener of a connected peer reads it
  timers,    \* calls of connectPeer to come (AddPeer, reconnectAfterInterval)
  waiting,   \* streams that the other host opened and handleStream has not seen
  closed,    \* streams that one end closed, or that broke
  failures   \* how many failed

vars == <<status, rwc, timers, waiting, closed, failures>>

\* A stream that nobody refers to any more.
Free == Streams \ ({rwc[h] : h \in Host} \union UNION {waiting[h] : h \in Host})

\* Peer.onConnected.
onConnected(h, s) ==
  /\ status' = [status EXCEPT ![h] = "connected"]
  /\ rwc' = [rwc EXCEPT ![h] = s]

\* Mutant: the peer is not dialled again.
disconnectForGood(h) ==
  /\ status' = [status EXCEPT ![h] = "disconnected"]
  /\ closed' = closed \union ({rwc[h]} \ {NoStream})
  /\ UNCHANGED <<rwc, timers>>

\* Peer.disconnect, with reconnectAfterInterval.
disconnect(h) ==
  /\ status' = [status EXCEPT ![h] = "disconnected"]
  /\ closed' = closed \union ({rwc[h]} \ {NoStream})
  /\ timers' = [timers EXCEPT ![h] = IF @ < MaxTimers THEN @ + 1 ELSE @]
  /\ UNCHANGED rwc

-----------------------------------------------------------------------------
\* Host.connectPeer starts: Peer.setConnecting.
ConnectPeer(h) ==
  /\ timers[h] > 0
  /\ timers' = [timers EXCEPT ![h] = @ - 1]
  /\ status' = IF status[h] = "disconnected" THEN [status EXCEPT ![h] = "connecting"] ELSE status
  /\ UNCHANGED <<rwc, waiting, closed, failures>>

\* newStream returned a stream; nobody else changes a peer that is connecting.
Dialled(h, s) ==
  /\ status[h] = "connecting"
  /\ s \in Free
  /\ onConnected(h, s)
  /\ waiting' = [waiting EXCEPT ![Other(h)] = @ \union {s}]
  /\ closed' = closed \ {s}
  /\ UNCHANGED <<timers, failures>>

\* newStream returned an error.
DialFails(h) ==
  /\ status[h] = "connecting" /\ failures < MaxFailures
  /\ failures' = failures + 1
  /\ disconnect(h)
  /\ UNCHANGED waiting

\* Mutant: a stream that is not wanted is left open.
HandleStreamNoClose(h, s) ==
  /\ s \in waiting[h]
  /\ waiting' = [waiting EXCEPT ![h] = @ \ {s}]
  /\ IF status[h] = "disconnected" THEN onConnected(h, s) ELSE UNCHANGED <<status, rwc>>
  /\ UNCHANGED <<timers, closed, failures>>

\* Mutant: the peer of the stream is not found.
HandleStreamUnknown(h, s) ==
  /\ s \in waiting[h]
  /\ waiting' = [waiting EXCEPT ![h] = @ \ {s}]
  /\ closed' = closed \union {s}
  /\ UNCHANGED <<status, rwc, timers, failures>>

\* Host.handleStream.
HandleStream(h, s) ==
  /\ s \in waiting[h]
  /\ waiting' = [waiting EXCEPT ![h] = @ \ {s}]
  /\ IF status[h] = "disconnected"
     THEN onConnected(h, s) /\ UNCHANGED closed
     ELSE closed' = closed \union {s} /\ UNCHANGED <<status, rwc>>
  /\ UNCHANGED <<timers, failures>>

\* Peer.listen: the read fails when the stream is closed.
ListenEnds(h) ==
  /\ status[h] = "connected" /\ rwc[h] \in closed
  /\ disconnect(h)
  /\ UNCHANGED <<waiting, failures>>

\* The network, or a message above MessageSizeLimit.
StreamBreaks(s) ==
  /\ s \in Streams \ (Free \union closed) /\ failures < MaxFailures
  /\ failures' = failures + 1
  /\ closed' = closed \union {s}
  /\ UNCHANGED <<status, rwc, timers, waiting>>

-----------------------------------------------------------------------------
\* Host.AddPeer on both.
Init ==
  /\ status = [h \in Host |-> "disconnected"]
  /\ rwc = [h \in Host |-> NoStream]
  /\ timers = [h \in Host |-> 1]
  /\ waiting = [h \in Host |-> {}]
  /\ closed = {}
  /\ failures = 0

Next ==
  \/ \E h \in Host : ConnectPeer(h) \/ DialFails(h) \/ ListenEnds(h)
  \/ \E h \in Host, s \in Streams : Dialled(h, s) \/ HandleStream(h, s)
  \/ \E s \in Streams : StreamBreaks(s)

Spec == Init /\ [][Next]_vars

\* Timers fire, a dial ends, a stream reaches its handler, a listener sees the end.
Fairness ==
  \A h \in Host :
    /\ WF_vars(ConnectPeer(h))
    /\ WF_vars(\E s \in Streams : Dialled(h, s))
    /\ WF_vars(ListenEnds(h))
    /\ \A s \in Streams : WF_vars(HandleStream(h, s))

FairSpec == Spec /\ Fairness

-----------------------------------------------------------------------------
\* Every variable has its type.
TypeOK ==
  /\ status \in [Host -> {"disconnected", "connecting", "connected"}]
  /\ rwc \in [Host -> Streams \union {NoStream}]
  /\ timers \in [Host -> 0 .. MaxTimers]
  /\ waiting \in [Host -> SUBSET Streams]
  /\ closed \subseteq Streams
  /\ failures \in 0 .. MaxFailures

\* A disconnected peer is dialled again: whatever ended the connection or the
\* attempt, a call of connectPeer is to come (disconnect).
ReconnectPending == \A h \in Host : status[h] = "disconnected" => timers[h] > 0

\* No half of a connection is left: when a host is connected on an open stream that
\* the other has seen, the other is connected on the same one.  Otherwise a host
\* would go on writing messages that nobody reads (handleStream, setConnecting).
NoHalfOpen ==
  \A h \in Host :
    status[h] = "connected" /\ rwc[h] \notin closed /\ rwc[h] \notin waiting[Other(h)]
    => status[Other(h)] = "connected" /\ rwc[Other(h)] = rwc[h]

\* The inductive invariant: both, and where an open stream is known.
PeersInv ==
  /\ TypeOK /\ ReconnectPending /\ NoHalfOpen
  /\ waiting[0] \intersect waiting[1] = {}
  /\ \A h \in Host :
       /\ rwc[h] \notin waiting[h]
       /\ status[h] # "connected" => rwc[h] \in closed \union {NoStream}
       /\ status[h] = "connected" => rwc[h] \in Streams
       /\ \A s \in waiting[h] \ closed :
            status[Other(h)] = "connected" /\ rwc[Other(h)] = s

Linked ==
  \A h \in Host : status[h] = "connected" /\ rwc[h] = rwc[0] /\ rwc[h] \notin closed

\* A host dials while the other does, while a stream of the other waits, or before
\* the other noticed the end of the last connection.
Collision ==
  \E h \in Host : /\ status[h] = "connecting"
                  /\ status[Other(h)] # "disconnected" \/ waiting[h] # {}

\* Two hosts whose dials do not collide forever end up connected, once nothing breaks.
\* That they do not is assumed: the random part of the interval in
\* reconnectAfterInterval is drawn from a generator that is not seeded.
Reconnects == <>[]~Collision => <>[]Linked

=============================================================================
