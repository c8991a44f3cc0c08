---------------------------- MODULE RequestsProofs ----------------------------
(***************************************************************************)
(* Proofs about modules Peers and Requests, for any streams, any calls and *)
(* any bounds: the connection of two hosts, then the requests over it.     *)
(***************************************************************************)
EXTENDS Requests, TLAPS

-----------------------------------------------------------------------------
(* Module Peers. *)

USE DEF Host, Other

\* Two disconnected peers that are about to dial satisfy the invariant (AddPeer).
LEMMA InitPeers == Init => PeersInv
BY StreamAssumption DEF Init, PeersInv, TypeOK, ReconnectPending, NoHalfOpen

\* setConnecting preserves the invariant.
LEMMA ConnectStep ==
  ASSUME PeersInv, NEW h \in Host, ConnectPeer(h)
  PROVE  PeersInv'
<1>1. TypeOK'
  BY StreamAssumption DEF PeersInv, TypeOK, ConnectPeer
<1>2. ReconnectPending'
  BY StreamAssumption DEF PeersInv, TypeOK, ReconnectPending, ConnectPeer
<1>3. NoHalfOpen'
  BY DEF PeersInv, TypeOK, NoHalfOpen, ConnectPeer
<1> QED
  BY <1>1, <1>2, <1>3 DEF PeersInv, TypeOK, ConnectPeer

\* A dial that succeeds preserves the invariant (connectPeer).
LEMMA DialStep ==
  ASSUME PeersInv, NEW h \in Host, NEW s \in Streams, Dialled(h, s)
  PROVE  PeersInv'
<1> USE DEF Dialled, onConnected, Free
<1>1. TypeOK'
  BY DEF PeersInv, TypeOK
<1>2. ReconnectPending'
  BY DEF PeersInv, TypeOK, ReconnectPending
<1>3. NoHalfOpen'
  BY DEF PeersInv, TypeOK, NoHalfOpen
<1> QED
  BY <1>1, <1>2, <1>3 DEF PeersInv, TypeOK

\* A failed dial and the end of a listener preserve the invariant (disconnect).
LEMMA DisconnectStep ==
  ASSUME PeersInv, NEW h \in Host, DialFails(h) \/ ListenEnds(h)
  PROVE  PeersInv'
<1> USE DEF DialFails, ListenEnds, disconnect
<1>1. TypeOK'
  BY StreamAssumption DEF PeersInv, TypeOK
<1>2. ReconnectPending'
  BY StreamAssumption DEF PeersInv, TypeOK, ReconnectPending
<1>3. NoHalfOpen'
  BY DEF PeersInv, TypeOK, NoHalfOpen
<1> QED
  BY <1>1, <1>2, <1>3 DEF PeersInv, TypeOK

\* Accepting or refusing a stream preserves the invariant (handleStream).
LEMMA HandleStep ==
  ASSUME PeersInv, NEW h \in Host, NEW s \in Streams, HandleStream(h, s)
  PROVE  PeersInv'
<1> USE DEF HandleStream, onConnected
<1>1. TypeOK'
  BY DEF PeersInv, TypeOK
<1>2. ReconnectPending'
  BY DEF PeersInv, TypeOK, ReconnectPending
<1>3. NoHalfOpen'
  BY DEF PeersInv, TypeOK, NoHalfOpen
<1> QED
  BY <1>1, <1>2, <1>3 DEF PeersInv, TypeOK

\* A broken stream preserves the invariant.
LEMMA BreakStep ==
  ASSUME PeersInv, NEW s \in Streams, StreamBreaks(s)
  PROVE  PeersInv'
BY StreamAssumption DEF StreamBreaks, Free, PeersInv, TypeOK, ReconnectPending, NoHalfOpen

\* The inductive invariant of the connection of two hosts, whatever dials collide
\* and whatever streams break (p2p/peer.go, p2p/host.go).
THEOREM PeersInvariant == Spec => []PeersInv
<1>1. PeersInv /\ [Next]_vars => PeersInv'
  <2> SUFFICES ASSUME PeersInv, [Next]_vars
               PROVE  PeersInv'
    OBVIOUS
  <2>1. CASE \E h \in Host : ConnectPeer(h)
    BY <2>1, ConnectStep
  <2>2. CASE \E h \in Host : DialFails(h) \/ ListenEnds(h)
    BY <2>2, DisconnectStep
  <2>3. CASE \E h \in Host, s \in Streams : Dialled(h, s)
    BY <2>3, DialStep
  <2>4. CASE \E h \in Host, s \in Streams : HandleStream(h, s)
    BY <2>4, HandleStep
  <2>5. CASE \E s \in Streams : StreamBreaks(s)
    BY <2>5, BreakStep
  <2>6. CASE UNCHANGED vars
    BY <2>6 DEF vars, PeersInv, TypeOK, ReconnectPending, NoHalfOpen
  <2> QED
    BY <2>1, <2>2, <2>3, <2>4, <2>5, <2>6 DEF Next
<1> QED
  BY <1>1, InitPeers, PTL DEF Spec

\* Peer.disconnect leaves no peer without a reconnect to come.
THEOREM AlwaysReconnecting == Spec => []ReconnectPending
BY PeersInvariant, PTL DEF PeersInv

\* setConnecting and handleStream never leave a host connected on an open stream
\* that the other one dropped.
THEOREM NothingHalfOpen == Spec => []NoHalfOpen
BY PeersInvariant, PTL DEF PeersInv

-----------------------------------------------------------------------------
(* Module Requests: facts about sequences, streams and lost requests. *)

HIDE DEF Host, Other

\* Sending on a stream or a channel adds a message to it.
LEMMA RangeOfAppend ==
  ASSUME NEW S, NEW s \in Seq(S), NEW x \in S
  PROVE  Append(s, x) \in Seq(S) /\ Range(Append(s, x)) = Range(s) \union {x}
<1>1. Len(s) \in Nat /\ DOMAIN s = 1 .. Len(s) /\ Append(s, x) \in Seq(S)
  OBVIOUS
<1>2. /\ DOMAIN Append(s, x) = 1 .. Len(s) + 1 /\ Append(s, x)[Len(s) + 1] = x
      /\ \A i \in 1 .. Len(s) : Append(s, x)[i] = s[i]
  BY <1>1
<1>3. /\ \A i \in 1 .. Len(s) + 1 : i \in 1 .. Len(s) \/ i = Len(s) + 1
      /\ \A i \in 1 .. Len(s) : i \in 1 .. Len(s) + 1
      /\ Len(s) + 1 \in 1 .. Len(s) + 1
  BY <1>1
<1> QED BY <1>1, <1>2, <1>3, Zenon DEF Range

\* Taking a message from a stream or a channel leaves the rest.
LEMMA RangeOfTail ==
  ASSUME NEW S, NEW s \in Seq(S), s # << >>
  PROVE  Head(s) \in S /\ Tail(s) \in Seq(S) /\ Range(s) = {Head(s)} \union Range(Tail(s))
<1>1. Len(s) \in Nat \ {0} /\ DOMAIN s = 1 .. Len(s) /\ Head(s) = s[1]
  OBVIOUS
<1>2. Tail(s) \in Seq(S) /\ Len(Tail(s)) = Len(s) - 1
      /\ \A i \in 1 .. Len(s) - 1 : Tail(s)[i] = s[i + 1]
  OBVIOUS
<1>3. DOMAIN Tail(s) = 1 .. Len(s) - 1
  BY <1>1, <1>2
<1>4. ASSUME NEW i \in DOMAIN s
      PROVE  s[i] = Head(s) \/ s[i] \in Range(Tail(s))
  <2>1. CASE i = 1
    BY <2>1, <1>1
  <2>2. CASE i # 1
    <3>1. i - 1 \in 1 .. Len(s) - 1 /\ (i - 1) + 1 = i
      BY <1>1, <1>4, <2>2
    <3>2. s[i] = Tail(s)[i - 1] /\ i - 1 \in DOMAIN Tail(s)
      BY <1>2, <1>3, <3>1
    <3> QED BY <3>2 DEF Range
  <2> QED BY <2>1, <2>2
<1>5. ASSUME NEW i \in DOMAIN Tail(s)
      PROVE  Tail(s)[i] \in Range(s)
  <2>1. i + 1 \in DOMAIN s /\ Tail(s)[i] = s[i + 1]
    BY <1>1, <1>2, <1>3, <1>5
  <2> QED BY <2>1 DEF Range
<1>6. Head(s) \in Range(s) /\ Head(s) \in S
  BY <1>1 DEF Range
<1> QED BY <1>2, <1>4, <1>5, <1>6, Zenon DEF Range

\* The same for the numbers of the responses.
LEMMA SeqsOfAppend ==
  ASSUME NEW s \in Seq(Messages), NEW m \in Messages
  PROVE  SeqsOf(Append(s, m)) = SeqsOf(s) \union ({m.seq} \ {0})
<1>1. Range(Append(s, m)) = Range(s) \union {m}
  BY RangeOfAppend
<1> QED BY <1>1, Zenon DEF SeqsOf

\* A message that is read takes its number with it (Peer.listen).
LEMMA SeqsOfTail ==
  ASSUME NEW s \in Seq(Messages), s # << >>
  PROVE  SeqsOf(s) = SeqsOf(Tail(s)) \union ({Head(s).seq} \ {0})
<1>1. Range(s) = {Head(s)} \union Range(Tail(s))
  BY RangeOfTail
<1> QED BY <1>1, Zenon DEF SeqsOf

\* Only streams are read and written (Peer.rwc of a connected peer, handleStream).
LEMMA ReadsStreams ==
  ASSUME PeersInv
  PROVE  \A h \in {Client, Server} :
           Reads(h) \subseteq Streams /\ (status[h] = "connected" => rwc[h] \in Streams)
BY ZenonT(40) DEF PeersInv, TypeOK, Reads, Client, Server, Host

\* A request of a call that waits, or its response, is lost only for the record.
LEMMA LostIsKnown ==
  ASSUME NEW ns, Lose(ns)
  PROVE  /\ lost \subseteq lost'
         /\ \A c \in Call : seq[c] \in ns /\ pc[c] # "idle" => seq[c] \in lost'
BY Zenon DEF Lose

-----------------------------------------------------------------------------
(* The steps of the calls. *)

\* Two hosts that have not connected, and no calls.
LEMMA InitRequests == RequestsInit => RequestsInv
<1> SUFFICES ASSUME RequestsInit PROVE RequestsInv
  OBVIOUS
<1>1. RequestsTypeOK
  <2>1. << >> \in Seq(Messages) /\ << >> \in Seq(Nat)
    OBVIOUS
  <2> QED BY <2>1 DEF RequestsInit, RequestsTypeOK, Subscribed
<1>2. Numbered /\ \A c \in Call : answer[c] \in {0, seq[c]}
  BY DEF RequestsInit, Numbered
<1>3. AnswerIsKept
  BY DEF RequestsInit, AnswerIsKept
<1> QED BY <1>1, <1>2, <1>3 DEF RequestsInv

\* requestData takes a number that no call has had.
LEMMA SubscribeStep ==
  ASSUME RequestsInv, NEW c \in Call, Subscribe(c)
  PROVE  RequestsInv'
<1>1. RequestsTypeOK'
  BY DEF RequestsInv, RequestsTypeOK, Subscribe, serverVars, Subscribed
<1>2. Numbered'
  <2>1. reqClientSeq' = reqClientSeq + 1 /\ reqClientSeq \in Nat
        /\ \A d \in Call : seq[d] \in Nat /\ seq[d] <= reqClientSeq
    BY DEF RequestsInv, RequestsTypeOK, Numbered, Subscribe
  <2>2. \A d \in Call : seq'[d] = IF d = c THEN reqClientSeq + 1 ELSE seq[d]
    BY DEF RequestsInv, RequestsTypeOK, Subscribe
  <2>3. \A d \in Call : seq'[d] <= reqClientSeq'
    BY <2>1, <2>2
  <2>4. \A d \in Call : pc'[d] # "idle" => seq'[d] # 0
    BY <2>1, <2>2 DEF RequestsInv, RequestsTypeOK, Numbered, Subscribe
  <2>5. \A d, e \in Call : seq'[d] = seq'[e] => d = e \/ seq'[d] = 0
    <3> SUFFICES ASSUME NEW d \in Call, NEW e \in Call, seq'[d] = seq'[e], d # e
                 PROVE  seq'[d] = 0
      OBVIOUS
    <3>1. d # c /\ e # c
      BY <2>1, <2>2
    <3> QED BY <2>2, <3>1, Zenon DEF RequestsInv, Numbered
  <2> QED BY <2>3, <2>4, <2>5, Zenon DEF Numbered
<1>3. (\A d \in Call : answer[d] \in {0, seq[d]})'
  BY DEF RequestsInv, RequestsTypeOK, Subscribe
<1>4. AnswerIsKept'
  <2> SUFFICES ASSUME NEW d \in Call, pc'[d] = "waiting", seq'[d] \notin lost'
               PROVE  Underway(d)'
    BY DEF AnswerIsKept
  <2>1. d # c /\ pc[d] = "waiting" /\ seq'[d] = seq[d]
    BY DEF RequestsInv, RequestsTypeOK, Subscribe
  <2>2. Underway(d)
    <3>1. lost' = lost
      BY Zenon DEF Subscribe
    <3> QED BY <2>1, <3>1, Zenon DEF RequestsInv, AnswerIsKept
  <2> QED BY <2>1, <2>2, Zenon DEF Underway, Subscribe, serverVars
<1> QED BY <1>1, <1>2, <1>3, <1>4 DEF RequestsInv

\* The calls' numbers and answers, when a step leaves them as they are or ends calls.
LEMMA SameNumbers ==
  ASSUME RequestsInv, UNCHANGED <<reqClientSeq, seq>>,
         pc' \in [Call -> Subscribed \union {"idle"}],
         \A c \in Call : /\ pc'[c] # "idle" => pc[c] # "idle"
                         /\ answer'[c] \in {0, seq[c], answer[c]}
  PROVE  Numbered' /\ (\A c \in Call : answer[c] \in {0, seq[c]})'
<1>1. Numbered'
  BY Zenon DEF RequestsInv, Numbered
<1>2. (\A c \in Call : answer[c] \in {0, seq[c]})'
  BY Zenon DEF RequestsInv
<1> QED BY <1>1, <1>2

\* A request is written after its call has subscribed, or it is lost.
LEMMA WriteStep ==
  ASSUME RequestsInv, PeersInv, NEW c \in Call, WriteMsg(c)
  PROVE  RequestsInv'
<1>1. /\ pc[c] = "subscribed" /\ pc' = [pc EXCEPT ![c] = "waiting"]
      /\ UNCHANGED <<reqClientSeq, seq, channel, answer, messages, inbox>>
      /\ rwc[Client] \in Streams
  BY ReadsStreams, Zenon DEF WriteMsg, serverVars
<1>2. /\ seq[c] \in Nat /\ \A s \in Streams : requests[s] \in Seq(Nat)
      /\ pc' \in [Call -> Subscribed \union {"idle"}]
      /\ \A d \in Call : d # c => pc'[d] = pc[d]
  BY <1>1, Zenon DEF RequestsInv, RequestsTypeOK, Subscribed
<1>3. /\ requests' \in [Streams -> Seq(Nat)] /\ lost \subseteq lost'
      /\ \A s \in Streams : Range(requests[s]) \subseteq Range(requests'[s])
      /\ seq[c] \in lost' \/ \E s \in Streams : seq[c] \in Range(requests'[s])
  <2>1. CASE /\ requests' = [requests EXCEPT ![rwc[Client]] = Append(@, seq[c])]
             /\ UNCHANGED lost
    <3>1. /\ Append(requests[rwc[Client]], seq[c]) \in Seq(Nat)
          /\ Range(Append(requests[rwc[Client]], seq[c]))
               = Range(requests[rwc[Client]]) \union {seq[c]}
      <4>1. requests[rwc[Client]] \in Seq(Nat)
        BY <1>1, <1>2, Zenon
      <4> QED BY <1>2, <4>1, RangeOfAppend
    <3> QED BY <1>1, <1>2, <2>1, <3>1, Zenon DEF RequestsInv, RequestsTypeOK
  <2>2. CASE Lose({seq[c]}) /\ UNCHANGED requests
    BY <1>1, <2>2, LostIsKnown, Zenon DEF RequestsInv, RequestsTypeOK
  <2> QED BY <2>1, <2>2, Zenon DEF WriteMsg
<1>4. RequestsTypeOK'
  BY <1>1, <1>2, <1>3, Zenon DEF RequestsInv, RequestsTypeOK
<1>5. Numbered' /\ (\A d \in Call : answer[d] \in {0, seq[d]})'
  BY <1>1, <1>2, SameNumbers, Zenon
<1>6. AnswerIsKept'
  <2> SUFFICES ASSUME NEW d \in Call, pc'[d] = "waiting", seq'[d] \notin lost'
               PROVE  Underway(d)'
    BY Zenon DEF AnswerIsKept
  <2>1. CASE d = c
    BY <1>1, <1>3, <2>1, Zenon DEF Underway
  <2>2. CASE d # c
    <3>1. Underway(d)
      BY <1>1, <1>2, <1>3, <2>2, Zenon DEF RequestsInv, AnswerIsKept
    <3> QED BY <1>1, <1>3, <3>1, Zenon DEF Underway
  <2> QED BY <2>1, <2>2, Zenon
<1> QED BY <1>4, <1>5, <1>6, Zenon DEF RequestsInv

\* A step of one call that ends it, or that takes a message of no interest to it.
LEMMA CallStep ==
  ASSUME RequestsInv, NEW c \in Call, NEW n \in {0, seq[c]},
         UNCHANGED <<reqClientSeq, seq, requests, messages, inbox, lost>>,
         \/ Return(c, n)
         \/ /\ UNCHANGED <<pc, answer>>
            /\ channel[c] # << >> /\ channel' = [channel EXCEPT ![c] = Tail(@)]
            /\ Head(channel[c]).seq # seq[c]
  PROVE  RequestsInv'
<1>1. /\ << >> \in Seq(Messages) /\ channel[c] \in Seq(Messages) /\ n \in Nat
      /\ "idle" \in Subscribed \union {"idle"}
  BY DEF RequestsInv, RequestsTypeOK
<1>2. /\ pc' \in [Call -> Subscribed \union {"idle"}]
      /\ answer' \in [Call -> Nat]
      /\ channel' \in [Call -> Seq(Messages)]
      /\ \A d \in Call : /\ pc'[d] = "idle" \/ pc'[d] = pc[d]
                         /\ answer'[d] \in {0, seq[d], answer[d]}
                         /\ \/ pc'[d] = "idle"
                            \/ seq[d] \in SeqsOf(channel[d]) => seq[d] \in SeqsOf(channel'[d])
  <2>1. CASE Return(c, n)
    BY <1>1, <2>1, Zenon DEF Return, RequestsInv, RequestsTypeOK
  <2>2. CASE /\ UNCHANGED <<pc, answer>>
             /\ channel[c] # << >> /\ channel' = [channel EXCEPT ![c] = Tail(@)]
             /\ Head(channel[c]).seq # seq[c]
    <3>1. Tail(channel[c]) \in Seq(Messages)
      BY <1>1, <2>2, RangeOfTail
    <3>2. SeqsOf(channel[c]) = SeqsOf(Tail(channel[c])) \union ({Head(channel[c]).seq} \ {0})
      BY <1>1, <2>2, SeqsOfTail, Zenon
    <3> QED BY <2>2, <3>1, <3>2, Zenon DEF RequestsInv, RequestsTypeOK
  <2> QED BY <2>1, <2>2, Zenon
<1>3. RequestsTypeOK'
  BY <1>2, Zenon DEF RequestsInv, RequestsTypeOK
<1>4. Numbered' /\ (\A d \in Call : answer[d] \in {0, seq[d]})'
  BY <1>2, SameNumbers, Zenon
<1>5. AnswerIsKept'
  <2> SUFFICES ASSUME NEW d \in Call, pc'[d] = "waiting", seq'[d] \notin lost'
               PROVE  Underway(d)'
    BY Zenon DEF AnswerIsKept
  <2>1. pc'[d] # "idle"
    BY SMT
  <2>2. Underway(d)
    BY <1>2, <2>1, Zenon DEF RequestsInv, AnswerIsKept
  <2> QED BY <1>2, <2>1, <2>2, Zenon DEF Underway
<1> QED BY <1>3, <1>4, <1>5, Zenon DEF RequestsInv

\* WriteMsg that fails, waitResponse that takes a message or gives up.
LEMMA ReturnStep ==
  ASSUME RequestsInv, NEW c \in Call, WriteFails(c) \/ TakeMessage(c) \/ Timeout(c)
  PROVE  RequestsInv'
<1>1. UNCHANGED <<reqClientSeq, seq, requests, messages, inbox, lost>>
  BY Zenon DEF WriteFails, TakeMessage, Timeout, serverVars
<1>2. CASE WriteFails(c) \/ Timeout(c)
  BY <1>1, <1>2, CallStep, Zenon DEF WriteFails, Timeout
<1>3. CASE TakeMessage(c)
  <2>1. CASE Head(channel[c]).seq = seq[c]
    <3>1. PICK n \in {0, seq[c]} : Return(c, n)
      BY <1>3, <2>1, Zenon DEF TakeMessage
    <3> QED BY <1>1, <3>1, CallStep, Zenon
  <2>2. CASE Head(channel[c]).seq # seq[c]
    <3>1. /\ UNCHANGED <<pc, answer>>
          /\ channel[c] # << >> /\ channel' = [channel EXCEPT ![c] = Tail(@)]
      BY <1>3, <2>2, Zenon DEF TakeMessage
    <3> QED BY <1>1, <2>2, <3>1, CallStep, Zenon
  <2> QED BY <2>1, <2>2, Zenon
<1> QED BY <1>2, <1>3, Zenon

-----------------------------------------------------------------------------
(* The steps of the hosts and of their connection. *)

\* A step that carries requests and messages on, or loses them for the record.
LEMMA CarryStep ==
  ASSUME RequestsInv, UNCHANGED <<reqClientSeq, pc, seq, answer>>,
         requests' \in [Streams -> Seq(Nat)], inbox' \in Seq(Nat),
         messages' \in [Streams -> Seq(Messages)], channel' \in [Call -> Seq(Messages)],
         lost \subseteq lost',
         \A c \in Call : pc[c] = "waiting" /\ Underway(c) => Underway(c)' \/ seq[c] \in lost'
  PROVE  RequestsInv'
<1>1. RequestsTypeOK'
  BY Zenon DEF RequestsInv, RequestsTypeOK
<1>2. Numbered' /\ (\A d \in Call : answer[d] \in {0, seq[d]})'
  BY SameNumbers, Zenon DEF RequestsInv, RequestsTypeOK
<1>3. AnswerIsKept'
  BY Zenon DEF RequestsInv, AnswerIsKept
<1> QED BY <1>1, <1>2, <1>3, Zenon DEF RequestsInv

\* A number that a call waits for is not the 0 of other messages.
LEMMA WaitsForNumber ==
  ASSUME RequestsInv, NEW c \in Call, pc[c] = "waiting"
  PROVE  pc[c] # "idle" /\ seq[c] # 0 /\ pc[c] \in Subscribed
BY DEF RequestsInv, Numbered, Subscribed

\* Peer.listen gives a message to every call that has room for it.
LEMMA ListenStep ==
  ASSUME RequestsInv, PeersInv, Listen
  PROVE  RequestsInv'
<1> DEFINE r == rwc[Client]
           m == Head(messages[r])
           full == {c \in Call : Len(channel[c]) >= Buffer}
<1>1. /\ r \in Streams /\ messages[r] # << >>
      /\ messages' = [messages EXCEPT ![r] = Tail(@)]
      /\ channel' = [c \in Call |-> IF pc[c] \in Subscribed /\ c \notin full
                                    THEN Append(channel[c], m) ELSE channel[c]]
      /\ Lose({n \in {m.seq} : \E c \in full : seq[c] = n})
      /\ UNCHANGED <<reqClientSeq, pc, seq, answer, requests, inbox>>
  BY ReadsStreams, Zenon DEF Listen, serverVars
<1>2. /\ messages[r] \in Seq(Messages) /\ messages \in [Streams -> Seq(Messages)]
      /\ \A c \in Call : channel[c] \in Seq(Messages)
      /\ requests \in [Streams -> Seq(Nat)] /\ inbox \in Seq(Nat)
  BY <1>1, Zenon DEF RequestsInv, RequestsTypeOK
<1> HIDE DEF r, m, full
<1>3. /\ m \in Messages /\ Tail(messages[r]) \in Seq(Messages)
      /\ SeqsOf(messages[r]) = SeqsOf(Tail(messages[r])) \union ({m.seq} \ {0})
  <2>1. m \in Messages /\ Tail(messages[r]) \in Seq(Messages)
    BY <1>1, <1>2, RangeOfTail DEF m
  <2> QED BY <1>1, <1>2, <2>1, SeqsOfTail, Zenon DEF m
<1>4. \A c \in Call : /\ Append(channel[c], m) \in Seq(Messages)
                      /\ SeqsOf(Append(channel[c], m)) = SeqsOf(channel[c]) \union ({m.seq} \ {0})
  BY <1>2, <1>3, SeqsOfAppend
<1>5. messages' \in [Streams -> Seq(Messages)] /\ channel' \in [Call -> Seq(Messages)]
  BY <1>1, <1>2, <1>3, <1>4, Zenon
<1>6. ASSUME NEW c \in Call, pc[c] = "waiting", Underway(c)
      PROVE  Underway(c)' \/ seq[c] \in lost'
  <2>1. pc[c] # "idle" /\ seq[c] # 0 /\ pc[c] \in Subscribed
    BY <1>6, WaitsForNumber, Zenon
  <2>2. SeqsOf(channel[c]) \subseteq SeqsOf(channel'[c])
    BY <1>1, <1>4, Zenon
  <2>3. CASE m.seq = seq[c] /\ c \in full
    BY <1>1, <2>1, <2>3, LostIsKnown, Zenon
  <2>4. CASE m.seq = seq[c] /\ c \notin full
    <3>1. seq[c] \in SeqsOf(channel'[c])
      BY <1>1, <1>4, <2>1, <2>4, Zenon
    <3> QED BY <1>1, <3>1, Zenon DEF Underway
  <2>5. CASE m.seq # seq[c]
    <3>1. \A s \in Streams : seq[c] \in SeqsOf(messages[s]) => seq[c] \in SeqsOf(messages'[s])
      BY <1>1, <1>2, <1>3, <2>5, Zenon
    <3> QED BY <1>1, <1>6, <2>2, <3>1, Zenon DEF Underway
  <2> QED BY <2>3, <2>4, <2>5, Zenon
<1>7. lost \subseteq lost'
  BY <1>1, LostIsKnown, Zenon
<1> QED BY <1>1, <1>2, <1>5, <1>6, <1>7, CarryStep, Zenon

\* The server takes a request from its stream, or has no room for it.
LEMMA ServerListenStep ==
  ASSUME RequestsInv, PeersInv, ServerListen
  PROVE  RequestsInv'
<1> DEFINE r == rwc[Server]
           n == Head(requests[r])
<1>1. /\ r \in Streams /\ requests[r] # << >>
      /\ requests' = [requests EXCEPT ![r] = Tail(@)]
      /\ \/ inbox' = Append(inbox, n) /\ UNCHANGED lost
         \/ Lose({n}) /\ UNCHANGED inbox
      /\ UNCHANGED <<reqClientSeq, pc, seq, channel, answer, messages>>
  BY ReadsStreams, Zenon DEF ServerListen, callVars
<1>2. /\ requests[r] \in Seq(Nat) /\ requests \in [Streams -> Seq(Nat)]
      /\ inbox \in Seq(Nat)
      /\ messages \in [Streams -> Seq(Messages)] /\ channel \in [Call -> Seq(Messages)]
  BY <1>1, Zenon DEF RequestsInv, RequestsTypeOK
<1> HIDE DEF r, n
<1>3. /\ n \in Nat /\ Tail(requests[r]) \in Seq(Nat)
      /\ Range(requests[r]) = {n} \union Range(Tail(requests[r]))
  BY <1>1, <1>2, RangeOfTail DEF n
<1>4. Append(inbox, n) \in Seq(Nat) /\ Range(Append(inbox, n)) = Range(inbox) \union {n}
  <2>1. inbox \in Seq(Nat) /\ n \in Nat
    BY <1>2, <1>3, Zenon
  <2> QED BY <2>1, RangeOfAppend
<1>5. requests' \in [Streams -> Seq(Nat)] /\ inbox' \in Seq(Nat)
  BY <1>1, <1>2, <1>3, <1>4, Zenon
<1>6. lost \subseteq lost' /\ Range(inbox) \subseteq Range(inbox')
  BY <1>1, <1>4, LostIsKnown, Zenon
<1>7. ASSUME NEW c \in Call, pc[c] = "waiting", Underway(c)
      PROVE  Underway(c)' \/ seq[c] \in lost'
  <2>1. pc[c] # "idle"
    BY <1>7, WaitsForNumber, Zenon
  <2>2. CASE seq[c] = n
    <3>1. n \in Range(inbox') \/ seq[c] \in lost'
      BY <1>1, <1>4, <2>1, <2>2, LostIsKnown, Zenon
    <3> QED BY <1>1, <2>2, <3>1, Zenon DEF Underway
  <2>3. CASE seq[c] # n
    <3>1. \A s \in Streams : seq[c] \in Range(requests[s]) => seq[c] \in Range(requests'[s])
      BY <1>1, <1>2, <1>3, <2>3, Zenon
    <3> QED BY <1>1, <1>6, <1>7, <3>1, Zenon DEF Underway
  <2> QED BY <2>2, <2>3, Zenon
<1> QED BY <1>1, <1>2, <1>5, <1>6, <1>7, CarryStep, Zenon

\* What the server writes is on a stream that the client reads, or lost.
LEMMA ServerWrites ==
  ASSUME RequestsInv, PeersInv, NEW m \in Messages, ServerWrite(m)
  PROVE  /\ messages' \in [Streams -> Seq(Messages)] /\ lost \subseteq lost'
         /\ \A s \in Streams : SeqsOf(messages[s]) \subseteq SeqsOf(messages'[s])
         /\ UNCHANGED seq =>
              \A c \in Call : pc[c] = "waiting" /\ seq[c] = m.seq
                => seq[c] \in lost' \/ \E s \in Streams : seq[c] \in SeqsOf(messages'[s])
<1> DEFINE r == rwc[Server]
<1>1. /\ \A s \in Streams : messages[s] \in Seq(Messages)
      /\ messages \in [Streams -> Seq(Messages)]
  BY Zenon DEF RequestsInv, RequestsTypeOK
<1>2. CASE /\ status[Server] = "connected"
           /\ messages' = [messages EXCEPT ![r] = Append(@, m)]
           /\ UNCHANGED lost
  <2>1. r \in Streams
    BY <1>2, ReadsStreams, Zenon
  <2>2. SeqsOf(Append(messages[r], m)) = SeqsOf(messages[r]) \union ({m.seq} \ {0})
    BY <1>1, <2>1, SeqsOfAppend, Zenon
  <2>3. Append(messages[r], m) \in Seq(Messages)
    BY <1>1, <2>1
  <2>4. \A c \in Call : pc[c] = "waiting" => seq[c] # 0
    BY WaitsForNumber, Zenon
  <2> HIDE DEF r
  <2>5. /\ messages' \in [Streams -> Seq(Messages)]
        /\ \A s \in Streams : SeqsOf(messages[s]) \subseteq SeqsOf(messages'[s])
        /\ {m.seq} \ {0} \subseteq SeqsOf(messages'[r])
    BY <1>1, <1>2, <2>1, <2>2, <2>3, Zenon
  <2> QED BY <1>2, <2>1, <2>4, <2>5, Zenon
<1>3. CASE Lose({m.seq}) /\ UNCHANGED messages
  <2>1. \A c \in Call : pc[c] = "waiting" => pc[c] # "idle"
    BY WaitsForNumber, Zenon
  <2> QED BY <1>1, <1>3, <2>1, LostIsKnown, Zenon
<1> QED BY <1>2, <1>3, Zenon DEF ServerWrite

\* onReceiveRequest answers the request, with its data or with an error, or the
\* request is lost while the server sets itself up.
LEMMA ServeStep ==
  ASSUME RequestsInv, PeersInv, OnReceiveRequest
  PROVE  RequestsInv'
<1> DEFINE n == Head(inbox)
<1>1. /\ inbox # << >> /\ inbox' = Tail(inbox)
      /\ \/ \E failed \in BOOLEAN : ServerWrite(Message(n, failed))
         \/ Lose({n}) /\ UNCHANGED messages
      /\ UNCHANGED <<reqClientSeq, pc, seq, channel, answer, requests>>
  BY Zenon DEF OnReceiveRequest, callVars
<1>2. /\ requests \in [Streams -> Seq(Nat)] /\ inbox \in Seq(Nat)
      /\ messages \in [Streams -> Seq(Messages)] /\ channel \in [Call -> Seq(Messages)]
  BY Zenon DEF RequestsInv, RequestsTypeOK
<1> HIDE DEF n
<1>3. /\ n \in Nat /\ inbox' \in Seq(Nat)
      /\ Range(inbox) = {n} \union Range(inbox')
  BY <1>1, <1>2, RangeOfTail DEF n
<1>4. /\ messages' \in [Streams -> Seq(Messages)] /\ lost \subseteq lost'
      /\ \A s \in Streams : SeqsOf(messages[s]) \subseteq SeqsOf(messages'[s])
      /\ \A c \in Call : pc[c] = "waiting" /\ seq[c] = n
           => seq[c] \in lost' \/ \E s \in Streams : seq[c] \in SeqsOf(messages'[s])
  <2>1. CASE \E failed \in BOOLEAN : ServerWrite(Message(n, failed))
    <3>1. PICK failed \in BOOLEAN : ServerWrite(Message(n, failed))
      BY <2>1, Zenon
    <3>2. Message(n, failed) \in Messages /\ Message(n, failed).seq = n
      BY <1>3 DEF Message, Messages
    <3> QED BY <1>1, <3>1, <3>2, ServerWrites, Zenon
  <2>2. CASE Lose({n}) /\ UNCHANGED messages
    <3>1. \A c \in Call : pc[c] = "waiting" => pc[c] # "idle"
      BY WaitsForNumber, Zenon
    <3> QED BY <1>2, <2>2, <3>1, LostIsKnown, Zenon
  <2> QED BY <1>1, <2>1, <2>2, Zenon
<1>5. ASSUME NEW c \in Call, pc[c] = "waiting", Underway(c)
      PROVE  Underway(c)' \/ seq[c] \in lost'
  <2>1. CASE seq[c] = n
    BY <1>1, <1>4, <1>5, <2>1, Zenon DEF Underway
  <2>2. CASE seq[c] # n
    BY <1>1, <1>3, <1>4, <1>5, <2>2, Zenon DEF Underway
  <2> QED BY <2>1, <2>2, Zenon
<1> QED BY <1>1, <1>2, <1>3, <1>4, <1>5, CarryStep, Zenon

\* A proposal, a vote, a view or transactions leave requests and responses alone.
LEMMA SendDataStep ==
  ASSUME RequestsInv, PeersInv, SendData
  PROVE  RequestsInv'
<1>1. /\ ServerWrite(Message(0, FALSE))
      /\ UNCHANGED <<reqClientSeq, pc, seq, channel, answer, requests, inbox>>
  BY Zenon DEF SendData, callVars
<1>2. Message(0, FALSE) \in Messages
  BY DEF Message, Messages
<1>3. /\ messages' \in [Streams -> Seq(Messages)] /\ lost \subseteq lost'
      /\ \A s \in Streams : SeqsOf(messages[s]) \subseteq SeqsOf(messages'[s])
  BY <1>1, <1>2, ServerWrites, Zenon
<1>4. ASSUME NEW c \in Call, Underway(c)
      PROVE  Underway(c)'
  BY <1>1, <1>3, <1>4, Zenon DEF Underway
<1>5. /\ requests \in [Streams -> Seq(Nat)] /\ inbox \in Seq(Nat)
      /\ channel \in [Call -> Seq(Messages)]
  BY Zenon DEF RequestsInv, RequestsTypeOK
<1> QED BY <1>1, <1>3, <1>4, <1>5, CarryStep, Zenon

\* The end of a stream loses what was on it and nothing else.
LEMMA PeersStepCarries ==
  ASSUME RequestsInv, PeersStep
  PROVE  RequestsInv'
<1> DEFINE gone == UNION ({Range(requests[s]) : s \in Streams \ Reads(Server)'} \union
                          {SeqsOf(messages[s]) : s \in Streams \ Reads(Client)'})
<1>1. /\ requests' = [s \in Streams |-> IF s \in Reads(Server)' THEN requests[s] ELSE << >>]
      /\ messages' = [s \in Streams |-> IF s \in Reads(Client)' THEN messages[s] ELSE << >>]
      /\ Lose(gone)
      /\ UNCHANGED <<reqClientSeq, pc, seq, channel, answer, inbox>>
  BY Zenon DEF PeersStep, callVars, serverVars
<1>2. << >> \in Seq(Nat) /\ << >> \in Seq(Messages)
  OBVIOUS
<1>3. /\ requests' \in [Streams -> Seq(Nat)] /\ inbox' \in Seq(Nat)
      /\ messages' \in [Streams -> Seq(Messages)] /\ channel' \in [Call -> Seq(Messages)]
  BY <1>1, <1>2, Zenon DEF RequestsInv, RequestsTypeOK
<1>4. ASSUME NEW c \in Call, pc[c] = "waiting", Underway(c), seq[c] \notin gone
      PROVE  Underway(c)'
  <2>1. \A s \in Streams : seq[c] \in Range(requests[s]) => seq[c] \in Range(requests'[s])
    BY <1>1, <1>4, Zenon
  <2>2. \A s \in Streams : seq[c] \in SeqsOf(messages[s]) => seq[c] \in SeqsOf(messages'[s])
    BY <1>1, <1>4, Zenon
  <2> QED BY <1>1, <1>4, <2>1, <2>2, Zenon DEF Underway
<1> HIDE DEF gone
<1>5. \A c \in Call : pc[c] = "waiting" => pc[c] # "idle"
  BY WaitsForNumber, Zenon
<1>6. lost \subseteq lost' /\ \A c \in Call : pc[c] = "waiting" /\ seq[c] \in gone => seq[c] \in lost'
  BY <1>1, <1>5, LostIsKnown, Zenon
<1> QED BY <1>1, <1>3, <1>4, <1>6, CarryStep, Zenon

\* A step that changes none of it (setReqHandlers, or no step).
LEMMA IdleStep ==
  ASSUME RequestsInv, UNCHANGED <<callVars, inbox, requests, messages, lost>>
  PROVE  RequestsInv'
<1>1. UNCHANGED <<reqClientSeq, pc, seq, channel, answer, inbox, requests, messages, lost>>
  BY Zenon DEF callVars
<1> QED BY <1>1, Zenon DEF RequestsInv, RequestsTypeOK, Numbered, AnswerIsKept, Underway

\* All steps together.
LEMMA RequestsStep ==
  ASSUME RequestsInv, PeersInv, [RequestsNext]_allVars
  PROVE  RequestsInv'
<1>1. CASE \E c \in Call : Subscribe(c)
  BY <1>1, SubscribeStep, Zenon
<1>2. CASE \E c \in Call : WriteMsg(c)
  BY <1>2, WriteStep, Zenon
<1>3. CASE \E c \in Call : WriteFails(c) \/ TakeMessage(c) \/ Timeout(c)
  BY <1>3, ReturnStep, Zenon
<1>4. CASE Listen
  BY <1>4, ListenStep, Zenon
<1>5. CASE ServerListen
  BY <1>5, ServerListenStep, Zenon
<1>6. CASE OnReceiveRequest
  BY <1>6, ServeStep, Zenon
<1>7. CASE SendData
  BY <1>7, SendDataStep, Zenon
<1>8. CASE PeersStep
  BY <1>8, PeersStepCarries, Zenon
<1>9. CASE SetReqHandlers \/ UNCHANGED allVars
  BY <1>9, IdleStep, Zenon DEF SetReqHandlers, allVars, serverVars
<1> QED
  BY <1>1, <1>2, <1>3, <1>4, <1>5, <1>6, <1>7, <1>8, <1>9, Zenon DEF RequestsNext

\* Only PeersStep touches the connection.
LEMMA RequestsIsNext ==
  ASSUME [RequestsNext]_allVars
  PROVE  [Next]_vars
BY Zenon DEF RequestsNext, allVars, Subscribe, WriteMsg, WriteFails, TakeMessage, Timeout,
             Listen, ServerListen, OnReceiveRequest, SendData, SetReqHandlers, PeersStep

-----------------------------------------------------------------------------
(* The theorems about requests. *)

\* Under requests and other traffic the connection is still the one of module Peers,
\* fairness included: requestData and onReceiveRequest do not touch Peer.status.
THEOREM RequestsImplementPeers == RequestsSpec => FairSpec
<1>1. RequestsInit => Init
  BY Zenon DEF RequestsInit
<1>2. [RequestsNext]_allVars => [Next]_vars
  BY RequestsIsNext, Zenon
<1> QED
  BY <1>1, <1>2, PTL DEF RequestsSpec, FairSpec, Spec

\* The inductive invariant: calls have numbers of their own, and what a call waits
\* for is on its way or known to be lost.
THEOREM RequestsInvariant == RequestsSpec => []RequestsInv
<1>1. RequestsInv /\ PeersInv /\ [RequestsNext]_allVars => RequestsInv'
  BY RequestsStep, Zenon
<1>2. RequestsSpec => []PeersInv
  BY RequestsImplementPeers, PeersInvariant, PTL DEF FairSpec
<1> QED
  BY <1>1, <1>2, InitRequests, PTL DEF RequestsSpec

\* waitResponse returns the answer to the call's own request, and to no other's,
\* whatever times out, comes late or is lost.
THEOREM OwnAnswer == RequestsSpec => []AnswerIsMine
<1>1. RequestsInv => AnswerIsMine
  BY Zenon DEF RequestsInv, Numbered, AnswerIsMine
<1> QED
  BY <1>1, RequestsInvariant, PTL

\* A request whose call waits is never forgotten: it is on a stream, in a channel or
\* answered, or a stream's end, a full channel or a server not yet set up lost it.
THEOREM NoAnswerForgotten == RequestsSpec => []AnswerIsKept
<1>1. RequestsInv => AnswerIsKept
  BY Zenon DEF RequestsInv
<1> QED
  BY <1>1, RequestsInvariant, PTL

=============================================================================
