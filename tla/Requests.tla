------------------------------ MODULE Requests ------------------------------
(***************************************************************************)
(* Requests of one host to another over their connection: requestData,     *)
(* waitResponse, listenPeer and onReceiveRequest of p2p/msg_service.go,    *)
(* composed with the dialling and the breaking of streams in module Peers. *)
(* Calls run at the same time and share the stream with each other and     *)
(* with the proposals, votes and transactions of the peer.                 *)
(***************************************************************************)
EXTENDS Peers, Sequences, Functions

CONSTANTS
  Call,         \* goroutines that may call requestData
  Buffer,       \* capacity of the channels of SubscribeMsg
  MaxRequests,  \* bound: requests made; far below the 2^32 of reqClientSeq
  MaxOther      \* bound: other messages of the peer

ASSUME BoundAssumption ==
  Buffer \in Nat \ {0} /\ MaxRequests \in Nat /\ MaxOther \in Nat

Client == 0
Server == 1

VARIABLES
  reqClientSeq,
  pc,         \* where each call is
  seq,        \* the number of its request
  channel,    \* its subscription to the messages of the peer
  answer,     \* the request whose data it returned, or 0
  requests,   \* requests on each stream, on their way to the server
  inbox,      \* the subscription of the server's listenPeer
  serving,    \* the server's MsgService is set up
  messages,   \* messages on each stream, on their way to the client
  others,     \* how many of those were no responses
  lost        \* history: requests that were lost, or whose response was

callVars == <<reqClientSeq, pc, seq, channel, answer>>
serverVars == <<inbox, serving, others>>

Subscribed == {"subscribed", "waiting"}

\* A message of the server: a response, or (seq 0) anything else.
Message(n, failed) == [seq |-> n, failed |-> failed]

\* The streams whose messages a host reads, or will when handleStream has them.
Reads(h) == waiting[h] \union {s \in {rwc[h]} : status[h] = "connected"}

SeqsOf(s) == {m.seq : m \in Range(s)} \ {0}

\* What the calls that wait lose with a set of requests or responses.
Lose(ns) == lost' = lost \union {n \in ns : \E c \in Call : seq[c] = n /\ pc[c] # "idle"}

-----------------------------------------------------------------------------
\* requestData returns the data of a request, or an error (0), and unsubscribes.
Return(c, n) ==
  /\ pc' = [pc EXCEPT ![c] = "idle"]
  /\ answer' = [answer EXCEPT ![c] = n]
  /\ channel' = [channel EXCEPT ![c] = << >>]

\* requestData: the next number, then the subscription.  Goroutines are alike: one
\* of the idle ones makes the call.
Subscribe(c) ==
  /\ reqClientSeq < MaxRequests /\ \E d \in Call : pc[d] = "idle"
  /\ c = CHOOSE d \in Call : pc[d] = "idle"
  /\ reqClientSeq' = reqClientSeq + 1
  /\ seq' = [seq EXCEPT ![c] = reqClientSeq + 1]
  /\ pc' = [pc EXCEPT ![c] = "subscribed"]
  /\ answer' = [answer EXCEPT ![c] = 0]
  /\ UNCHANGED <<vars, serverVars, channel, requests, messages, lost>>

\* requestData: Peer.WriteMsg, then waitResponse.  What is written to a stream that
\* the other host has closed is lost.
WriteMsg(c) ==
  /\ pc[c] = "subscribed" /\ status[Client] = "connected"
  /\ pc' = [pc EXCEPT ![c] = "waiting"]
  /\ IF rwc[Client] \in Reads(Server)
     THEN requests' = [requests EXCEPT ![rwc[Client]] = Append(@, seq[c])] /\ UNCHANGED lost
     ELSE Lose({seq[c]}) /\ UNCHANGED requests
  /\ UNCHANGED <<vars, serverVars, reqClientSeq, seq, channel, answer, messages>>

\* WriteMsg failed, as the peer is not connected or its stream is closed.
WriteFails(c) ==
  /\ pc[c] = "subscribed"
  /\ status[Client] # "connected" \/ rwc[Client] \in closed
  /\ Return(c, 0)
  /\ UNCHANGED <<vars, serverVars, reqClientSeq, seq, requests, messages, lost>>

\* Mutant: the first response that comes is taken.
TakeMessageAny(c) ==
  /\ pc[c] = "waiting" /\ channel[c] # << >>
  /\ LET m == Head(channel[c]) IN
     IF m.seq # 0
     THEN Return(c, IF m.failed THEN 0 ELSE m.seq)
     ELSE channel' = [channel EXCEPT ![c] = Tail(@)] /\ UNCHANGED <<pc, answer>>
  /\ UNCHANGED <<vars, serverVars, reqClientSeq, seq, requests, messages, lost>>

\* waitResponse: other messages and the responses to others are skipped; an error
\* of the server is an error of the call.
TakeMessage(c) ==
  /\ pc[c] = "waiting" /\ channel[c] # << >>
  /\ LET m == Head(channel[c]) IN
     IF m.seq = seq[c]
     THEN Return(c, IF m.failed THEN 0 ELSE m.seq)
     ELSE channel' = [channel EXCEPT ![c] = Tail(@)] /\ UNCHANGED <<pc, answer>>
  /\ UNCHANGED <<vars, serverVars, reqClientSeq, seq, requests, messages, lost>>

\* waitResponse: "request timeout".
Timeout(c) ==
  /\ pc[c] = "waiting"
  /\ Return(c, 0)
  /\ UNCHANGED <<vars, serverVars, reqClientSeq, seq, requests, messages, lost>>

\* Peer.listen of the client reads a message and emits it to every subscription
\* that has room.
Listen ==
  /\ status[Client] = "connected" /\ messages[rwc[Client]] # << >>
  /\ LET m == Head(messages[rwc[Client]])
         full == {c \in Call : Len(channel[c]) >= Buffer} IN
     /\ messages' = [messages EXCEPT ![rwc[Client]] = Tail(@)]
     /\ channel' = [c \in Call |-> IF pc[c] \in Subscribed /\ c \notin full
                                   THEN Append(channel[c], m) ELSE channel[c]]
     /\ Lose({n \in {m.seq} : \E c \in full : seq[c] = n})
  /\ UNCHANGED <<vars, serverVars, reqClientSeq, pc, seq, answer, requests>>

-----------------------------------------------------------------------------
\* Peer.listen of the server emits a request to its listenPeer.
ServerListen ==
  /\ status[Server] = "connected" /\ requests[rwc[Server]] # << >>
  /\ LET n == Head(requests[rwc[Server]]) IN
     /\ requests' = [requests EXCEPT ![rwc[Server]] = Tail(@)]
     /\ IF Len(inbox) < Buffer
        THEN inbox' = Append(inbox, n) /\ UNCHANGED lost
        ELSE Lose({n}) /\ UNCHANGED inbox
  /\ UNCHANGED <<vars, callVars, serving, others, messages>>

\* The server writes a message, if it can, to whatever stream it has by now.
ServerWrite(m) ==
  \/ /\ status[Server] = "connected" /\ rwc[Server] \in Reads(Client)
     /\ messages' = [messages EXCEPT ![rwc[Server]] = Append(@, m)]
     /\ UNCHANGED lost
  \/ /\ status[Server] = "connected" => rwc[Server] \in closed
     /\ Lose({m.seq})
     /\ UNCHANGED messages

\* Mutant: an error is not sent back.
OnReceiveRequestSilent ==
  /\ inbox # << >>
  /\ inbox' = Tail(inbox)
  /\ \/ serving /\ ServerWrite(Message(Head(inbox), FALSE))
     \/ UNCHANGED <<messages, lost>>
  /\ UNCHANGED <<vars, callVars, serving, others, requests>>

\* listenPeer and onReceiveRequest: the response has the data of the handler, or its
\* error.  While the server sets itself up a request is dropped, as NewMsgService
\* starts listenPeer before it has set the receivers, or refused, as setReqHandlers
\* sets the handlers at the end.
OnReceiveRequest ==
  /\ inbox # << >>
  /\ inbox' = Tail(inbox)
  /\ \/ \E failed \in BOOLEAN :
          (serving \/ failed) /\ ServerWrite(Message(Head(inbox), failed))
     \/ ~serving /\ Lose({Head(inbox)}) /\ UNCHANGED messages
  /\ UNCHANGED <<vars, callVars, serving, others, requests>>

\* NewMsgService has set the receivers and Node.setReqHandlers the handlers.
SetReqHandlers ==
  /\ ~serving
  /\ serving' = TRUE
  /\ UNCHANGED <<vars, callVars, inbox, others, requests, messages, lost>>

\* broadcastData, sendData: a proposal, a vote, a view or transactions.
SendData ==
  /\ others < MaxOther
  /\ others' = others + 1
  /\ ServerWrite(Message(0, FALSE))
  /\ UNCHANGED <<vars, callVars, inbox, serving, requests>>

\* The two hosts dial, accept and notice the end of streams; what a stream carries
\* to a host that stopped reading it is lost.  Streams are alike: a dial takes a
\* fixed one of those that are free.
PeersStep ==
  /\ Next
  /\ \A h \in Host : rwc'[h] \in Free => rwc'[h] = CHOOSE s \in Free : TRUE
  /\ requests' = [s \in Streams |-> IF s \in Reads(Server)' THEN requests[s] ELSE << >>]
  /\ messages' = [s \in Streams |-> IF s \in Reads(Client)' THEN messages[s] ELSE << >>]
  /\ Lose(UNION ({Range(requests[s]) : s \in Streams \ Reads(Server)'} \union
                 {SeqsOf(messages[s]) : s \in Streams \ Reads(Client)'}))
  /\ UNCHANGED <<callVars, serverVars>>

-----------------------------------------------------------------------------
RequestsInit ==
  /\ Init
  /\ reqClientSeq = 0
  /\ pc = [c \in Call |-> "idle"]
  /\ seq = [c \in Call |-> 0]
  /\ channel = [c \in Call |-> << >>]
  /\ answer = [c \in Call |-> 0]
  /\ requests = [s \in Streams |-> << >>] /\ messages = [s \in Streams |-> << >>]
  /\ inbox = << >> /\ serving = FALSE
  /\ others = 0
  /\ lost = {}

RequestsNext ==
  \/ \E c \in Call : \/ Subscribe(c) \/ WriteMsg(c) \/ WriteFails(c)
                     \/ TakeMessage(c) \/ Timeout(c)
  \/ Listen \/ ServerListen \/ OnReceiveRequest \/ SendData
  \/ SetReqHandlers \/ PeersStep

allVars == <<vars, callVars, serverVars, requests, messages, lost>>

RequestsSpec == RequestsInit /\ [][RequestsNext]_allVars /\ Fairness

-----------------------------------------------------------------------------
\* A call returns the answer to its own request and to no request of another call,
\* although answers to other calls, and late ones to calls that timed out, come over
\* the same streams (requestData, waitResponse).
AnswerIsMine ==
  \A c, d \in Call : answer[c] # 0 => answer[c] = seq[c] /\ (answer[c] = seq[d] => c = d)

\* The request of a call is on its way to the server, or the answer on its way back.
Underway(c) ==
  \/ \E s \in Streams : seq[c] \in Range(requests[s]) \union SeqsOf(messages[s])
  \/ seq[c] \in Range(inbox) \union SeqsOf(channel[c])

\* While a call waits, its request is on its way to the server or the answer on its
\* way back, unless the end of a stream, a full channel or a server that was not set
\* up lost it: the call has subscribed before the request was written (requestData),
\* and the server answers every request that it takes (onReceiveRequest).
AnswerIsKept ==
  \A c \in Call : pc[c] = "waiting" /\ seq[c] \notin lost => Underway(c)

-----------------------------------------------------------------------------
(* The inductive invariant behind them. *)

Messages == [seq : Nat, failed : BOOLEAN]

RequestsTypeOK ==
  /\ reqClientSeq \in Nat
  /\ pc \in [Call -> Subscribed \union {"idle"}]
  /\ seq \in [Call -> Nat]
  /\ channel \in [Call -> Seq(Messages)]
  /\ answer \in [Call -> Nat]
  /\ requests \in [Streams -> Seq(Nat)]
  /\ inbox \in Seq(Nat)
  /\ messages \in [Streams -> Seq(Messages)]

\* Every call has a number of its own; the next one is above them all.
Numbered ==
  \A c \in Call :
    /\ seq[c] <= reqClientSeq
    /\ pc[c] # "idle" => seq[c] # 0
    /\ \A d \in Call : seq[c] = seq[d] => c = d \/ seq[c] = 0

RequestsInv ==
  /\ RequestsTypeOK /\ Numbered
  /\ \A c \in Call : answer[c] \in {0, seq[c]}
  /\ AnswerIsKept

=============================================================================
