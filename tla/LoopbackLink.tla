--------------------------- MODULE LoopbackLink ---------------------------
(***************************************************************************)
(* link/loopback.py: a pair of LoopbackLink ends over two queue.Queue      *)
(* objects.  One action is one stretch of a method that no other thread    *)
(* can cut: a method is cut where it touches a queue (whose put and get    *)
(* are atomic under the queue's mutex) and between reading and writing an  *)
(* attribute it shares with other threads.                                 *)
(*                                                                         *)
(* Each end has one sender, as base.py:35 asks; any number of threads may  *)
(* receive on an end, since loopback.py:85 provides for a second waiter,   *)
(* and any number may close it.                                            *)
(***************************************************************************)
EXTENDS Integers, SequencesExt

CONSTANTS
  Ends,       \* the two LoopbackLink objects
  Receivers,  \* threads that call recv_multipart
  Closers,    \* threads that call close
  At,         \* At[t]: the end a receiver or a closer calls
  Messages,   \* arguments _validate accepts
  Malformed,  \* arguments it rejects: [], or a part that is not bytes
  Bytes,      \* Bytes[m]: the payload size _validate returns
  CLOSED,     \* the sentinel _CLOSED
  MaxSize,    \* maxsize of both queues; 0 is unbounded
  SendBudget  \* SendBudget[e]: messages the sender of e may send (a bound of
              \* the model: the code has none)

ASSUME EndsAssumption == \E a, b \in Ends : a # b /\ Ends = {a, b}
ASSUME ThreadsAssumption == At \in [Receivers \cup Closers -> Ends]
ASSUME MessagesAssumption == CLOSED \notin Messages /\ Bytes \in [Messages -> Nat]
ASSUME BoundsAssumption == MaxSize \in Nat /\ SendBudget \in [Ends -> Nat]

VARIABLES
  queue,       \* queue[e]: e._inbox, which is the peer's _outbox
  closed,      \* closed[e]: e._closed
  bytes_sent,  \* e.bytes_sent
  bytes_recv,  \* e.bytes_recv
  snd,         \* snd[e]: the send_multipart call of e's sender
  rcv,         \* rcv[r]: the recv_multipart call of thread r
  cls,         \* cls[c]: where the close call of thread c is
  sent,        \* history: sent[e], what e's sender has put, in order
  taken        \* history: taken[e], what receivers have taken off queue[e]

vars == <<queue, closed, bytes_sent, bytes_recv, snd, rcv, cls, sent, taken>>

Peer(e) == CHOOSE p \in Ends : p # e

SendOutcomes == {"new", "returned", "closed", "timeout", "invalid"}
RecvOutcomes == {"new", "returned", "closed", "timeout"}

\* Fault: maxsize 0 taken literally.
HasRoom_ZeroIsFull(e) == Len(queue[e]) < MaxSize

\* queue.Queue.put finds room; maxsize 0 means there always is.
HasRoom(e) == MaxSize = 0 \/ Len(queue[e]) < MaxSize

Init ==
  /\ queue = [e \in Ends |-> <<>>]
  /\ closed = [e \in Ends |-> FALSE]
  /\ bytes_sent = [e \in Ends |-> 0]
  /\ bytes_recv = [e \in Ends |-> 0]
  /\ snd = [e \in Ends |-> [at |-> "new"]]
  /\ rcv = [r \in Receivers |-> [at |-> "new"]]
  /\ cls = [c \in Closers |-> "idle"]
  /\ sent = [e \in Ends |-> <<>>]
  /\ taken = [e \in Ends |-> <<>>]

(***************************************************************************)
(* send_multipart                                                          *)
(***************************************************************************)

\* The two checks come before anything else, the closed one first.
SendRefused(e) ==
  /\ snd[e].at \in SendOutcomes
  /\ \/ closed[e] /\ snd' = [snd EXCEPT ![e] = [at |-> "closed"]]
     \/ /\ ~closed[e]
        /\ \E parts \in Malformed : snd' = [snd EXCEPT ![e] = [at |-> "invalid"]]
  /\ UNCHANGED <<queue, closed, bytes_sent, bytes_recv, rcv, cls, sent, taken>>

\* Fault: send_multipart does not look at _closed.
SendCall_Unchecked(e) ==
  /\ snd[e].at \in SendOutcomes
  /\ Len(sent[e]) < SendBudget[e]
  /\ \E parts \in Messages, timed \in BOOLEAN :
       snd' = [snd EXCEPT ![e] = [at |-> "put", parts |-> parts, timed |-> timed]]
  /\ UNCHANGED <<queue, closed, bytes_sent, bytes_recv, rcv, cls, sent, taken>>

SendCall(e) ==
  /\ snd[e].at \in SendOutcomes
  /\ Len(sent[e]) < SendBudget[e]
  /\ ~closed[e]
  /\ \E parts \in Messages, timed \in BOOLEAN :
       snd' = [snd EXCEPT ![e] = [at |-> "put", parts |-> parts, timed |-> timed]]
  /\ UNCHANGED <<queue, closed, bytes_sent, bytes_recv, rcv, cls, sent, taken>>

\* self._outbox.put, which does not look at _closed of either end.
SendPut(e) ==
  /\ snd[e].at = "put"
  /\ HasRoom(Peer(e))
  /\ queue' = [queue EXCEPT ![Peer(e)] = Append(@, snd[e].parts)]
  /\ sent' = [sent EXCEPT ![e] = Append(@, snd[e].parts)]
  /\ snd' = [snd EXCEPT ![e] = [at |-> "count", parts |-> snd[e].parts]]
  /\ UNCHANGED <<closed, bytes_sent, bytes_recv, rcv, cls, taken>>

\* Fault: the timeout is not passed on to put.
SendTimeout_Ignored(e) == FALSE

\* Fault: the payload is counted before the put, and a timeout keeps the count.
SendTimeout_Counted(e) ==
  /\ snd[e].at = "put" /\ snd[e].timed
  /\ ~HasRoom(Peer(e))
  /\ bytes_sent' = [bytes_sent EXCEPT ![e] = @ + Bytes[snd[e].parts]]
  /\ snd' = [snd EXCEPT ![e] = [at |-> "timeout"]]
  /\ UNCHANGED <<queue, closed, bytes_recv, rcv, cls, sent, taken>>

\* queue.Full: raised only if the queue is full when the time is up.
SendTimeout(e) ==
  /\ snd[e].at = "put" /\ snd[e].timed
  /\ ~HasRoom(Peer(e))
  /\ snd' = [snd EXCEPT ![e] = [at |-> "timeout"]]
  /\ UNCHANGED <<queue, closed, bytes_sent, bytes_recv, rcv, cls, sent, taken>>

SendCount(e) ==
  /\ snd[e].at = "count"
  /\ bytes_sent' = [bytes_sent EXCEPT ![e] = @ + Bytes[snd[e].parts]]
  /\ snd' = [snd EXCEPT ![e] = [at |-> "returned"]]
  /\ UNCHANGED <<queue, closed, bytes_recv, rcv, cls, sent, taken>>

(***************************************************************************)
(* recv_multipart                                                          *)
(***************************************************************************)

RecvCall(r) ==
  /\ rcv[r].at \in RecvOutcomes
  /\ IF closed[At[r]]
       THEN rcv' = [rcv EXCEPT ![r] = [at |-> "closed"]]
       ELSE \E timed \in BOOLEAN :
              rcv' = [rcv EXCEPT ![r] = [at |-> "get", timed |-> timed]]
  /\ UNCHANGED <<queue, closed, bytes_sent, bytes_recv, snd, cls, sent, taken>>

\* Fault: the item is not compared with the sentinel.
RecvTakeMessage_Unchecked(r) ==
  LET e == At[r] IN
  /\ rcv[r].at = "get"
  /\ queue[e] # <<>>
  /\ queue' = [queue EXCEPT ![e] = Tail(@)]
  /\ taken' = [taken EXCEPT ![e] = Append(@, Head(queue[e]))]
  /\ rcv' = [rcv EXCEPT ![r] = [at |-> "got", parts |-> Head(queue[e])]]
  /\ UNCHANGED <<closed, bytes_sent, bytes_recv, snd, cls, sent>>

RecvTakeMessage(r) ==
  LET e == At[r] IN
  /\ rcv[r].at = "get"
  /\ queue[e] # <<>> /\ Head(queue[e]) # CLOSED
  /\ queue' = [queue EXCEPT ![e] = Tail(@)]
  /\ taken' = [taken EXCEPT ![e] = Append(@, Head(queue[e]))]
  /\ rcv' = [rcv EXCEPT ![r] = [at |-> "got", parts |-> Head(queue[e])]]
  /\ UNCHANGED <<closed, bytes_sent, bytes_recv, snd, cls, sent>>

\* Fault: the inbox of a closed end is thrown away.
RecvTakeSentinel_Drains(r) ==
  LET e == At[r] IN
  /\ rcv[r].at = "get"
  /\ queue[e] # <<>> /\ Head(queue[e]) = CLOSED
  /\ queue' = [queue EXCEPT ![e] = <<>>]
  /\ rcv' = [rcv EXCEPT ![r] = [at |-> "putback", timed |-> rcv[r].timed]]
  /\ UNCHANGED <<closed, bytes_sent, bytes_recv, snd, cls, sent, taken>>

RecvTakeSentinel(r) ==
  LET e == At[r] IN
  /\ rcv[r].at = "get"
  /\ queue[e] # <<>> /\ Head(queue[e]) = CLOSED
  /\ queue' = [queue EXCEPT ![e] = Tail(@)]
  /\ rcv' = [rcv EXCEPT ![r] = [at |-> "putback", timed |-> rcv[r].timed]]
  /\ UNCHANGED <<closed, bytes_sent, bytes_recv, snd, cls, sent, taken>>

\* Fault: the timeout is not passed on to get.
RecvTimeout_Ignored(r) == FALSE

\* Fault: a receive gives up without a last look at the queue.
RecvTimeout_Early(r) ==
  /\ rcv[r].at = "get" /\ rcv[r].timed
  /\ rcv' = [rcv EXCEPT ![r] = [at |-> "timeout"]]
  /\ UNCHANGED <<queue, closed, bytes_sent, bytes_recv, snd, cls, sent, taken>>

\* queue.Empty: raised only if the queue is empty when the time is up.
RecvTimeout(r) ==
  /\ rcv[r].at = "get" /\ rcv[r].timed
  /\ queue[At[r]] = <<>>
  /\ rcv' = [rcv EXCEPT ![r] = [at |-> "timeout"]]
  /\ UNCHANGED <<queue, closed, bytes_sent, bytes_recv, snd, cls, sent, taken>>

\* Fault: the sentinel is swallowed by the first waiter.
RecvPutBack_Forgotten(r) ==
  /\ rcv[r].at = "putback"
  /\ rcv' = [rcv EXCEPT ![r] = [at |-> "closed"]]
  /\ UNCHANGED <<queue, closed, bytes_sent, bytes_recv, snd, cls, sent, taken>>

\* The sentinel goes back for the next waiter.  This put has no timeout.
RecvPutBack(r) ==
  /\ rcv[r].at = "putback"
  /\ HasRoom(At[r])
  /\ queue' = [queue EXCEPT ![At[r]] = Append(@, CLOSED)]
  /\ rcv' = [rcv EXCEPT ![r] = [at |-> "closed"]]
  /\ UNCHANGED <<closed, bytes_sent, bytes_recv, snd, cls, sent, taken>>

\* self.bytes_recv += sum(...): the attribute is read before the sum, written
\* after it, and another receiver of this end may run in between.
RecvLoad(r) ==
  /\ rcv[r].at = "got"
  /\ rcv' = [rcv EXCEPT ![r] =
       [at |-> "add", parts |-> rcv[r].parts, seen |-> bytes_recv[At[r]]]]
  /\ UNCHANGED <<queue, closed, bytes_sent, bytes_recv, snd, cls, sent, taken>>

RecvStore(r) ==
  /\ rcv[r].at = "add"
  /\ bytes_recv' = [bytes_recv EXCEPT ![At[r]] = rcv[r].seen + Bytes[rcv[r].parts]]
  /\ rcv' = [rcv EXCEPT ![r] = [at |-> "returned"]]
  /\ UNCHANGED <<queue, closed, bytes_sent, snd, cls, sent, taken>>

(***************************************************************************)
(* close                                                                   *)
(***************************************************************************)

\* Fault: the sentinel is enqueued before, or without, marking the end closed.
CloseCall_WakeFirst(c) ==
  /\ cls[c] = "idle"
  /\ ~closed[At[c]]
  /\ cls' = [cls EXCEPT ![c] = "wake"]
  /\ UNCHANGED <<queue, closed, bytes_sent, bytes_recv, snd, rcv, sent, taken>>

\* if self._closed: return.  The early return changes nothing, so a second
\* close is a stuttering step.
CloseCall(c) ==
  /\ cls[c] = "idle"
  /\ ~closed[At[c]]
  /\ cls' = [cls EXCEPT ![c] = "mark"]
  /\ UNCHANGED <<queue, closed, bytes_sent, bytes_recv, snd, rcv, sent, taken>>

CloseMark(c) ==
  /\ cls[c] = "mark"
  /\ closed' = [closed EXCEPT ![At[c]] = TRUE]
  /\ cls' = [cls EXCEPT ![c] = "wake"]
  /\ UNCHANGED <<queue, bytes_sent, bytes_recv, snd, rcv, sent, taken>>

\* Fault: nobody is woken.
CloseWake_Silent(c) ==
  /\ cls[c] = "wake"
  /\ cls' = [cls EXCEPT ![c] = "idle"]
  /\ UNCHANGED <<queue, closed, bytes_sent, bytes_recv, snd, rcv, sent, taken>>

\* self._inbox.put(_CLOSED), again with no timeout.
CloseWake(c) ==
  /\ cls[c] = "wake"
  /\ HasRoom(At[c])
  /\ queue' = [queue EXCEPT ![At[c]] = Append(@, CLOSED)]
  /\ cls' = [cls EXCEPT ![c] = "idle"]
  /\ UNCHANGED <<closed, bytes_sent, bytes_recv, snd, rcv, sent, taken>>

\* What a call in progress does next.
SendStep(e) == SendPut(e) \/ SendTimeout(e) \/ SendCount(e)
RecvStep(r) ==
  \/ RecvTakeMessage(r) \/ RecvTakeSentinel(r) \/ RecvTimeout(r)
  \/ RecvPutBack(r) \/ RecvLoad(r) \/ RecvStore(r)
CloseStep(c) == CloseMark(c) \/ CloseWake(c)

Next ==
  \/ \E e \in Ends : SendRefused(e) \/ SendCall(e) \/ SendStep(e)
  \/ \E r \in Receivers : RecvCall(r) \/ RecvStep(r)
  \/ \E c \in Closers : CloseCall(c) \/ CloseStep(c)

Spec == Init /\ [][Next]_vars

\* A thread inside a call is scheduled again; that any call is ever made is
\* not assumed.  A blocked put or get is only weakly fair: the queue's
\* condition variable lets a newcomer overtake a waiter.
FairSpec ==
  /\ Spec
  /\ \A e \in Ends : WF_vars(SendStep(e))
  /\ \A r \in Receivers : WF_vars(RecvStep(r))
  /\ \A c \in Closers : WF_vars(CloseStep(c))

(***************************************************************************)
(* Properties                                                              *)
(***************************************************************************)

\* Every variable has its type.
SendCalls ==
  [at : SendOutcomes] \cup [at : {"put"}, parts : Messages, timed : BOOLEAN]
    \cup [at : {"count"}, parts : Messages]
RecvCalls ==
  [at : RecvOutcomes] \cup [at : {"get", "putback"}, timed : BOOLEAN]
    \cup [at : {"got"}, parts : Messages]
    \cup [at : {"add"}, parts : Messages, seen : Nat]
TypeOK ==
  /\ queue \in [Ends -> Seq(Messages \cup {CLOSED})]
  /\ closed \in [Ends -> BOOLEAN]
  /\ bytes_sent \in [Ends -> Nat]
  /\ bytes_recv \in [Ends -> Nat]
  /\ snd \in [Ends -> SendCalls]
  /\ rcv \in [Receivers -> RecvCalls]
  /\ cls \in [Closers -> {"idle", "mark", "wake"}]
  /\ sent \in [Ends -> Seq(Messages)]
  /\ taken \in [Ends -> Seq(Messages)]

\* A sentinel for e exists: in the inbox, or in the hands of a thread that is
\* about to put it there.
SentinelQueued(e) == \E i \in 1..Len(queue[e]) : queue[e][i] = CLOSED
SentinelHeld(e) ==
  \/ \E c \in Closers : At[c] = e /\ cls[c] = "wake"
  \/ \E r \in Receivers : At[r] = e /\ rcv[r].at = "putback"

\* A closed end always has a sentinel on its way to the next waiter, however
\* many waiters already took it: no receiver that passed the check before
\* close() marked the end can miss the wake-up (loopback.py:84-88, 92-97).
WakeUpPending == \A e \in Ends : closed[e] => SentinelQueued(e) \/ SentinelHeld(e)

\* LinkClosed is never raised on an end that is open: a sentinel, and a call
\* that ended with "closed", exist only at a closed end.
OnlyClosedEndsReportClosed ==
  /\ \A e \in Ends : SentinelQueued(e) \/ SentinelHeld(e) \/ snd[e].at = "closed" => closed[e]
  /\ \A r \in Receivers : rcv[r].at = "closed" => closed[At[r]]

\* The messages in an inbox, without the sentinels between them.
WithoutSentinels(s) ==
  LET kept[i \in 0..Len(s)] ==
        IF i = 0 THEN <<>>
        ELSE IF s[i] = CLOSED THEN kept[i - 1] ELSE Append(kept[i - 1], s[i])
  IN kept[Len(s)]
InFlight(e) == WithoutSentinels(queue[e])

\* Messages arrive whole, in the order they were sent, each exactly once: what
\* was put is what was taken followed by what is in flight, whatever sentinels
\* were enqueued, taken and put back in between (base.py:17-20).
InOrderExactlyOnce == \A e \in Ends : sent[e] = taken[Peer(e)] \o InFlight(Peer(e))

Total(ms) == FoldSeq(LAMBDA m, sum : Bytes[m] + sum, 0, ms)
SendUncounted(e) == IF snd[e].at = "count" THEN Bytes[snd[e].parts] ELSE 0
RecvUncounted(e) ==
  MapThenSumSet(LAMBDA r : Bytes[rcv[r].parts],
                {r \in Receivers : At[r] = e /\ rcv[r].at \in {"got", "add"}})

\* Payload bytes are conserved across the pair: up to the one message each
\* side holds uncounted, what an end counts as sent is what its peer counts as
\* received plus what is in flight (base.py:21-22, 81-85).  One receiver per end.
BytesConserved ==
  \A e \in Ends :
    bytes_sent[e] + SendUncounted(e)
      = bytes_recv[Peer(e)] + RecvUncounted(Peer(e)) + Total(InFlight(Peer(e)))

\* With one receiver per end, LoopbackLink is a Link: a sentinel is nothing on
\* the channel, and a receive that took one is a receive still waiting.
CallSeen(c) ==
  CASE c.at = "putback" -> [at |-> "get", timed |-> c.timed]
    [] c.at = "add" -> [at |-> "got", parts |-> c.parts]
    [] OTHER -> c
Contract == INSTANCE Link WITH
  chan <- [e \in Ends |-> InFlight(e)],
  rcv <- [r \in Receivers |-> CallSeen(rcv[r])]
ImplementsLink == Contract!Spec

\* close() wakes every receiver blocked on the end (loopback.py:93), also the
\* second and the third, by passing one sentinel on.
CloseWakesReceivers ==
  \A r \in Receivers :
    rcv[r].at = "get" /\ closed[At[r]] ~> rcv[r].at \in RecvOutcomes

\* A receive with a timeout returns or raises: it is never left blocked
\* (base.py:66-67).
TimedRecvReturns ==
  \A r \in Receivers :
    rcv[r].at = "get" /\ rcv[r].timed ~> rcv[r].at \in RecvOutcomes

\* A send with a timeout returns or raises, even into a full queue nobody reads.
TimedSendReturns ==
  \A e \in Ends :
    snd[e].at = "put" /\ snd[e].timed ~> snd[e].at \in SendOutcomes

\* Backpressure is released: if some receiver of the peer keeps coming back for
\* a message, a send blocked on the full queue gets through (loopback.py:106).
BackpressureReleases ==
  \A e \in Ends :
    (\E r \in Receivers : At[r] = Peer(e) /\ []<>(rcv[r].at = "get"))
      => (snd[e].at = "put" ~> snd[e].at # "put")

\* close() returns (base.py:136: "Idempotent, and safe to call while a peer
\* waits").
CloseReturns == \A c \in Closers : cls[c] # "idle" ~> cls[c] = "idle"

\* A receiver learns that the link was closed at the other end (base.py:58:
\* "use of a link that has been closed, at either end").
PeerLearnsOfClose ==
  \A r \in Receivers :
    rcv[r].at = "get" /\ closed[Peer(At[r])] ~> rcv[r].at \in RecvOutcomes
=============================================================================
