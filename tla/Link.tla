------------------------------- MODULE Link -------------------------------
(***************************************************************************)
(* The contract of link/base.py: what send_multipart, recv_multipart and   *)
(* close promise a caller, with no queue, no sentinel and no locking.      *)
(* A call is an interval.  A send begins, hands its message over (or gives *)
(* up) and returns; a receive begins, takes one whole message (or gives    *)
(* up) and returns.  The record snd[e] or rcv[r] says where a call in      *)
(* progress is, or, at rest, how the last one ended.                       *)
(***************************************************************************)
EXTENDS Integers, Sequences

CONSTANTS
  Ends,       \* the two ends of the link
  Receivers,  \* threads that call recv_multipart
  At,         \* At[r]: the end a receiver calls it on
  Messages,   \* lists of parts that are messages
  Malformed,  \* arguments of send_multipart that are not
  Bytes       \* Bytes[m]: the sum of the part lengths of m

VARIABLES
  chan,       \* chan[e]: messages on their way to e, oldest first
  closed,     \* closed[e]: e has been closed
  bytes_sent, bytes_recv,
  snd,        \* the one sender of each end
  rcv         \* the receivers

vars == <<chan, closed, bytes_sent, bytes_recv, snd, rcv>>

Peer(e) == CHOOSE p \in Ends : p # e

SendOutcomes == {"new", "returned", "closed", "timeout", "invalid"}
RecvOutcomes == {"new", "returned", "closed", "timeout"}

Init ==
  /\ chan = [e \in Ends |-> <<>>]
  /\ closed = [e \in Ends |-> FALSE]
  /\ bytes_sent = [e \in Ends |-> 0]
  /\ bytes_recv = [e \in Ends |-> 0]
  /\ snd = [e \in Ends |-> [at |-> "new"]]
  /\ rcv = [r \in Receivers |-> [at |-> "new"]]

\* A send on a closed link, or of something that is no message, fails at once.
RefuseSend(e) ==
  /\ snd[e].at \in SendOutcomes
  /\ \/ closed[e] /\ snd' = [snd EXCEPT ![e] = [at |-> "closed"]]
     \/ /\ ~closed[e]
        /\ Malformed # {}
        /\ snd' = [snd EXCEPT ![e] = [at |-> "invalid"]]
  /\ UNCHANGED <<chan, closed, bytes_sent, bytes_recv, rcv>>

BeginSend(e) ==
  /\ snd[e].at \in SendOutcomes
  /\ ~closed[e]
  /\ \E m \in Messages, timed \in BOOLEAN :
       snd' = [snd EXCEPT ![e] = [at |-> "put", parts |-> m, timed |-> timed]]
  /\ UNCHANGED <<chan, closed, bytes_sent, bytes_recv, rcv>>

\* The message leaves whole, behind everything this end sent before it.
HandOver(e) ==
  /\ snd[e].at = "put"
  /\ chan' = [chan EXCEPT ![Peer(e)] = Append(@, snd[e].parts)]
  /\ snd' = [snd EXCEPT ![e] = [at |-> "count", parts |-> snd[e].parts]]
  /\ UNCHANGED <<closed, bytes_sent, bytes_recv, rcv>>

\* LinkTimeout: only of a call that has a timeout, and nothing was sent.
GiveUpSend(e) ==
  /\ snd[e].at = "put" /\ snd[e].timed
  /\ snd' = [snd EXCEPT ![e] = [at |-> "timeout"]]
  /\ UNCHANGED <<chan, closed, bytes_sent, bytes_recv, rcv>>

\* By the time the call returns, its payload is counted, exactly once.
ReturnFromSend(e) ==
  /\ snd[e].at = "count"
  /\ bytes_sent' = [bytes_sent EXCEPT ![e] = @ + Bytes[snd[e].parts]]
  /\ snd' = [snd EXCEPT ![e] = [at |-> "returned"]]
  /\ UNCHANGED <<chan, closed, bytes_recv, rcv>>

RefuseRecv(r) ==
  /\ rcv[r].at \in RecvOutcomes
  /\ closed[At[r]]
  /\ rcv' = [rcv EXCEPT ![r] = [at |-> "closed"]]
  /\ UNCHANGED <<chan, closed, bytes_sent, bytes_recv, snd>>

BeginRecv(r) ==
  /\ rcv[r].at \in RecvOutcomes
  /\ ~closed[At[r]]
  /\ \E timed \in BOOLEAN : rcv' = [rcv EXCEPT ![r] = [at |-> "get", timed |-> timed]]
  /\ UNCHANGED <<chan, closed, bytes_sent, bytes_recv, snd>>

\* A message leaves the link exactly when a receive takes it, oldest first.
Deliver(r) ==
  /\ rcv[r].at = "get"
  /\ chan[At[r]] # <<>>
  /\ rcv' = [rcv EXCEPT ![r] = [at |-> "got", parts |-> Head(chan[At[r]])]]
  /\ chan' = [chan EXCEPT ![At[r]] = Tail(@)]
  /\ UNCHANGED <<closed, bytes_sent, bytes_recv, snd>>

\* LinkTimeout if no complete message arrived; LinkClosed if the link was
\* closed while the call waited.  Neither takes anything off the link.
GiveUpRecv(r) ==
  /\ rcv[r].at = "get"
  /\ \/ /\ rcv[r].timed
        /\ chan[At[r]] = <<>>
        /\ rcv' = [rcv EXCEPT ![r] = [at |-> "timeout"]]
     \/ closed[At[r]] /\ rcv' = [rcv EXCEPT ![r] = [at |-> "closed"]]
  /\ UNCHANGED <<chan, closed, bytes_sent, bytes_recv, snd>>

ReturnFromRecv(r) ==
  /\ rcv[r].at = "got"
  /\ bytes_recv' = [bytes_recv EXCEPT ![At[r]] = @ + Bytes[rcv[r].parts]]
  /\ rcv' = [rcv EXCEPT ![r] = [at |-> "returned"]]
  /\ UNCHANGED <<chan, closed, bytes_sent, snd>>

\* An end, once closed, stays closed.
Close(e) ==
  /\ closed' = [closed EXCEPT ![e] = TRUE]
  /\ UNCHANGED <<chan, bytes_sent, bytes_recv, snd, rcv>>

Next ==
  \/ \E e \in Ends :
       RefuseSend(e) \/ BeginSend(e) \/ HandOver(e) \/ GiveUpSend(e)
         \/ ReturnFromSend(e) \/ Close(e)
  \/ \E r \in Receivers :
       RefuseRecv(r) \/ BeginRecv(r) \/ Deliver(r) \/ GiveUpRecv(r)
         \/ ReturnFromRecv(r)

Spec == Init /\ [][Next]_vars
=============================================================================
