------------------------ MODULE LoopbackLink_proofs ------------------------
(***************************************************************************)
(* Theorems about LoopbackLink, for any two ends, any sets of receiving    *)
(* and closing threads, any messages and any queue size.                   *)
(***************************************************************************)
EXTENDS LoopbackLink, NumberLemmas, SequenceTheorems

\* The other end is the other end.
LEMMA PeerIsOther ==
  \A e \in Ends : Peer(e) \in Ends /\ Peer(e) # e /\ Peer(Peer(e)) = e
<1> TAKE e \in Ends
<1>1. PICK a \in Ends, b \in Ends : a # b /\ Ends = {a, b}
  BY EndsAssumption
<1>2. \E p \in Ends : p # e
  BY <1>1
<1>3. Peer(e) \in Ends /\ Peer(e) # e
  BY <1>2 DEF Peer
<1>4. \E p \in Ends : p # Peer(e)
  BY <1>3
<1>5. Peer(Peer(e)) \in Ends /\ Peer(Peer(e)) # Peer(e)
  BY <1>4 DEF Peer
<1> QED
  BY <1>1, <1>3, <1>5

\* What a call in progress carries.
LEMMA SendCallFields ==
  ASSUME TypeOK, NEW e \in Ends
  PROVE  /\ snd[e].at \in {"put", "count"} => snd[e].parts \in Messages
         /\ snd[e].at = "put" => snd[e].timed \in BOOLEAN
<1>1. snd[e] \in SendCalls
  BY DEF TypeOK
<1> QED
  BY <1>1 DEF SendCalls, SendOutcomes

\* What a receiver holds, by where it is in recv.
LEMMA RecvCallFields ==
  ASSUME TypeOK, NEW r \in Receivers
  PROVE  /\ rcv[r].at \in {"got", "add"} => rcv[r].parts \in Messages
         /\ rcv[r].at = "add" => rcv[r].seen \in Nat
         /\ rcv[r].at \in {"get", "putback"} => rcv[r].timed \in BOOLEAN
<1>1. rcv[r] \in RecvCalls
  BY DEF TypeOK
<1> QED
  BY <1>1 DEF RecvCalls, RecvOutcomes

\* Type correctness: whatever the threads do, every attribute and every local
\* of loopback.py keeps its type; in particular no sentinel is ever handed to a
\* caller as a message.
THEOREM TypeCorrect == Spec => []TypeOK
<1>1. Init => TypeOK
  BY BoundsAssumption, MessagesAssumption
  DEF Init, TypeOK, SendCalls, RecvCalls, SendOutcomes, RecvOutcomes
<1>2. TypeOK /\ [Next]_vars => TypeOK'
  <2> SUFFICES ASSUME TypeOK, [Next]_vars PROVE TypeOK'
    OBVIOUS
  <2> USE MessagesAssumption, ThreadsAssumption, PeerIsOther
  <2>1. ASSUME NEW e \in Ends, SendRefused(e) PROVE TypeOK'
    <3>1. snd' \in [Ends -> SendCalls]
      <4>1. PICK o \in SendOutcomes : snd' = [snd EXCEPT ![e] = [at |-> o]]
        BY <2>1 DEF SendRefused, SendOutcomes
      <4> QED
        BY <4>1 DEF TypeOK, SendCalls
    <3> QED
      BY <2>1, <3>1 DEF SendRefused, TypeOK
  <2>2. ASSUME NEW e \in Ends, SendCall(e) PROVE TypeOK'
    BY <2>2 DEF SendCall, TypeOK, SendCalls
  <2>3. ASSUME NEW e \in Ends, SendPut(e) PROVE TypeOK'
    <3>1. snd[e].parts \in Messages
      BY <2>3, SendCallFields DEF SendPut
    <3>2. queue' \in [Ends -> Seq(Messages \cup {CLOSED})]
      BY <2>3, <3>1 DEF SendPut, TypeOK
    <3>3. sent' \in [Ends -> Seq(Messages)]
      BY <2>3, <3>1 DEF SendPut, TypeOK
    <3>4. snd' \in [Ends -> SendCalls]
      BY <2>3, <3>1 DEF SendPut, TypeOK, SendCalls
    <3> QED
      BY <2>3, <3>2, <3>3, <3>4 DEF SendPut, TypeOK
  <2>4. ASSUME NEW e \in Ends, SendTimeout(e) PROVE TypeOK'
    BY <2>4 DEF SendTimeout, TypeOK, SendCalls, SendOutcomes
  <2>5. ASSUME NEW e \in Ends, SendCount(e) PROVE TypeOK'
    <3>1. snd[e].parts \in Messages
      BY <2>5, SendCallFields DEF SendCount
    <3>2. bytes_sent' \in [Ends -> Nat]
      BY <2>5, <3>1 DEF SendCount, TypeOK
    <3> QED
      BY <2>5, <3>2 DEF SendCount, TypeOK, SendCalls, SendOutcomes
  <2>6. ASSUME NEW r \in Receivers, RecvCall(r) PROVE TypeOK'
    <3>1. CASE closed[At[r]]
      <4>1. rcv' = [rcv EXCEPT ![r] = [at |-> "closed"]]
        BY <2>6, <3>1 DEF RecvCall
      <4> QED
        BY <2>6, <4>1 DEF RecvCall, TypeOK, RecvCalls, RecvOutcomes
    <3>2. CASE ~closed[At[r]]
      <4>1. PICK timed \in BOOLEAN :
              rcv' = [rcv EXCEPT ![r] = [at |-> "get", timed |-> timed]]
        BY <2>6, <3>2 DEF RecvCall
      <4> QED
        BY <2>6, <4>1 DEF RecvCall, TypeOK, RecvCalls
    <3> QED
      BY <3>1, <3>2
  <2>7. ASSUME NEW r \in Receivers, RecvTakeMessage(r) PROVE TypeOK'
    <3> DEFINE e == At[r]
    <3>1. /\ e \in Ends
          /\ queue[e] \in Seq(Messages \cup {CLOSED})
          /\ queue[e] # <<>>
          /\ taken[e] \in Seq(Messages)
      BY <2>7 DEF RecvTakeMessage, TypeOK
    <3>2. Head(queue[e]) \in Messages /\ Tail(queue[e]) \in Seq(Messages \cup {CLOSED})
      BY <2>7, <3>1 DEF RecvTakeMessage
    <3>3. rcv' \in [Receivers -> RecvCalls]
      BY <2>7, <3>2 DEF RecvTakeMessage, TypeOK, RecvCalls
    <3>4. queue' \in [Ends -> Seq(Messages \cup {CLOSED})]
      BY <2>7, <3>1, <3>2 DEF RecvTakeMessage, TypeOK
    <3>5. taken' \in [Ends -> Seq(Messages)]
      BY <2>7, <3>1, <3>2 DEF RecvTakeMessage, TypeOK
    <3> QED
      BY <2>7, <3>3, <3>4, <3>5 DEF RecvTakeMessage, TypeOK
  <2>8. ASSUME NEW r \in Receivers, RecvTakeSentinel(r) PROVE TypeOK'
    <3> DEFINE e == At[r]
    <3>1. /\ e \in Ends
          /\ queue[e] \in Seq(Messages \cup {CLOSED})
          /\ queue[e] # <<>>
      BY <2>8 DEF RecvTakeSentinel, TypeOK
    <3>2. Tail(queue[e]) \in Seq(Messages \cup {CLOSED})
      BY <3>1
    <3>3. rcv' \in [Receivers -> RecvCalls]
      BY <2>8, RecvCallFields DEF RecvTakeSentinel, TypeOK, RecvCalls
    <3>4. queue' \in [Ends -> Seq(Messages \cup {CLOSED})]
      BY <2>8, <3>1, <3>2 DEF RecvTakeSentinel, TypeOK
    <3> QED
      BY <2>8, <3>3, <3>4 DEF RecvTakeSentinel, TypeOK
  <2>9. ASSUME NEW r \in Receivers, RecvTimeout(r) PROVE TypeOK'
    BY <2>9 DEF RecvTimeout, TypeOK, RecvCalls, RecvOutcomes
  <2>10. ASSUME NEW r \in Receivers, RecvPutBack(r) PROVE TypeOK'
    <3>1. At[r] \in Ends /\ queue[At[r]] \in Seq(Messages \cup {CLOSED})
      BY DEF TypeOK
    <3>2. queue' \in [Ends -> Seq(Messages \cup {CLOSED})]
      BY <2>10, <3>1 DEF RecvPutBack, TypeOK
    <3> QED
      BY <2>10, <3>2 DEF RecvPutBack, TypeOK, RecvCalls, RecvOutcomes
  <2>11. ASSUME NEW r \in Receivers, RecvLoad(r) PROVE TypeOK'
    <3>1. rcv[r].parts \in Messages /\ bytes_recv[At[r]] \in Nat
      BY <2>11, RecvCallFields DEF RecvLoad, TypeOK
    <3> QED
      BY <2>11, <3>1 DEF RecvLoad, TypeOK, RecvCalls
  <2>12. ASSUME NEW r \in Receivers, RecvStore(r) PROVE TypeOK'
    <3>1. rcv[r].parts \in Messages /\ rcv[r].seen \in Nat /\ At[r] \in Ends
      BY <2>12, RecvCallFields DEF RecvStore
    <3>2. bytes_recv' \in [Ends -> Nat]
      BY <2>12, <3>1 DEF RecvStore, TypeOK
    <3> QED
      BY <2>12, <3>2 DEF RecvStore, TypeOK, RecvCalls, RecvOutcomes
  <2>13. ASSUME NEW c \in Closers, CloseCall(c) PROVE TypeOK'
    BY <2>13 DEF CloseCall, TypeOK
  <2>14. ASSUME NEW c \in Closers, CloseMark(c) PROVE TypeOK'
    BY <2>14 DEF CloseMark, TypeOK
  <2>15. ASSUME NEW c \in Closers, CloseWake(c) PROVE TypeOK'
    <3>1. At[c] \in Ends /\ queue[At[c]] \in Seq(Messages \cup {CLOSED})
      BY DEF TypeOK
    <3>2. queue' \in [Ends -> Seq(Messages \cup {CLOSED})]
      BY <2>15, <3>1 DEF CloseWake, TypeOK
    <3> QED
      BY <2>15, <3>2 DEF CloseWake, TypeOK
  <2>16. CASE UNCHANGED vars
    BY <2>16 DEF vars, TypeOK
  <2> QED
    BY <2>1, <2>2, <2>3, <2>4, <2>5, <2>6, <2>7, <2>8, <2>9, <2>10, <2>11,
       <2>12, <2>13, <2>14, <2>15, <2>16
    DEF Next, SendStep, RecvStep, CloseStep
<1> QED
  BY <1>1, <1>2, PTL DEF Spec
(***************************************************************************)
(* The sentinel                                                            *)
(***************************************************************************)
HasSentinel(s) == \E i \in 1..Len(s) : s[i] = CLOSED

\* A put adds a sentinel exactly when it puts one.
LEMMA AppendSentinel ==
  ASSUME NEW s \in Seq(Messages \cup {CLOSED}), NEW x \in Messages \cup {CLOSED}
  PROVE  HasSentinel(Append(s, x)) <=> HasSentinel(s) \/ x = CLOSED
<1>1. /\ Len(Append(s, x)) = Len(s) + 1
      /\ \A i \in 1..Len(s) : Append(s, x)[i] = s[i]
      /\ Append(s, x)[Len(s) + 1] = x
  BY AppendProperties
<1>2. Len(s) \in Nat
  BY LenProperties
<1> QED
  BY <1>1, <1>2 DEF HasSentinel

\* A get takes a sentinel away exactly when it takes one.
LEMMA TailSentinel ==
  ASSUME NEW s \in Seq(Messages \cup {CLOSED}), s # <<>>
  PROVE  HasSentinel(s) <=> Head(s) = CLOSED \/ HasSentinel(Tail(s))
<1>1. /\ Head(s) = s[1]
      /\ Len(Tail(s)) = Len(s) - 1
      /\ \A i \in 1..Len(Tail(s)) : Tail(s)[i] = s[i + 1]
  BY HeadTailProperties
<1>2. Len(s) \in Nat /\ Len(s) >= 1
  BY LenProperties, EmptySeq
<1>3. ASSUME HasSentinel(s) PROVE Head(s) = CLOSED \/ HasSentinel(Tail(s))
  <2>1. PICK i \in 1..Len(s) : s[i] = CLOSED
    BY <1>3 DEF HasSentinel
  <2>2. CASE i = 1
    BY <2>1, <2>2, <1>1
  <2>3. CASE i # 1
    <3>1. i - 1 \in 1..Len(Tail(s)) /\ Tail(s)[i - 1] = s[(i - 1) + 1] /\ (i - 1) + 1 = i
      BY <2>3, <1>1, <1>2
    <3> QED
      BY <3>1, <2>1 DEF HasSentinel
  <2> QED
    BY <2>2, <2>3
<1>4. ASSUME HasSentinel(Tail(s)) PROVE HasSentinel(s)
  BY <1>4, <1>1, <1>2 DEF HasSentinel
<1>5. ASSUME Head(s) = CLOSED PROVE HasSentinel(s)
  BY <1>5, <1>1, <1>2 DEF HasSentinel
<1> QED
  BY <1>3, <1>4, <1>5

SentinelInv == WakeUpPending /\ OnlyClosedEndsReportClosed

\* A step that neither moves a sentinel nor closes an end keeps the invariant.
LEMMA QuietStep ==
  ASSUME TypeOK, SentinelInv,
         UNCHANGED closed,
         \A e \in Ends : HasSentinel(queue'[e]) <=> HasSentinel(queue[e]),
         \A c \in Closers : cls'[c] = "wake" <=> cls[c] = "wake",
         \A r \in Receivers : rcv'[r].at = "putback" <=> rcv[r].at = "putback",
         \A r \in Receivers : rcv'[r].at = "closed" => rcv[r].at = "closed" \/ closed[At[r]],
         \A e \in Ends : snd'[e].at = "closed" => snd[e].at = "closed" \/ closed[e]
  PROVE  SentinelInv'
<1>1. \A e \in Ends : SentinelQueued(e)' <=> SentinelQueued(e)
  BY DEF SentinelQueued, HasSentinel
<1>2. \A e \in Ends : SentinelHeld(e)' <=> SentinelHeld(e)
  BY DEF SentinelHeld
<1>3. WakeUpPending'
  BY <1>1, <1>2 DEF SentinelInv, WakeUpPending
<1>4. OnlyClosedEndsReportClosed'
  BY <1>1, <1>2 DEF SentinelInv, OnlyClosedEndsReportClosed
<1> QED
  BY <1>3, <1>4 DEF SentinelInv

\* Every step keeps the invariant.
LEMMA SentinelStep == TypeOK /\ SentinelInv /\ [Next]_vars => SentinelInv'
<1> SUFFICES ASSUME TypeOK, SentinelInv, [Next]_vars PROVE SentinelInv'
  OBVIOUS
<1> USE MessagesAssumption, ThreadsAssumption, PeerIsOther
<1>1. ASSUME NEW e \in Ends, SendRefused(e) PROVE SentinelInv'
  <2>1. /\ UNCHANGED <<queue, closed, rcv, cls>>
        /\ snd'[e].at = "closed" => closed[e]
        /\ \A x \in Ends : x # e => snd'[x] = snd[x]
    BY <1>1 DEF SendRefused, TypeOK
  <2> QED
    BY <2>1, QuietStep
<1>2. ASSUME NEW e \in Ends, SendCall(e) PROVE SentinelInv'
  BY <1>2, QuietStep DEF SendCall, TypeOK
<1>3. ASSUME NEW e \in Ends, SendPut(e) PROVE SentinelInv'
  <2>1. snd[e].parts \in Messages /\ Peer(e) \in Ends
    BY <1>3, SendCallFields DEF SendPut
  <2>2. HasSentinel(queue'[Peer(e)]) <=> HasSentinel(queue[Peer(e)])
    <3>1. queue'[Peer(e)] = Append(queue[Peer(e)], snd[e].parts)
      BY <1>3, <2>1 DEF SendPut, TypeOK
    <3>2. queue[Peer(e)] \in Seq(Messages \cup {CLOSED})
      BY <2>1 DEF TypeOK
    <3> QED
      BY <2>1, <3>1, <3>2, AppendSentinel
  <2>3. \A x \in Ends : HasSentinel(queue'[x]) <=> HasSentinel(queue[x])
    BY <1>3, <2>1, <2>2 DEF SendPut, TypeOK
  <2> QED
    BY <1>3, <2>3, QuietStep DEF SendPut, TypeOK
<1>4. ASSUME NEW e \in Ends, SendTimeout(e) PROVE SentinelInv'
  BY <1>4, QuietStep DEF SendTimeout, TypeOK
<1>5. ASSUME NEW e \in Ends, SendCount(e) PROVE SentinelInv'
  BY <1>5, QuietStep DEF SendCount, TypeOK
<1>6. ASSUME NEW r \in Receivers, RecvCall(r) PROVE SentinelInv'
  <2>1. /\ rcv[r].at # "putback"
        /\ rcv'[r].at # "putback"
        /\ rcv'[r].at = "closed" => closed[At[r]]
        /\ \A q \in Receivers : q # r => rcv'[q] = rcv[q]
    <3>1. CASE closed[At[r]]
      BY <1>6, <3>1 DEF RecvCall, RecvOutcomes, TypeOK
    <3>2. CASE ~closed[At[r]]
      <4>1. PICK timed \in BOOLEAN :
              rcv' = [rcv EXCEPT ![r] = [at |-> "get", timed |-> timed]]
        BY <1>6, <3>2 DEF RecvCall
      <4> QED
        BY <1>6, <4>1 DEF RecvCall, RecvOutcomes, TypeOK
    <3> QED
      BY <3>1, <3>2
  <2>2. UNCHANGED <<queue, closed, snd, cls>>
    BY <1>6 DEF RecvCall
  <2> QED
    BY <2>1, <2>2, QuietStep
<1>7. ASSUME NEW r \in Receivers, RecvTakeMessage(r) PROVE SentinelInv'
  <2>1. /\ At[r] \in Ends
        /\ queue[At[r]] \in Seq(Messages \cup {CLOSED})
        /\ queue[At[r]] # <<>>
        /\ Head(queue[At[r]]) # CLOSED
    BY <1>7 DEF RecvTakeMessage, TypeOK
  <2>2. HasSentinel(Tail(queue[At[r]])) <=> HasSentinel(queue[At[r]])
    BY <2>1, TailSentinel
  <2>3. \A x \in Ends : HasSentinel(queue'[x]) <=> HasSentinel(queue[x])
    BY <1>7, <2>1, <2>2 DEF RecvTakeMessage, TypeOK
  <2> QED
    BY <1>7, <2>3, QuietStep DEF RecvTakeMessage, TypeOK
<1>8. ASSUME NEW r \in Receivers, RecvTakeSentinel(r) PROVE SentinelInv'
  <2>1. /\ At[r] \in Ends
        /\ queue[At[r]] \in Seq(Messages \cup {CLOSED})
        /\ queue[At[r]] # <<>>
        /\ Head(queue[At[r]]) = CLOSED
    BY <1>8 DEF RecvTakeSentinel, TypeOK
  <2>2. HasSentinel(queue[At[r]])
    BY <2>1, TailSentinel
  <2>3. closed[At[r]]
    BY <2>1, <2>2 DEF SentinelInv, OnlyClosedEndsReportClosed, SentinelQueued, HasSentinel
  <2>4. \A x \in Ends : x # At[r] => queue'[x] = queue[x]
    BY <1>8, <2>1 DEF RecvTakeSentinel, TypeOK
  <2>5. /\ rcv'[r].at = "putback"
        /\ \A q \in Receivers : q # r => rcv'[q] = rcv[q]
        /\ UNCHANGED <<closed, snd, cls>>
    BY <1>8 DEF RecvTakeSentinel, TypeOK
  <2>6. \A x \in Ends : x # At[r] =>
          /\ SentinelQueued(x)' <=> SentinelQueued(x)
          /\ SentinelHeld(x)' <=> SentinelHeld(x)
    BY <2>4, <2>5 DEF SentinelQueued, SentinelHeld
  <2>7. SentinelHeld(At[r])'
    BY <2>5 DEF SentinelHeld
  <2>8. WakeUpPending'
    BY <2>5, <2>6, <2>7 DEF SentinelInv, WakeUpPending
  <2>9. OnlyClosedEndsReportClosed'
    BY <2>3, <2>5, <2>6 DEF SentinelInv, OnlyClosedEndsReportClosed
  <2> QED
    BY <2>8, <2>9 DEF SentinelInv
<1>9. ASSUME NEW r \in Receivers, RecvTimeout(r) PROVE SentinelInv'
  BY <1>9, QuietStep DEF RecvTimeout, TypeOK
<1>10. ASSUME NEW r \in Receivers, RecvPutBack(r) PROVE SentinelInv'
  <2>1. At[r] \in Ends /\ queue[At[r]] \in Seq(Messages \cup {CLOSED})
    BY DEF TypeOK
  <2>2. queue'[At[r]] = Append(queue[At[r]], CLOSED)
    BY <1>10, <2>1 DEF RecvPutBack, TypeOK
  <2>3. HasSentinel(queue'[At[r]])
    BY <2>1, <2>2, AppendSentinel
  <2>4. closed[At[r]]
    BY <1>10, <2>1
    DEF RecvPutBack, SentinelInv, OnlyClosedEndsReportClosed, SentinelHeld
  <2>5. \A x \in Ends : x # At[r] => queue'[x] = queue[x]
    BY <1>10, <2>1 DEF RecvPutBack, TypeOK
  <2>6. /\ rcv'[r].at = "closed"
        /\ \A q \in Receivers : q # r => rcv'[q] = rcv[q]
        /\ UNCHANGED <<closed, snd, cls>>
    BY <1>10 DEF RecvPutBack, TypeOK
  <2>7. \A x \in Ends : x # At[r] =>
          /\ SentinelQueued(x)' <=> SentinelQueued(x)
          /\ SentinelHeld(x)' <=> SentinelHeld(x)
    BY <2>5, <2>6 DEF SentinelQueued, SentinelHeld
  <2>8. SentinelQueued(At[r])'
    BY <2>3 DEF SentinelQueued, HasSentinel
  <2>9. WakeUpPending'
    BY <2>6, <2>7, <2>8 DEF SentinelInv, WakeUpPending
  <2>10. OnlyClosedEndsReportClosed'
    BY <2>4, <2>6, <2>7 DEF SentinelInv, OnlyClosedEndsReportClosed
  <2> QED
    BY <2>9, <2>10 DEF SentinelInv
<1>11. ASSUME NEW r \in Receivers, RecvLoad(r) PROVE SentinelInv'
  BY <1>11, QuietStep DEF RecvLoad, TypeOK
<1>12. ASSUME NEW r \in Receivers, RecvStore(r) PROVE SentinelInv'
  BY <1>12, QuietStep DEF RecvStore, TypeOK
<1>13. ASSUME NEW c \in Closers, CloseCall(c) PROVE SentinelInv'
  BY <1>13, QuietStep DEF CloseCall, TypeOK
<1>14. ASSUME NEW c \in Closers, CloseMark(c) PROVE SentinelInv'
  <2>1. /\ At[c] \in Ends
        /\ closed'[At[c]]
        /\ \A x \in Ends : x # At[c] => closed'[x] = closed[x]
        /\ \A x \in Ends : closed[x] => closed'[x]
        /\ cls'[c] = "wake"
        /\ \A d \in Closers : d # c => cls'[d] = cls[d]
        /\ UNCHANGED <<queue, rcv, snd>>
    BY <1>14 DEF CloseMark, TypeOK
  <2>2. \A x \in Ends : SentinelQueued(x)' <=> SentinelQueued(x)
    BY <2>1 DEF SentinelQueued
  <2>3. \A x \in Ends : x # At[c] => (SentinelHeld(x)' <=> SentinelHeld(x))
    BY <2>1 DEF SentinelHeld
  <2>4. SentinelHeld(At[c])'
    BY <2>1 DEF SentinelHeld
  <2>5. WakeUpPending'
    BY <2>1, <2>2, <2>3, <2>4 DEF SentinelInv, WakeUpPending
  <2>6. OnlyClosedEndsReportClosed'
    BY <2>1, <2>2, <2>3 DEF SentinelInv, OnlyClosedEndsReportClosed
  <2> QED
    BY <2>5, <2>6 DEF SentinelInv
<1>15. ASSUME NEW c \in Closers, CloseWake(c) PROVE SentinelInv'
  <2>1. At[c] \in Ends /\ queue[At[c]] \in Seq(Messages \cup {CLOSED})
    BY DEF TypeOK
  <2>2. queue'[At[c]] = Append(queue[At[c]], CLOSED)
    BY <1>15, <2>1 DEF CloseWake, TypeOK
  <2>3. HasSentinel(queue'[At[c]])
    BY <2>1, <2>2, AppendSentinel
  <2>4. closed[At[c]]
    BY <1>15, <2>1
    DEF CloseWake, SentinelInv, OnlyClosedEndsReportClosed, SentinelHeld
  <2>5. /\ \A x \in Ends : x # At[c] => queue'[x] = queue[x]
        /\ cls'[c] = "idle"
        /\ \A d \in Closers : d # c => cls'[d] = cls[d]
        /\ cls[c] = "wake"
        /\ UNCHANGED <<closed, snd, rcv>>
    BY <1>15, <2>1 DEF CloseWake, TypeOK
  <2>6. \A x \in Ends : x # At[c] =>
          /\ SentinelQueued(x)' <=> SentinelQueued(x)
          /\ SentinelHeld(x)' <=> SentinelHeld(x)
    BY <2>5 DEF SentinelQueued, SentinelHeld
  <2>7. SentinelQueued(At[c])'
    BY <2>3 DEF SentinelQueued, HasSentinel
  <2>8. WakeUpPending'
    BY <2>5, <2>6, <2>7 DEF SentinelInv, WakeUpPending
  <2>9. OnlyClosedEndsReportClosed'
    BY <2>4, <2>5, <2>6 DEF SentinelInv, OnlyClosedEndsReportClosed
  <2> QED
    BY <2>8, <2>9 DEF SentinelInv
<1>16. CASE UNCHANGED vars
  BY <1>16, QuietStep DEF vars
<1> QED
  BY <1>1, <1>2, <1>3, <1>4, <1>5, <1>6, <1>7, <1>8, <1>9, <1>10, <1>11,
     <1>12, <1>13, <1>14, <1>15, <1>16
  DEF Next, SendStep, RecvStep, CloseStep

\* The sentinel invariant as a whole: what is inductive (with TypeOK) is that a
\* sentinel exists exactly where the end is closed.
THEOREM SentinelInvariant == Spec => []SentinelInv
<1>1. Init => SentinelInv
  <2> SUFFICES ASSUME Init PROVE SentinelInv
    OBVIOUS
  <2>1. \A e \in Ends : ~SentinelQueued(e) /\ ~SentinelHeld(e)
    BY EmptySeq DEF Init, SentinelQueued, SentinelHeld
  <2> QED
    BY <2>1, ThreadsAssumption
    DEF Init, SentinelInv, WakeUpPending, OnlyClosedEndsReportClosed
<1> QED
  BY <1>1, SentinelStep, TypeCorrect, PTL DEF Spec

\* No wake-up is lost: a closed end always has a sentinel queued, or held by a
\* thread about to queue it, whatever the waiters, the closers and the peer do.
THEOREM NoLostWakeUp == Spec => []WakeUpPending
<1>1. SentinelInv => WakeUpPending
  BY DEF SentinelInv
<1> QED
  BY <1>1, SentinelInvariant, PTL

\* LinkClosed is truthful: no call on an open end ends with it.
THEOREM ClosedIsTruthful == Spec => []OnlyClosedEndsReportClosed
<1>1. SentinelInv => OnlyClosedEndsReportClosed
  BY DEF SentinelInv
<1> QED
  BY <1>1, SentinelInvariant, PTL


(***************************************************************************)
(* What WithoutSentinels computes: its recursion has a solution, and what  *)
(* it returns for Append(s, x) and for Tail(s).                            *)
(***************************************************************************)
Items == Messages \cup {CLOSED}

\* kept is the prefix function of the recursion, up to position n of s.
IsKept(kept, s, n) ==
  kept = [i \in 0..n |-> IF i = 0 THEN <<>>
                         ELSE IF s[i] = CLOSED THEN kept[i - 1]
                         ELSE Append(kept[i - 1], s[i])]

\* The function that defines WithoutSentinels exists.
LEMMA KeptExists ==
  ASSUME NEW s \in Seq(Items), NEW n \in Nat
  PROVE  \E kept : IsKept(kept, s, n)
<1> DEFINE T == {k \in Nat : ~ \E kept : IsKept(kept, s, k)}
<1>1. SUFFICES ASSUME T # {} PROVE FALSE
  BY <1>1
<1>2. PICK k \in T : \A m \in T : k <= m
  BY <1>1, LeastElement
<1>3. CASE k = 0
  <2> DEFINE kept == [i \in 0..0 |-> <<>>]
  <2>1. IsKept(kept, s, 0)
    BY DEF IsKept
  <2> QED
    BY <1>2, <1>3, <2>1
<1>4. CASE k # 0
  <2>1. k - 1 \in Nat /\ k - 1 \notin T
    BY <1>2, <1>4
  <2>2. PICK g : IsKept(g, s, k - 1)
    BY <2>1
  <2> DEFINE kept == [i \in 0..k |->
                        IF i < k THEN g[i]
                        ELSE IF s[k] = CLOSED THEN g[k - 1] ELSE Append(g[k - 1], s[k])]
  <2>3. ASSUME NEW i \in 0..k
        PROVE  kept[i] = IF i = 0 THEN <<>>
                         ELSE IF s[i] = CLOSED THEN kept[i - 1]
                         ELSE Append(kept[i - 1], s[i])
    <3>1. CASE i < k
      <4>1. i \in 0..(k - 1) /\ kept[i] = g[i] /\ (i # 0 => kept[i - 1] = g[i - 1])
        BY <3>1, <2>1
      <4> QED
        BY <4>1, <2>2 DEF IsKept
    <3>2. CASE i = k
      <4>1. kept[i - 1] = g[i - 1]
        BY <3>2, <1>4, <2>1
      <4> QED
        BY <4>1, <3>2, <1>4
    <3> QED
      BY <3>1, <3>2, <1>2
  <2>4. IsKept(kept, s, k)
    <3> HIDE DEF kept
    <3>1. kept = [i \in 0..k |-> kept[i]]
      BY DEF kept
    <3> QED
      BY <2>3, <3>1 DEF IsKept
  <2> QED
    BY <1>2, <2>4
<1> QED
  BY <1>3, <1>4

\* The solution is unique, and a prefix of s has the prefix of the solution.
LEMMA KeptUnique ==
  ASSUME NEW s, NEW t, NEW n \in Nat, NEW m \in Nat, n <= m,
         \A i \in 1..n : s[i] = t[i],
         NEW f, IsKept(f, s, n), NEW g, IsKept(g, t, m)
  PROVE  \A i \in 0..n : f[i] = g[i]
<1> DEFINE T == {i \in 0..n : f[i] # g[i]}
<1> SUFFICES ASSUME T # {} PROVE FALSE
  OBVIOUS
<1>1. PICK k \in T : \A i \in T : k <= i
  <2>1. T \in SUBSET Nat
    OBVIOUS
  <2> HIDE DEF T
  <2> QED
    BY <2>1, LeastElement
<1>2. k \in 0..n /\ k \in 0..m /\ f[k] # g[k]
  BY <1>1
<1>3. k # 0
  BY <1>2 DEF IsKept
<1>4. k - 1 \in 0..n /\ k - 1 \notin T
  BY <1>1, <1>2, <1>3
<1>5. f[k - 1] = g[k - 1] /\ s[k] = t[k]
  BY <1>2, <1>3, <1>4
<1>6. /\ f[k] = IF s[k] = CLOSED THEN f[k - 1] ELSE Append(f[k - 1], s[k])
      /\ g[k] = IF t[k] = CLOSED THEN g[k - 1] ELSE Append(g[k - 1], t[k])
  BY <1>2, <1>3 DEF IsKept
<1> QED
  BY <1>2, <1>5, <1>6

\* Every prefix keeps messages only.
LEMMA KeptType ==
  ASSUME NEW s \in Seq(Items), NEW f, IsKept(f, s, Len(s))
  PROVE  \A i \in 0..Len(s) : f[i] \in Seq(Messages)
<1> DEFINE T == {i \in 0..Len(s) : f[i] \notin Seq(Messages)}
<1> SUFFICES ASSUME T # {} PROVE FALSE
  OBVIOUS
<1>1. Len(s) \in Nat /\ \A i \in 1..Len(s) : s[i] \in Items
  BY LenProperties
<1>2. PICK k \in T : \A i \in T : k <= i
  <2>1. T \in SUBSET Nat
    BY <1>1
  <2> HIDE DEF T
  <2> QED
    BY <2>1, LeastElement
<1>3. k \in 0..Len(s) /\ f[k] \notin Seq(Messages)
  BY <1>2
<1>4. k # 0
  BY <1>3 DEF IsKept
<1>5. k - 1 \in 0..Len(s) /\ k - 1 \notin T /\ s[k] \in Items
  BY <1>1, <1>2, <1>3, <1>4
<1>6. f[k - 1] \in Seq(Messages)
  BY <1>5
<1>7. f[k] = IF s[k] = CLOSED THEN f[k - 1] ELSE Append(f[k - 1], s[k])
  BY <1>3, <1>4 DEF IsKept
<1> QED
  BY <1>3, <1>5, <1>6, <1>7 DEF Items

\* WithoutSentinels is the last value of any function that satisfies its recursion.
LEMMA WithoutSentinelsIsKept ==
  ASSUME NEW s \in Seq(Items), NEW f, IsKept(f, s, Len(s))
  PROVE  WithoutSentinels(s) = f[Len(s)]
<1>1. Len(s) \in Nat
  BY LenProperties
<1> DEFINE g == CHOOSE kept : IsKept(kept, s, Len(s))
<1>2. IsKept(g, s, Len(s))
  BY <1>1, KeptExists
<1>3. WithoutSentinels(s) = g[Len(s)]
  BY DEF WithoutSentinels, IsKept
<1> HIDE DEF g
<1>4. g[Len(s)] = f[Len(s)]
  BY <1>1, <1>2, KeptUnique
<1> QED
  BY <1>3, <1>4

\* What remains is messages.
LEMMA WithoutSentinelsType ==
  ASSUME NEW s \in Seq(Items)
  PROVE  WithoutSentinels(s) \in Seq(Messages)
<1>1. Len(s) \in Nat
  BY LenProperties
<1>2. PICK f : IsKept(f, s, Len(s))
  BY <1>1, KeptExists
<1>3. Len(s) \in 0..Len(s)
  BY <1>1
<1> QED
  BY <1>2, <1>3, KeptType, WithoutSentinelsIsKept

\* Nothing remains of nothing.
LEMMA WithoutSentinelsEmpty == WithoutSentinels(<<>>) = <<>>
<1>1. <<>> \in Seq(Items) /\ Len(<<>>) = 0
  BY EmptySeq
<1>2. PICK f : IsKept(f, <<>>, 0)
  BY <1>1, KeptExists
<1>3. f[0] = <<>>
  BY <1>2 DEF IsKept
<1> QED
  BY <1>1, <1>2, <1>3, WithoutSentinelsIsKept

\* A put of a message adds it at the end; a put of a sentinel adds nothing.
LEMMA WithoutSentinelsAppend ==
  ASSUME NEW s \in Seq(Items), NEW x \in Items
  PROVE  WithoutSentinels(Append(s, x)) =
           IF x = CLOSED THEN WithoutSentinels(s) ELSE Append(WithoutSentinels(s), x)
<1> DEFINE t == Append(s, x)
           n == Len(s)
<1>1. /\ t \in Seq(Items)
      /\ n \in Nat
      /\ Len(t) = n + 1
      /\ \A i \in 1..n : s[i] = t[i]
      /\ t[n + 1] = x
  BY AppendProperties, LenProperties
<1> HIDE DEF t, n
<1>2. PICK f : IsKept(f, s, n)
  BY <1>1, KeptExists
<1>3. PICK g : IsKept(g, t, n + 1)
  BY <1>1, KeptExists
<1>4. f[n] = g[n]
  BY <1>1, <1>2, <1>3, KeptUnique
<1>5. g[n + 1] = IF t[n + 1] = CLOSED THEN g[n] ELSE Append(g[n], t[n + 1])
  <2>1. n + 1 \in 0..(n + 1) /\ n + 1 # 0 /\ (n + 1) - 1 = n
    BY <1>1
  <2> QED
    BY <1>3, <2>1 DEF IsKept
<1>6. WithoutSentinels(s) = f[n]
  BY <1>2, WithoutSentinelsIsKept DEF n
<1>7. WithoutSentinels(t) = g[n + 1]
  BY <1>1, <1>3, WithoutSentinelsIsKept
<1> QED
  BY <1>1, <1>4, <1>5, <1>6, <1>7 DEF t

\* A get of a message removes the first one; a get of a sentinel removes none.
LEMMA WithoutSentinelsTail ==
  ASSUME NEW s \in Seq(Items), s # <<>>
  PROVE  WithoutSentinels(s) =
           IF Head(s) = CLOSED THEN WithoutSentinels(Tail(s))
           ELSE <<Head(s)>> \o WithoutSentinels(Tail(s))
<1> DEFINE t == Tail(s)
           n == Len(t)
           first == IF Head(s) = CLOSED THEN <<>> ELSE <<Head(s)>>
<1>1. /\ t \in Seq(Items)
      /\ n \in Nat
      /\ Len(s) = n + 1
      /\ \A i \in 1..n : t[i] = s[i + 1]
      /\ Head(s) = s[1]
      /\ \A i \in 1..(n + 1) : s[i] \in Items
  <2>1. Len(s) \in Nat /\ \A i \in 1..Len(s) : s[i] \in Items
    BY LenProperties
  <2>2. t \in Seq(Items) /\ Len(t) = Len(s) - 1 /\ \A i \in 1..Len(t) : t[i] = s[i + 1]
    BY HeadTailProperties
  <2>3. n \in Nat
    BY <2>2, LenProperties
  <2> QED
    BY <2>1, <2>2, <2>3
<1>2. first \in Seq(Messages)
  BY <1>1 DEF Items
<1>3. PICK f : IsKept(f, s, n + 1)
  BY <1>1, KeptExists
<1>4. PICK g : IsKept(g, t, n)
  BY <1>1, KeptExists
<1> HIDE DEF t, n, first
<1>n. n \in Nat
  BY <1>1
<1>5. \A i \in 0..n : g[i] \in Seq(Messages)
  BY <1>1, <1>4, KeptType DEF n
<1>6. \A i \in 0..n : f[i + 1] = first \o g[i]
  <2> DEFINE T == {i \in 0..n : f[i + 1] # first \o g[i]}
  <2> SUFFICES ASSUME T # {} PROVE FALSE
    OBVIOUS
  <2>1. PICK k \in T : \A i \in T : k <= i
    <3>1. T \in SUBSET Nat
      BY <1>n
    <3> HIDE DEF T
    <3> QED
      BY <3>1, LeastElement
  <2>2. k \in 0..n /\ f[k + 1] # first \o g[k]
    BY <2>1
  <2>3. f[k + 1] = IF s[k + 1] = CLOSED THEN f[k] ELSE Append(f[k], s[k + 1])
    <3>1. k + 1 \in 0..(n + 1) /\ k + 1 # 0 /\ (k + 1) - 1 = k
      BY <1>1, <2>2
    <3> QED
      BY <1>3, <3>1 DEF IsKept
  <2>4. CASE k = 0
    <3>1. f[0] = <<>> /\ g[0] = <<>>
      BY <1>1, <1>3, <1>4 DEF IsKept
    <3>2. f[1] = first
      <4>1. Append(<<>>, s[1]) = <<s[1]>>
        OBVIOUS
      <4> QED
        BY <1>1, <2>3, <2>4, <3>1, <4>1 DEF first
    <3>3. first \o <<>> = first
      BY <1>2, ConcatEmptySeq
    <3> QED
      BY <2>2, <2>4, <3>1, <3>2, <3>3
  <2>5. CASE k # 0
    <3>1. k - 1 \in 0..n /\ k - 1 \notin T /\ (k - 1) + 1 = k
      <4>1. k - 1 \in 0..n /\ (k - 1) + 1 = k /\ ~(k <= k - 1)
        BY <1>n, <2>2, <2>5
      <4> QED
        BY <2>1, <4>1
    <3>2. f[k] = first \o g[k - 1] /\ g[k - 1] \in Seq(Messages)
      BY <1>5, <3>1
    <3>3. g[k] = IF t[k] = CLOSED THEN g[k - 1] ELSE Append(g[k - 1], t[k])
      BY <1>4, <2>2, <2>5 DEF IsKept
    <3>4. t[k] = s[k + 1] /\ s[k + 1] \in Items
      BY <1>1, <2>2, <2>5
    <3>5. CASE s[k + 1] = CLOSED
      BY <2>2, <2>3, <3>2, <3>3, <3>4, <3>5
    <3>6. CASE s[k + 1] # CLOSED
      <4>1. s[k + 1] \in Messages
        BY <3>4, <3>6 DEF Items
      <4>2. Append(first \o g[k - 1], s[k + 1]) = first \o Append(g[k - 1], s[k + 1])
        <5> DEFINE a == g[k - 1]
                   x == s[k + 1]
        <5>1. a \in Seq(Messages) /\ x \in Messages /\ <<x>> \in Seq(Messages)
          BY <3>2, <4>1
        <5> HIDE DEF a, x
        <5>2. first \o a \in Seq(Messages)
          BY <1>2, <5>1, ConcatProperties
        <5>3. Append(first \o a, x) = (first \o a) \o <<x>> /\ Append(a, x) = a \o <<x>>
          BY <5>1, <5>2, AppendIsConcat
        <5>4. (first \o a) \o <<x>> = first \o (a \o <<x>>)
          BY <1>2, <5>1, ConcatAssociative
        <5> QED
          BY <5>3, <5>4 DEF a, x
      <4> QED
        BY <2>2, <2>3, <3>2, <3>3, <3>4, <3>6, <4>2
    <3> QED
      BY <3>5, <3>6
  <2> QED
    BY <2>4, <2>5
<1>7. WithoutSentinels(s) = f[n + 1] /\ WithoutSentinels(t) = g[n]
  BY <1>1, <1>3, <1>4, WithoutSentinelsIsKept DEF n
<1>8. f[n + 1] = first \o g[n] /\ g[n] \in Seq(Messages)
  BY <1>n, <1>5, <1>6
<1>9. <<>> \o g[n] = g[n]
  BY <1>8, ConcatEmptySeq
<1> QED
  BY <1>7, <1>8, <1>9 DEF t, first

(***************************************************************************)
(* What each step does to the messages in flight                           *)
(***************************************************************************)
LEMMA QueueType ==
  ASSUME TypeOK, NEW e \in Ends
  PROVE  queue[e] \in Seq(Items) /\ InFlight(e) \in Seq(Messages)
<1>1. queue[e] \in Seq(Items)
  BY DEF TypeOK, Items
<1> QED
  BY <1>1, WithoutSentinelsType DEF InFlight

\* A put by send adds its message to what is in flight to the peer.
LEMMA SendPutInFlight ==
  ASSUME TypeOK, NEW e \in Ends, SendPut(e)
  PROVE  /\ snd[e].parts \in Messages
         /\ InFlight(Peer(e))' = Append(InFlight(Peer(e)), snd[e].parts)
         /\ \A x \in Ends : x # Peer(e) => InFlight(x)' = InFlight(x)
<1>1. snd[e].parts \in Messages /\ Peer(e) \in Ends
  BY SendCallFields, PeerIsOther DEF SendPut
<1>2. /\ queue'[Peer(e)] = Append(queue[Peer(e)], snd[e].parts)
      /\ \A x \in Ends : x # Peer(e) => queue'[x] = queue[x]
  BY <1>1 DEF SendPut, TypeOK
<1>3. WithoutSentinels(Append(queue[Peer(e)], snd[e].parts))
        = Append(WithoutSentinels(queue[Peer(e)]), snd[e].parts)
  <2>1. snd[e].parts \in Items /\ snd[e].parts # CLOSED /\ queue[Peer(e)] \in Seq(Items)
    BY <1>1, MessagesAssumption, QueueType DEF Items
  <2> QED
    BY <2>1, WithoutSentinelsAppend
<1> QED
  BY <1>1, <1>2, <1>3 DEF InFlight

\* A get of a message takes the first one in flight.
LEMMA TakeMessageInFlight ==
  ASSUME TypeOK, NEW r \in Receivers, RecvTakeMessage(r)
  PROVE  /\ Head(queue[At[r]]) \in Messages
         /\ InFlight(At[r]) = <<Head(queue[At[r]])>> \o InFlight(At[r])'
         /\ InFlight(At[r])' \in Seq(Messages)
         /\ \A x \in Ends : x # At[r] => InFlight(x)' = InFlight(x)
<1>1. At[r] \in Ends
  BY ThreadsAssumption
<1>2. queue[At[r]] \in Seq(Items) /\ queue[At[r]] # <<>> /\ Head(queue[At[r]]) # CLOSED
  BY <1>1, QueueType DEF RecvTakeMessage
<1>3. /\ queue'[At[r]] = Tail(queue[At[r]])
      /\ \A x \in Ends : x # At[r] => queue'[x] = queue[x]
  BY <1>1 DEF RecvTakeMessage, TypeOK
<1>4. Head(queue[At[r]]) \in Messages /\ Tail(queue[At[r]]) \in Seq(Items)
  BY <1>2, HeadTailProperties DEF Items
<1>5. WithoutSentinels(queue[At[r]])
        = <<Head(queue[At[r]])>> \o WithoutSentinels(Tail(queue[At[r]]))
  BY <1>2, WithoutSentinelsTail
<1>6. WithoutSentinels(Tail(queue[At[r]])) \in Seq(Messages)
  BY <1>4, WithoutSentinelsType
<1> QED
  BY <1>3, <1>4, <1>5, <1>6 DEF InFlight

\* Sentinels come and go without touching a message.
LEMMA SentinelInFlight ==
  ASSUME TypeOK,
         \/ \E r \in Receivers : RecvTakeSentinel(r) \/ RecvPutBack(r)
         \/ \E c \in Closers : CloseWake(c)
  PROVE  \A x \in Ends : InFlight(x)' = InFlight(x)
<1>1. ASSUME NEW r \in Receivers, RecvTakeSentinel(r)
      PROVE  \A x \in Ends : InFlight(x)' = InFlight(x)
  <2>1. At[r] \in Ends
    BY ThreadsAssumption
  <2>2. queue[At[r]] \in Seq(Items) /\ queue[At[r]] # <<>> /\ Head(queue[At[r]]) = CLOSED
    BY <1>1, <2>1, QueueType DEF RecvTakeSentinel
  <2>3. /\ queue'[At[r]] = Tail(queue[At[r]])
        /\ \A x \in Ends : x # At[r] => queue'[x] = queue[x]
    BY <1>1, <2>1 DEF RecvTakeSentinel, TypeOK
  <2>4. WithoutSentinels(queue[At[r]]) = WithoutSentinels(Tail(queue[At[r]]))
    BY <2>2, WithoutSentinelsTail
  <2> QED
    BY <2>3, <2>4 DEF InFlight
<1>2. ASSUME NEW e \in Ends, queue' = [queue EXCEPT ![e] = Append(@, CLOSED)]
      PROVE  \A x \in Ends : InFlight(x)' = InFlight(x)
  <2>1. /\ queue'[e] = Append(queue[e], CLOSED)
        /\ \A x \in Ends : x # e => queue'[x] = queue[x]
    BY <1>2 DEF TypeOK
  <2>2. queue[e] \in Seq(Items) /\ CLOSED \in Items
    BY QueueType DEF Items
  <2>3. WithoutSentinels(Append(queue[e], CLOSED)) = WithoutSentinels(queue[e])
    BY <2>2, WithoutSentinelsAppend
  <2> QED
    BY <2>1, <2>3 DEF InFlight
<1>3. ASSUME NEW r \in Receivers, RecvPutBack(r)
      PROVE  \A x \in Ends : InFlight(x)' = InFlight(x)
  BY <1>2, <1>3, ThreadsAssumption DEF RecvPutBack
<1>4. ASSUME NEW c \in Closers, CloseWake(c)
      PROVE  \A x \in Ends : InFlight(x)' = InFlight(x)
  BY <1>2, <1>4, ThreadsAssumption DEF CloseWake
<1> QED
  BY <1>1, <1>3, <1>4

(***************************************************************************)
(* In order, exactly once                                                  *)
(***************************************************************************)
LEMMA OrderStep == TypeOK /\ InOrderExactlyOnce /\ [Next]_vars => InOrderExactlyOnce'
<1> SUFFICES ASSUME TypeOK, InOrderExactlyOnce, [Next]_vars PROVE InOrderExactlyOnce'
  OBVIOUS
<1> USE PeerIsOther
<1>1. ASSUME NEW e \in Ends, SendPut(e) PROVE InOrderExactlyOnce'
  <2> DEFINE m == snd[e].parts
  <2>1. /\ m \in Messages
        /\ InFlight(Peer(e))' = Append(InFlight(Peer(e)), m)
        /\ \A x \in Ends : x # Peer(e) => InFlight(x)' = InFlight(x)
    BY <1>1, SendPutInFlight
  <2>2. /\ sent'[e] = Append(sent[e], m)
        /\ \A x \in Ends : x # e => sent'[x] = sent[x]
        /\ UNCHANGED taken
    BY <1>1 DEF SendPut, TypeOK
  <2>3. Append(taken[Peer(e)] \o InFlight(Peer(e)), m)
          = taken[Peer(e)] \o Append(InFlight(Peer(e)), m)
    <3> DEFINE a == taken[Peer(e)]
               b == InFlight(Peer(e))
    <3>1. a \in Seq(Messages) /\ b \in Seq(Messages) /\ <<m>> \in Seq(Messages)
      BY <2>1, QueueType DEF TypeOK
    <3> HIDE DEF a, b, m
    <3>2. a \o b \in Seq(Messages)
      BY <3>1, ConcatProperties
    <3>3. Append(a \o b, m) = (a \o b) \o <<m>> /\ Append(b, m) = b \o <<m>>
      BY <2>1, <3>1, <3>2, AppendIsConcat
    <3>4. (a \o b) \o <<m>> = a \o (b \o <<m>>)
      BY <3>1, ConcatAssociative
    <3> QED
      BY <3>3, <3>4 DEF a, b
  <2> HIDE DEF m
  <2>4. sent'[e] = taken'[Peer(e)] \o InFlight(Peer(e))'
    BY <2>1, <2>2, <2>3 DEF InOrderExactlyOnce
  <2>5. \A x \in Ends : x # e => sent'[x] = taken'[Peer(x)] \o InFlight(Peer(x))'
    <3>1. \A x \in Ends : x # e => Peer(x) # Peer(e) /\ Peer(x) \in Ends
      BY PeerIsOther
    <3> QED
      BY <2>1, <2>2, <3>1 DEF InOrderExactlyOnce
  <2> QED
    BY <2>4, <2>5 DEF InOrderExactlyOnce
<1>2. ASSUME NEW r \in Receivers, RecvTakeMessage(r) PROVE InOrderExactlyOnce'
  <2> DEFINE e == At[r]
             m == Head(queue[e])
             p == Peer(e)
  <2>1. /\ m \in Messages
        /\ InFlight(e) = <<m>> \o InFlight(e)'
        /\ InFlight(e)' \in Seq(Messages)
        /\ \A x \in Ends : x # e => InFlight(x)' = InFlight(x)
    BY <1>2, TakeMessageInFlight
  <2>2. e \in Ends /\ p \in Ends /\ Peer(p) = e
    BY ThreadsAssumption
  <2>3. /\ taken'[e] = Append(taken[e], m)
        /\ \A x \in Ends : x # e => taken'[x] = taken[x]
        /\ UNCHANGED sent
    BY <1>2, <2>2 DEF RecvTakeMessage, TypeOK
  <2>4. taken[e] \o (<<m>> \o InFlight(e)') = Append(taken[e], m) \o InFlight(e)'
    <3> DEFINE a == taken[e]
               b == InFlight(e)'
    <3>1. a \in Seq(Messages) /\ b \in Seq(Messages) /\ <<m>> \in Seq(Messages)
      BY <2>1, <2>2 DEF TypeOK
    <3> HIDE DEF a, b, m, e
    <3>2. Append(a, m) = a \o <<m>>
      BY <2>1, <3>1, AppendIsConcat
    <3>3. (a \o <<m>>) \o b = a \o (<<m>> \o b)
      BY <3>1, ConcatAssociative
    <3> QED
      BY <3>2, <3>3 DEF a, b
  <2> HIDE DEF m, e, p
  <2>5. sent'[p] = taken'[e] \o InFlight(e)'
    BY <2>1, <2>2, <2>3, <2>4 DEF InOrderExactlyOnce
  <2>6. \A x \in Ends : x # p => sent'[x] = taken'[Peer(x)] \o InFlight(Peer(x))'
    <3>1. \A x \in Ends : x # p => Peer(x) # e /\ Peer(x) \in Ends
      BY <2>2, PeerIsOther DEF p
    <3> QED
      BY <2>1, <2>3, <3>1 DEF InOrderExactlyOnce
  <2> QED
    BY <2>2, <2>5, <2>6 DEF InOrderExactlyOnce
<1>3. ASSUME \A x \in Ends : InFlight(x)' = InFlight(x), UNCHANGED <<sent, taken>>
      PROVE  InOrderExactlyOnce'
  BY <1>3 DEF InOrderExactlyOnce
<1>4. CASE \E r \in Receivers : RecvTakeSentinel(r) \/ RecvPutBack(r)
  BY <1>3, <1>4, SentinelInFlight DEF RecvTakeSentinel, RecvPutBack
<1>5. CASE \E c \in Closers : CloseWake(c)
  BY <1>3, <1>5, SentinelInFlight DEF CloseWake
<1>6. CASE UNCHANGED <<queue, sent, taken>>
  BY <1>3, <1>6 DEF InFlight
<1>7. CASE \E e \in Ends : SendRefused(e) \/ SendCall(e) \/ SendTimeout(e) \/ SendCount(e)
  BY <1>6, <1>7 DEF SendRefused, SendCall, SendTimeout, SendCount
<1>8. CASE \E r \in Receivers : RecvCall(r) \/ RecvTimeout(r) \/ RecvLoad(r) \/ RecvStore(r)
  BY <1>6, <1>8 DEF RecvCall, RecvTimeout, RecvLoad, RecvStore
<1>9. CASE \E c \in Closers : CloseCall(c) \/ CloseMark(c)
  BY <1>6, <1>9 DEF CloseCall, CloseMark
<1>10. CASE UNCHANGED vars
  BY <1>6, <1>10 DEF vars
<1> QED
  BY <1>1, <1>2, <1>4, <1>5, <1>7, <1>8, <1>9, <1>10
  DEF Next, SendStep, RecvStep, CloseStep

\* Every message arrives whole, in the order it was sent and exactly once,
\* however many threads receive and close, and whatever the queue size.
THEOREM DeliveredInOrder == Spec => []InOrderExactlyOnce
<1>1. Init => InOrderExactlyOnce
  <2> SUFFICES ASSUME Init PROVE InOrderExactlyOnce
    OBVIOUS
  <2>1. \A e \in Ends : InFlight(e) = <<>>
    BY WithoutSentinelsEmpty DEF Init, InFlight
  <2>2. <<>> \o <<>> = <<>>
    BY EmptySeq, ConcatEmptySeq
  <2> QED
    BY <2>1, <2>2, PeerIsOther DEF Init, InOrderExactlyOnce
<1> QED
  BY <1>1, OrderStep, TypeCorrect, PTL DEF Spec

(***************************************************************************)
(* The contract: LoopbackLink implements Link, one receiver per end        *)
(***************************************************************************)
\* base.py:35: one receiver per link.
OneReceiver == \A q, r \in Receivers : At[q] = At[r] => q = r

\* The attribute a receiver read is the one it adds to: nobody else of its end
\* wrote bytes_recv in between.
SeenIsCurrent == \A r \in Receivers : rcv[r].at = "add" => rcv[r].seen = bytes_recv[At[r]]

\* With one receiver at an end, nobody writes bytes_recv between its read and its write.
LEMMA SeenStep ==
  ASSUME OneReceiver, TypeOK, SeenIsCurrent, [Next]_vars
  PROVE  SeenIsCurrent'
<1>1. ASSUME NEW r \in Receivers,
             UNCHANGED bytes_recv,
             \A q \in Receivers : q # r => rcv'[q] = rcv[q],
             rcv'[r].at # "add"
      PROVE  SeenIsCurrent'
  BY <1>1 DEF SeenIsCurrent
<1>2. CASE UNCHANGED <<rcv, bytes_recv>>
  BY <1>2 DEF SeenIsCurrent
<1>3. ASSUME NEW r \in Receivers, RecvCall(r) PROVE SeenIsCurrent'
  <2>1. CASE closed[At[r]]
    <3>1. rcv' = [rcv EXCEPT ![r] = [at |-> "closed"]] /\ UNCHANGED bytes_recv
      BY <1>3, <2>1 DEF RecvCall
    <3> QED
      BY <1>1, <3>1 DEF TypeOK
  <2>2. CASE ~closed[At[r]]
    <3>1. PICK timed \in BOOLEAN :
            rcv' = [rcv EXCEPT ![r] = [at |-> "get", timed |-> timed]]
      BY <1>3, <2>2 DEF RecvCall
    <3> QED
      BY <1>1, <1>3, <3>1 DEF RecvCall, TypeOK
  <2> QED
    BY <2>1, <2>2
<1>4. ASSUME NEW r \in Receivers, RecvTakeMessage(r) PROVE SeenIsCurrent'
  BY <1>1, <1>4 DEF RecvTakeMessage, TypeOK
<1>5. ASSUME NEW r \in Receivers, RecvTakeSentinel(r) PROVE SeenIsCurrent'
  BY <1>1, <1>5 DEF RecvTakeSentinel, TypeOK
<1>6. ASSUME NEW r \in Receivers, RecvTimeout(r) PROVE SeenIsCurrent'
  BY <1>1, <1>6 DEF RecvTimeout, TypeOK
<1>7. ASSUME NEW r \in Receivers, RecvPutBack(r) PROVE SeenIsCurrent'
  BY <1>1, <1>7 DEF RecvPutBack, TypeOK
<1>8. ASSUME NEW r \in Receivers, RecvLoad(r) PROVE SeenIsCurrent'
  BY <1>8 DEF RecvLoad, TypeOK, SeenIsCurrent
<1>9. ASSUME NEW r \in Receivers, RecvStore(r) PROVE SeenIsCurrent'
  <2>1. /\ rcv'[r].at # "add"
        /\ \A q \in Receivers : q # r => rcv'[q] = rcv[q]
        /\ \A e \in Ends : e # At[r] => bytes_recv'[e] = bytes_recv[e]
    BY <1>9 DEF RecvStore, TypeOK
  <2>2. \A q \in Receivers : q # r => At[q] # At[r] /\ At[q] \in Ends
    BY ThreadsAssumption DEF OneReceiver
  <2> QED
    BY <2>1, <2>2 DEF SeenIsCurrent
<1>10. CASE \E e \in Ends : SendRefused(e) \/ SendCall(e) \/ SendStep(e)
  BY <1>2, <1>10 DEF SendStep, SendRefused, SendCall, SendPut, SendTimeout, SendCount
<1>11. CASE \E c \in Closers : CloseCall(c) \/ CloseStep(c)
  BY <1>2, <1>11 DEF CloseStep, CloseCall, CloseMark, CloseWake
<1>12. CASE UNCHANGED vars
  BY <1>2, <1>12 DEF vars
<1> QED
  BY <1>3, <1>4, <1>5, <1>6, <1>7, <1>8, <1>9, <1>10, <1>11, <1>12 DEF Next, RecvStep

(***************************************************************************)
(* The refinement mapping                                                  *)
(***************************************************************************)
chanBar == [e \in Ends |-> InFlight(e)]
rcvBar == [r \in Receivers |-> CallSeen(rcv[r])]

\* What the contract sees of a receiver, by where it is.
LEMMA CallSeenFacts ==
  ASSUME NEW c
  PROVE  /\ c.at = "putback" => CallSeen(c) = [at |-> "get", timed |-> c.timed]
         /\ c.at = "add" => CallSeen(c) = [at |-> "got", parts |-> c.parts]
         /\ c.at \notin {"putback", "add"} => CallSeen(c) = c
BY DEF CallSeen

\* The same for the records the actions assign.
LEMMA CallSeenRecords ==
  /\ \A o \in RecvOutcomes : CallSeen([at |-> o]) = [at |-> o]
  /\ \A t : CallSeen([at |-> "get", timed |-> t]) = [at |-> "get", timed |-> t]
  /\ \A t : CallSeen([at |-> "putback", timed |-> t]) = [at |-> "get", timed |-> t]
  /\ \A m : CallSeen([at |-> "got", parts |-> m]) = [at |-> "got", parts |-> m]
  /\ \A m, n : CallSeen([at |-> "add", parts |-> m, seen |-> n]) = [at |-> "got", parts |-> m]
BY DEF CallSeen, RecvOutcomes

\* What a step of one receiver is on the contract.
LEMMA RcvBarStep ==
  ASSUME TypeOK, NEW r \in Receivers, NEW c, rcv' = [rcv EXCEPT ![r] = c]
  PROVE  rcvBar' = [rcvBar EXCEPT ![r] = CallSeen(c)]
BY DEF rcvBar, TypeOK

\* The initial states are initial states of the contract.
LEMMA ContractInit == Init => Contract!Init
<1> SUFFICES ASSUME Init PROVE Contract!Init
  OBVIOUS
<1>1. chanBar = [e \in Ends |-> <<>>]
  BY WithoutSentinelsEmpty DEF Init, InFlight, chanBar
<1>2. rcvBar = [r \in Receivers |-> [at |-> "new"]]
  BY CallSeenFacts DEF Init, rcvBar
<1> QED
  BY <1>1, <1>2 DEF Init, Contract!Init, chanBar, rcvBar

\* A step of send is a step of the contract.
LEMMA ContractSendStep ==
  ASSUME TypeOK, NEW e \in Ends,
         SendRefused(e) \/ SendCall(e) \/ SendPut(e) \/ SendTimeout(e) \/ SendCount(e)
  PROVE  Contract!Next
<1>1. CASE SendRefused(e)
  <2>1. chanBar' = chanBar /\ rcvBar' = rcvBar
    BY <1>1 DEF SendRefused, chanBar, rcvBar, InFlight
  <2>2. Contract!RefuseSend(e)
    BY <1>1, <2>1
    DEF SendRefused, Contract!RefuseSend, SendOutcomes, Contract!SendOutcomes, chanBar, rcvBar
  <2> QED
    BY <2>2 DEF Contract!Next
<1>2. CASE SendCall(e)
  <2>1. chanBar' = chanBar /\ rcvBar' = rcvBar
    BY <1>2 DEF SendCall, chanBar, rcvBar, InFlight
  <2>2. Contract!BeginSend(e)
    BY <1>2, <2>1
    DEF SendCall, Contract!BeginSend, SendOutcomes, Contract!SendOutcomes, chanBar, rcvBar
  <2> QED
    BY <2>2 DEF Contract!Next
<1>3. CASE SendPut(e)
  <2>1. chanBar' = [chanBar EXCEPT ![Peer(e)] = Append(@, snd[e].parts)]
    BY <1>3, SendPutInFlight, PeerIsOther DEF chanBar
  <2>2. rcvBar' = rcvBar
    BY <1>3 DEF SendPut, rcvBar
  <2>3. Contract!Peer(e) = Peer(e)
    BY DEF Peer, Contract!Peer
  <2>4. Contract!HandOver(e)
    BY <1>3, <2>1, <2>2, <2>3 DEF SendPut, Contract!HandOver, chanBar, rcvBar
  <2> QED
    BY <2>4 DEF Contract!Next
<1>4. CASE SendTimeout(e)
  <2>1. chanBar' = chanBar /\ rcvBar' = rcvBar
    BY <1>4 DEF SendTimeout, chanBar, rcvBar, InFlight
  <2>2. Contract!GiveUpSend(e)
    BY <1>4, <2>1 DEF SendTimeout, Contract!GiveUpSend, chanBar, rcvBar
  <2> QED
    BY <2>2 DEF Contract!Next
<1>5. CASE SendCount(e)
  <2>1. chanBar' = chanBar /\ rcvBar' = rcvBar
    BY <1>5 DEF SendCount, chanBar, rcvBar, InFlight
  <2>2. Contract!ReturnFromSend(e)
    BY <1>5, <2>1 DEF SendCount, Contract!ReturnFromSend, chanBar, rcvBar
  <2> QED
    BY <2>2 DEF Contract!Next
<1> QED
  BY <1>1, <1>2, <1>3, <1>4, <1>5

\* A step of recv is a step of the contract, or one it does not see.
LEMMA ContractRecvStep ==
  ASSUME TypeOK, SentinelInv, SeenIsCurrent, NEW r \in Receivers, RecvCall(r) \/ RecvStep(r)
  PROVE  Contract!Next \/ UNCHANGED Contract!vars
<1> DEFINE e == At[r]
<1>0. e \in Ends
  BY ThreadsAssumption
<1>a. rcvBar[r] = CallSeen(rcv[r]) /\ chanBar[e] = InFlight(e)
  BY <1>0 DEF rcvBar, chanBar
<1>1. CASE RecvCall(r)
  <2>1. chanBar' = chanBar
    BY <1>1 DEF RecvCall, chanBar, InFlight
  <2>2. rcvBar[r].at \in RecvOutcomes
    BY <1>1, <1>a, CallSeenFacts DEF RecvCall, RecvOutcomes
  <2>3. CASE closed[e]
    <3>1. rcvBar' = [rcvBar EXCEPT ![r] = [at |-> "closed"]]
      <4>1. rcv' = [rcv EXCEPT ![r] = [at |-> "closed"]]
        BY <1>1, <2>3 DEF RecvCall
      <4>2. CallSeen([at |-> "closed"]) = [at |-> "closed"]
        BY CallSeenRecords DEF RecvOutcomes
      <4> QED
        BY <4>1, <4>2, RcvBarStep
    <3>2. Contract!RefuseRecv(r)
      BY <1>1, <2>1, <2>2, <2>3, <3>1
      DEF RecvCall, Contract!RefuseRecv, RecvOutcomes, Contract!RecvOutcomes, chanBar, rcvBar
    <3> QED
      BY <3>2 DEF Contract!Next
  <2>4. CASE ~closed[e]
    <3>1. PICK timed \in BOOLEAN :
            rcv' = [rcv EXCEPT ![r] = [at |-> "get", timed |-> timed]]
      BY <1>1, <2>4 DEF RecvCall
    <3>2. rcvBar' = [rcvBar EXCEPT ![r] = [at |-> "get", timed |-> timed]]
      <4>1. CallSeen([at |-> "get", timed |-> timed]) = [at |-> "get", timed |-> timed]
        BY CallSeenRecords
      <4> QED
        BY <3>1, <4>1, RcvBarStep
    <3>3. Contract!BeginRecv(r)
      BY <1>1, <2>1, <2>2, <2>4, <3>2
      DEF RecvCall, Contract!BeginRecv, RecvOutcomes, Contract!RecvOutcomes, chanBar, rcvBar
    <3> QED
      BY <3>3 DEF Contract!Next
  <2> QED
    BY <2>3, <2>4
<1>2. CASE RecvTakeMessage(r)
  <2> DEFINE m == Head(queue[e])
  <2>1. /\ m \in Messages
        /\ InFlight(e) = <<m>> \o InFlight(e)'
        /\ InFlight(e)' \in Seq(Messages)
        /\ \A x \in Ends : x # e => InFlight(x)' = InFlight(x)
    BY <1>2, TakeMessageInFlight
  <2>2. /\ InFlight(e) # <<>>
        /\ Head(InFlight(e)) = m
        /\ Tail(InFlight(e)) = InFlight(e)'
    <3> DEFINE b == InFlight(e)'
    <3>1. m \in Messages /\ b \in Seq(Messages)
      BY <2>1
    <3> HIDE DEF b, m
    <3>2. <<m>> \o b # <<>> /\ Head(<<m>> \o b) = m /\ Tail(<<m>> \o b) = b
      BY <3>1
    <3> QED
      BY <2>1, <3>2 DEF b
  <2>3. chanBar' = [chanBar EXCEPT ![e] = Tail(@)]
    BY <1>0, <2>1, <2>2 DEF chanBar
  <2>4. rcvBar' = [rcvBar EXCEPT ![r] = [at |-> "got", parts |-> m]]
    <3>1. rcv' = [rcv EXCEPT ![r] = [at |-> "got", parts |-> m]]
      BY <1>2 DEF RecvTakeMessage
    <3>2. CallSeen([at |-> "got", parts |-> m])
            = [at |-> "got", parts |-> m]
      BY CallSeenRecords DEF RecvOutcomes
    <3> QED
      BY <3>1, <3>2, RcvBarStep
  <2>5. rcvBar[r].at = "get"
    BY <1>2, <1>a, CallSeenFacts DEF RecvTakeMessage
  <2>6. Contract!Deliver(r)
    BY <1>2, <1>a, <2>2, <2>3, <2>4, <2>5
    DEF RecvTakeMessage, Contract!Deliver, chanBar, rcvBar
  <2> QED
    BY <2>6 DEF Contract!Next
<1>3. CASE RecvTakeSentinel(r)
  <2>1. chanBar' = chanBar
    BY <1>3, SentinelInFlight DEF chanBar
  <2>2. rcvBar' = [rcvBar EXCEPT ![r] = [at |-> "get", timed |-> rcv[r].timed]]
    <3>1. rcv' = [rcv EXCEPT ![r] = [at |-> "putback", timed |-> rcv[r].timed]]
      BY <1>3 DEF RecvTakeSentinel
    <3>2. CallSeen([at |-> "putback", timed |-> rcv[r].timed])
            = [at |-> "get", timed |-> rcv[r].timed]
      BY CallSeenRecords DEF RecvOutcomes
    <3> QED
      BY <3>1, <3>2, RcvBarStep
  <2>3. rcvBar[r] = [at |-> "get", timed |-> rcv[r].timed]
    <3>1. rcv[r] \in RecvCalls /\ rcv[r].at = "get"
      BY <1>3 DEF RecvTakeSentinel, TypeOK
    <3>2. rcv[r] = [at |-> "get", timed |-> rcv[r].timed]
      BY <3>1 DEF RecvCalls, RecvOutcomes
    <3> QED
      BY <1>a, <3>1, <3>2, CallSeenFacts
  <2>4. rcvBar' = rcvBar
    BY <2>2, <2>3 DEF rcvBar
  <2> QED
    BY <1>3, <2>1, <2>4 DEF RecvTakeSentinel, Contract!vars, chanBar, rcvBar
<1>4. CASE RecvTimeout(r)
  <2>1. chanBar' = chanBar
    BY <1>4 DEF RecvTimeout, chanBar, InFlight
  <2>2. rcvBar' = [rcvBar EXCEPT ![r] = [at |-> "timeout"]]
    <3>1. rcv' = [rcv EXCEPT ![r] = [at |-> "timeout"]]
      BY <1>4 DEF RecvTimeout
    <3>2. CallSeen([at |-> "timeout"])
            = [at |-> "timeout"]
      BY CallSeenRecords DEF RecvOutcomes
    <3> QED
      BY <3>1, <3>2, RcvBarStep
  <2>3. rcvBar[r] = rcv[r] /\ chanBar[e] = <<>>
    BY <1>4, <1>a, CallSeenFacts, WithoutSentinelsEmpty DEF RecvTimeout, InFlight
  <2>4. Contract!GiveUpRecv(r)
    BY <1>4, <2>1, <2>2, <2>3 DEF RecvTimeout, Contract!GiveUpRecv, chanBar, rcvBar
  <2> QED
    BY <2>4 DEF Contract!Next
<1>5. CASE RecvPutBack(r)
  <2>1. chanBar' = chanBar
    BY <1>5, SentinelInFlight DEF chanBar
  <2>2. rcvBar' = [rcvBar EXCEPT ![r] = [at |-> "closed"]]
    <3>1. rcv' = [rcv EXCEPT ![r] = [at |-> "closed"]]
      BY <1>5 DEF RecvPutBack
    <3>2. CallSeen([at |-> "closed"])
            = [at |-> "closed"]
      BY CallSeenRecords DEF RecvOutcomes
    <3> QED
      BY <3>1, <3>2, RcvBarStep
  <2>3. rcvBar[r].at = "get"
    BY <1>5, <1>a, CallSeenFacts DEF RecvPutBack
  <2>4. closed[e]
    BY <1>0, <1>5
    DEF RecvPutBack, SentinelInv, OnlyClosedEndsReportClosed, SentinelHeld
  <2>5. Contract!GiveUpRecv(r)
    BY <1>5, <2>1, <2>2, <2>3, <2>4 DEF RecvPutBack, Contract!GiveUpRecv, chanBar, rcvBar
  <2> QED
    BY <2>5 DEF Contract!Next
<1>6. CASE RecvLoad(r)
  <2>1. chanBar' = chanBar
    BY <1>6 DEF RecvLoad, chanBar, InFlight
  <2>2. rcvBar' = [rcvBar EXCEPT ![r] = [at |-> "got", parts |-> rcv[r].parts]]
    <3>1. rcv' = [rcv EXCEPT ![r] =
             [at |-> "add", parts |-> rcv[r].parts, seen |-> bytes_recv[At[r]]]]
      BY <1>6 DEF RecvLoad
    <3>2. CallSeen([at |-> "add", parts |-> rcv[r].parts, seen |-> bytes_recv[At[r]]])
            = [at |-> "got", parts |-> rcv[r].parts]
      BY CallSeenRecords DEF RecvOutcomes
    <3> QED
      BY <3>1, <3>2, RcvBarStep
  <2>3. rcvBar[r] = [at |-> "got", parts |-> rcv[r].parts]
    <3>1. rcv[r] \in RecvCalls /\ rcv[r].at = "got"
      BY <1>6 DEF RecvLoad, TypeOK
    <3>2. rcv[r] = [at |-> "got", parts |-> rcv[r].parts]
      BY <3>1 DEF RecvCalls, RecvOutcomes
    <3> QED
      BY <1>a, <3>1, <3>2, CallSeenFacts
  <2>4. rcvBar' = rcvBar
    BY <2>2, <2>3 DEF rcvBar
  <2> QED
    BY <1>6, <2>1, <2>4 DEF RecvLoad, Contract!vars, chanBar, rcvBar
<1>7. CASE RecvStore(r)
  <2>1. chanBar' = chanBar
    BY <1>7 DEF RecvStore, chanBar, InFlight
  <2>2. rcvBar' = [rcvBar EXCEPT ![r] = [at |-> "returned"]]
    <3>1. rcv' = [rcv EXCEPT ![r] = [at |-> "returned"]]
      BY <1>7 DEF RecvStore
    <3>2. CallSeen([at |-> "returned"])
            = [at |-> "returned"]
      BY CallSeenRecords DEF RecvOutcomes
    <3> QED
      BY <3>1, <3>2, RcvBarStep
  <2>3. rcvBar[r] = [at |-> "got", parts |-> rcv[r].parts]
    BY <1>7, <1>a, CallSeenFacts DEF RecvStore
  <2>4. bytes_recv' = [bytes_recv EXCEPT ![e] = @ + Bytes[rcv[r].parts]]
    BY <1>0, <1>7 DEF RecvStore, SeenIsCurrent, TypeOK
  <2>5. rcvBar[r].at = "got" /\ rcvBar[r].parts = rcv[r].parts
    BY <2>3
  <2>6. UNCHANGED <<closed, bytes_sent, snd>>
    BY <1>7 DEF RecvStore
  <2>7. Contract!ReturnFromRecv(r)
    BY <2>1, <2>2, <2>4, <2>5, <2>6 DEF Contract!ReturnFromRecv, chanBar, rcvBar
  <2> QED
    BY <2>7 DEF Contract!Next
<1> QED
  BY <1>1, <1>2, <1>3, <1>4, <1>5, <1>6, <1>7 DEF RecvStep

\* A step of close is a step of the contract, or one it does not see.
LEMMA ContractCloseStep ==
  ASSUME TypeOK, NEW c \in Closers, CloseCall(c) \/ CloseStep(c)
  PROVE  Contract!Next \/ UNCHANGED Contract!vars
<1>1. CASE CloseCall(c)
  BY <1>1 DEF CloseCall, Contract!vars, InFlight
<1>2. CASE CloseMark(c)
  <2>1. chanBar' = chanBar /\ rcvBar' = rcvBar
    BY <1>2 DEF CloseMark, chanBar, rcvBar, InFlight
  <2>2. Contract!Close(At[c]) /\ At[c] \in Ends
    BY <1>2, <2>1, ThreadsAssumption DEF CloseMark, Contract!Close, chanBar, rcvBar
  <2> QED
    BY <2>2 DEF Contract!Next
<1>3. CASE CloseWake(c)
  <2>1. chanBar' = chanBar
    BY <1>3, SentinelInFlight DEF chanBar
  <2>2. rcvBar' = rcvBar
    BY <1>3 DEF CloseWake, rcvBar
  <2> QED
    BY <1>3, <2>1, <2>2 DEF CloseWake, Contract!vars, chanBar, rcvBar
<1> QED
  BY <1>1, <1>2, <1>3 DEF CloseStep

\* LoopbackLink is a Link: with one receiver per end, every behaviour of the
\* two queues and their sentinels is one the contract of base.py allows.
THEOREM LoopbackImplementsLink == ASSUME OneReceiver PROVE Spec => ImplementsLink
<1>1. Init => SeenIsCurrent
  BY DEF Init, SeenIsCurrent
<1>2. TypeOK /\ SeenIsCurrent /\ [Next]_vars => SeenIsCurrent'
  BY SeenStep
<1>3. TypeOK /\ SentinelInv /\ SeenIsCurrent /\ [Next]_vars
        => [Contract!Next]_(Contract!vars)
  <2> SUFFICES ASSUME TypeOK, SentinelInv, SeenIsCurrent, [Next]_vars
               PROVE  Contract!Next \/ UNCHANGED Contract!vars
    OBVIOUS
  <2>1. CASE \E e \in Ends : SendRefused(e) \/ SendCall(e) \/ SendStep(e)
    BY <2>1, ContractSendStep DEF SendStep
  <2>2. CASE \E r \in Receivers : RecvCall(r) \/ RecvStep(r)
    BY <2>2, ContractRecvStep
  <2>3. CASE \E c \in Closers : CloseCall(c) \/ CloseStep(c)
    BY <2>3, ContractCloseStep
  <2>4. CASE UNCHANGED vars
    BY <2>4 DEF vars, Contract!vars, InFlight
  <2> QED
    BY <2>1, <2>2, <2>3, <2>4 DEF Next
<1> QED
  BY <1>1, <1>2, <1>3, ContractInit, TypeCorrect, SentinelInvariant, PTL
  DEF Spec, ImplementsLink, Contract!Spec

(***************************************************************************)
(* Payload bytes                                                           *)
(***************************************************************************)
\* The payload sizes of a list of messages.
Sizes(ms) == [i \in 1..Len(ms) |-> Bytes[ms[i]]]

\* What Total sums up: the messages of the list, one by one.
IsTotal(F, ms) ==
  F = [s \in SUBSET DOMAIN ms |->
         IF s = {} THEN 0
         ELSE LET i == CHOOSE i \in s : TRUE IN Bytes[ms[i]] + F[s \ {i}]]

\* Total is the sum of the sizes, first to last.
LEMMA TotalIsSum ==
  ASSUME NEW ms \in Seq(Messages)
  PROVE  /\ Sizes(ms) \in [1..Len(ms) -> Int] /\ Len(ms) \in Nat
         /\ Total(ms) = SumOfFirst(Sizes(ms), Len(ms))
<1> DEFINE n == Len(ms)
           g == Sizes(ms)
<1>1. n \in Nat /\ DOMAIN ms = 1..n /\ \A i \in 1..n : ms[i] \in Messages
  OBVIOUS
<1>2. g \in [1..n -> Int] /\ \A i \in 1..n : g[i] = Bytes[ms[i]]
  BY <1>1, MessagesAssumption DEF Sizes
<1> HIDE DEF n, g
<1>3. \A F : IsTotal(F, ms) <=> IsFold(F, g, n)
  <2>1. ASSUME NEW F PROVE IsTotal(F, ms) <=> IsFold(F, g, n)
    <3>1. \A s \in SUBSET (1..n) :
            (IF s = {} THEN 0
             ELSE LET i == CHOOSE i \in s : TRUE IN Bytes[ms[i]] + F[s \ {i}])
            = (IF s = {} THEN 0
               ELSE LET i == CHOOSE i \in s : TRUE IN g[i] + F[s \ {i}])
      <4> TAKE s \in SUBSET (1..n)
      <4> DEFINE i == CHOOSE i \in s : TRUE
      <4>1. s # {} => i \in 1..n
        OBVIOUS
      <4>2. s # {} => Bytes[ms[i]] = g[i]
        BY <1>2, <4>1
      <4> QED
        BY <4>2
    <3> QED
      BY <1>1, <3>1, Zenon DEF IsTotal, IsFold
  <2> QED
    BY <2>1
<1> DEFINE The == CHOOSE F : IsTotal(F, ms)
<1>4. IsTotal(The, ms)
  BY <1>1, <1>2, <1>3, FoldExists
<1>5. Total(ms) = The[DOMAIN ms]
  BY DEF Total, FoldSeq, FoldFunction, FoldFunctionOnSet, MapThenFoldSet, IsTotal
<1> HIDE DEF The
<1>6. The[1..n] = SumOfFirst(g, n)
  BY <1>1, <1>2, <1>3, <1>4, FoldIsSum
<1> QED
  BY <1>1, <1>2, <1>5, <1>6 DEF n, g

\* A message more is its size more, at either end of a list.
LEMMA TotalOfMore ==
  ASSUME NEW ms \in Seq(Messages), NEW m \in Messages
  PROVE  /\ Total(<<>>) = 0 /\ Total(ms) \in Int /\ Bytes[m] \in Nat
         /\ Total(Append(ms, m)) = Total(ms) + Bytes[m]
         /\ Total(<<m>> \o ms) = Bytes[m] + Total(ms)
<1> DEFINE n == Len(ms)
           later == Append(ms, m)
           earlier == <<m>> \o ms
<1>0. Bytes[m] \in Nat
  BY MessagesAssumption
<1>1. /\ n \in Nat /\ Sizes(ms) \in [1..n -> Int]
      /\ Total(ms) = SumOfFirst(Sizes(ms), n)
  BY TotalIsSum
<1>2. /\ later \in Seq(Messages) /\ Len(later) = n + 1
      /\ later[n + 1] = m /\ \A i \in 1..n : later[i] = ms[i]
  BY AppendProperties
<1>3. /\ earlier \in Seq(Messages) /\ Len(earlier) = n + 1
      /\ earlier[1] = m /\ \A i \in 1..n : earlier[i + 1] = ms[i]
  <2>1. <<m>> \in Seq(Messages) /\ Len(<<m>>) = 1 /\ <<m>>[1] = m
    OBVIOUS
  <2>2. /\ earlier \in Seq(Messages) /\ Len(earlier) = 1 + n
        /\ \A i \in 1..(1 + n) :
             earlier[i] = IF i <= 1 THEN <<m>>[i] ELSE ms[i - 1]
    BY <2>1, ConcatProperties
  <2> HIDE DEF earlier, n
  <2>3. \A i \in 1..n : i + 1 \in 1..(1 + n) /\ ~(i + 1 <= 1) /\ (i + 1) - 1 = i
    BY <1>1
  <2>4. 1 \in 1..(1 + n) /\ 1 + n = n + 1
    BY <1>1
  <2> QED
    BY <2>1, <2>2, <2>3, <2>4
<1>4. Total(<<>>) = 0
  <2>1. <<>> \in Seq(Messages) /\ Len(<<>>) = 0
    OBVIOUS
  <2>2. Sizes(<<>>) \in [1..0 -> Int] /\ Total(<<>>) = SumOfFirst(Sizes(<<>>), 0)
    BY <2>1, TotalIsSum
  <2> QED
    BY <2>2, FirstSums
<1>5. Total(ms) \in Int
  BY <1>1, FirstSums
<1> HIDE DEF n, later, earlier
<1>6. Total(later) = Total(ms) + Bytes[m]
  <2> DEFINE l == n + 1
             s == Sizes(ms)
             t == Sizes(later)
  <2>1. l \in Nat /\ t \in [1..l -> Int] /\ Total(later) = SumOfFirst(t, l)
    BY <1>1, <1>2, TotalIsSum
  <2>2. t[l] = Bytes[m] /\ \A i \in 1..n : s[i] = t[i]
    BY <1>1, <1>2, <1>3 DEF Sizes, n
  <2>3. l \in 1..l /\ l - 1 = n /\ n <= n /\ n <= l
    BY <1>1
  <2>4. s \in [1..n -> Int]
    BY <1>1
  <2> HIDE DEF l, s, t
  <2>5. SumOfFirst(t, l) = SumOfFirst(t, n) + t[l]
    BY <2>1, <2>3, FirstSums
  <2>6. SumOfFirst(s, n) = SumOfFirst(t, n)
    BY <1>1, <2>1, <2>2, <2>3, <2>4, SameSums
  <2> QED
    BY <1>1, <2>1, <2>2, <2>5, <2>6 DEF s
<1>7. Total(earlier) = Bytes[m] + Total(ms)
  <2> DEFINE s == Sizes(ms)
             t == Sizes(earlier)
  <2>1. t \in [1..(n + 1) -> Int] /\ Total(earlier) = SumOfFirst(t, n + 1)
    BY <1>3, TotalIsSum
  <2>2. t[1] = Bytes[m] /\ \A i \in 1..n : t[i + 1] = s[i]
    <3>1. \A i \in 1..n : i + 1 \in 1..(n + 1)
      BY <1>1
    <3>2. 1 \in 1..(n + 1)
      BY <1>1
    <3> QED
      BY <1>3, <3>1, <3>2 DEF Sizes, n
  <2>3. s \in [1..n -> Int]
    BY <1>1
  <2> HIDE DEF s, t
  <2>4. SumOfFirst(t, n + 1) = t[1] + SumOfFirst(s, n)
    BY <1>1, <2>1, <2>2, <2>3, FirstApart
  <2> QED
    BY <1>1, <2>1, <2>2, <2>4 DEF s
<1> QED
  BY <1>0, <1>4, <1>5, <1>6, <1>7 DEF later, earlier

\* What a receive holds that bytes_recv does not count yet.
Holds(c) == IF c.at \in {"got", "add"} THEN Bytes[c.parts] ELSE 0

\* RecvUncounted, of any calls.
UncountedIn(calls, e) ==
  MapThenSumSet(LAMBDA r : Bytes[calls[r].parts],
                {r \in Receivers : At[r] = e /\ calls[r].at \in {"got", "add"}})

\* With one receiver at an end, what is uncounted there is what it holds.
LEMMA UncountedIsHeld ==
  ASSUME OneReceiver, NEW calls, NEW e,
         \A r \in Receivers : calls[r].at \in {"got", "add"} => Bytes[calls[r].parts] \in Nat
  PROVE  /\ \A r \in Receivers : At[r] = e => UncountedIn(calls, e) = Holds(calls[r])
         /\ (\A r \in Receivers : At[r] # e) => UncountedIn(calls, e) = 0
<1> DEFINE S == {r \in Receivers : At[r] = e /\ calls[r].at \in {"got", "add"}}
           IsSumOf(F) ==
             F = [s \in SUBSET S |->
                    IF s = {} THEN 0
                    ELSE LET r == CHOOSE r \in s : TRUE
                         IN Bytes[calls[r].parts] + F[s \ {r}]]
           The == CHOOSE F : IsSumOf(F)
<1>1. UncountedIn(calls, e) = The[S]
  BY DEF UncountedIn, MapThenSumSet, MapThenFoldSet
<1>2. ASSUME S = {} PROVE UncountedIn(calls, e) = 0
  <2> DEFINE G == [s \in SUBSET S |-> 0]
  <2>1. SUBSET S = {{}}
    BY <1>2
  <2>2. IsSumOf(G)
    BY <2>1
  <2> HIDE DEF S
  <2>3. IsSumOf(The)
    BY <2>2
  <2> HIDE DEF The
  <2>4. The[{}] = 0
    BY <2>3
  <2> QED
    BY <1>1, <1>2, <2>4
<1>3. ASSUME NEW r \in Receivers, S = {r} PROVE UncountedIn(calls, e) = Bytes[calls[r].parts]
  <2> DEFINE b == Bytes[calls[r].parts]
             G == [s \in SUBSET S |-> IF s = {} THEN 0 ELSE b]
  <2>0. b \in Nat
    BY <1>3
  <2> HIDE DEF b, S
  <2>1. \A s \in SUBSET S : s # {} => s = {r} /\ (CHOOSE q \in s : TRUE) = r /\ s \ {r} = {}
    BY <1>3
  <2>2. {} \in SUBSET S /\ {r} \in SUBSET S /\ G[{}] = 0 /\ G[{r}] = b
    BY <1>3
  <2>3. IsSumOf(G)
    <3>1. \A s \in SUBSET S :
            (IF s = {} THEN 0 ELSE b)
              = IF s = {} THEN 0
                ELSE LET q == CHOOSE q \in s : TRUE IN Bytes[calls[q].parts] + G[s \ {q}]
      <4> TAKE s \in SUBSET S
      <4>1. CASE s = {}
        BY <4>1
      <4>2. CASE s # {}
        <5>1. (CHOOSE q \in s : TRUE) = r /\ G[s \ {r}] = 0
          BY <2>1, <2>2, <4>2
        <5>2. b + 0 = b
          BY <2>0
        <5> HIDE DEF G
        <5> QED
          BY <4>2, <5>1, <5>2 DEF b
      <4> QED
        BY <4>1, <4>2
    <3> QED
      BY <3>1
  <2>4. IsSumOf(The)
    BY <2>3
  <2> HIDE DEF The, G
  <2>5. The[{}] = 0
    BY <2>2, <2>4
  <2>6. The[{r}] = b + The[{}]
    <3>1. (CHOOSE q \in {r} : TRUE) = r /\ {r} # {} /\ {r} \ {r} = {}
      OBVIOUS
    <3> QED
      BY <2>2, <2>4, <3>1 DEF b
  <2> QED
    BY <1>1, <1>3, <2>0, <2>5, <2>6 DEF b
<1>4. ASSUME NEW r \in Receivers, At[r] = e PROVE UncountedIn(calls, e) = Holds(calls[r])
  <2>1. \A q \in Receivers : At[q] = e => q = r
    BY <1>4 DEF OneReceiver
  <2>2. CASE calls[r].at \in {"got", "add"}
    <3>1. S = {r}
      BY <1>4, <2>1, <2>2
    <3> QED
      BY <1>3, <2>2, <3>1 DEF Holds
  <2>3. CASE calls[r].at \notin {"got", "add"}
    <3>1. S = {}
      BY <2>1, <2>3
    <3> QED
      BY <1>2, <2>3, <3>1 DEF Holds
  <2> QED
    BY <2>2, <2>3
<1>5. ASSUME \A r \in Receivers : At[r] # e PROVE UncountedIn(calls, e) = 0
  BY <1>2, <1>5
<1> QED
  BY <1>4, <1>5

\* What an end handed over, and what there is of it at the other end.
Handed(e) == bytes_sent[e] + SendUncounted(e)
Gathered(e) == bytes_recv[e] + RecvUncounted(e) + Total(InFlight(e))

\* The bytes around one end, in numbers.
LEMMA Amounts ==
  ASSUME TypeOK, OneReceiver, NEW e \in Ends
  PROVE  /\ bytes_sent[e] \in Int /\ bytes_recv[e] \in Int
         /\ SendUncounted(e) \in Int /\ Total(InFlight(e)) \in Int
         /\ RecvUncounted(e) \in Int
         /\ \A r \in Receivers : At[r] = e => RecvUncounted(e) = Holds(rcv[r])
<1>1. bytes_sent[e] \in Nat /\ bytes_recv[e] \in Nat
  BY DEF TypeOK
<1>2. SendUncounted(e) \in Int
  <2>1. CASE snd[e].at = "count"
    <3>1. Bytes[snd[e].parts] \in Nat
      BY <2>1, SendCallFields, MessagesAssumption
    <3> QED
      BY <2>1, <3>1 DEF SendUncounted
  <2>2. CASE snd[e].at # "count"
    BY <2>2 DEF SendUncounted
  <2> QED
    BY <2>1, <2>2
<1>3. Total(InFlight(e)) \in Int
  <2>1. InFlight(e) \in Seq(Messages)
    BY QueueType
  <2>2. /\ Sizes(InFlight(e)) \in [1..Len(InFlight(e)) -> Int] /\ Len(InFlight(e)) \in Nat
        /\ Total(InFlight(e)) = SumOfFirst(Sizes(InFlight(e)), Len(InFlight(e)))
    BY <2>1, TotalIsSum
  <2> QED
    BY <2>2, FirstSums
<1>4. \A r \in Receivers : rcv[r].at \in {"got", "add"} => Bytes[rcv[r].parts] \in Nat
  BY RecvCallFields, MessagesAssumption
<1>5. RecvUncounted(e) = UncountedIn(rcv, e)
  BY DEF RecvUncounted, UncountedIn
<1>6. \A r \in Receivers : At[r] = e => RecvUncounted(e) = Holds(rcv[r])
  BY <1>4, <1>5, UncountedIsHeld
<1>7. RecvUncounted(e) \in Int
  <2>1. CASE \E r \in Receivers : At[r] = e
    <3>1. PICK r \in Receivers : At[r] = e
      BY <2>1
    <3>2. RecvUncounted(e) = Holds(rcv[r])
      BY <1>6, <3>1
    <3>3. Holds(rcv[r]) \in Int
      BY <1>4 DEF Holds
    <3> QED
      BY <3>2, <3>3
  <2>2. CASE \A r \in Receivers : At[r] # e
    <3>1. RecvUncounted(e) = 0
      BY <1>4, <1>5, <2>2, UncountedIsHeld
    <3> QED
      BY <3>1
  <2> QED
    BY <2>1, <2>2
<1> QED
  BY <1>1, <1>2, <1>3, <1>6, <1>7

\* A receiver's step changes what is uncounted at its own end only.
LEMMA UncountedElsewhere ==
  ASSUME TypeOK, TypeOK', OneReceiver, NEW r \in Receivers, NEW x \in Ends, x # At[r],
         \A q \in Receivers : q # r => rcv'[q] = rcv[q]
  PROVE  RecvUncounted(x)' = RecvUncounted(x)
<1>1. \A q \in Receivers : rcv[q].at \in {"got", "add"} => Bytes[rcv[q].parts] \in Nat
  BY RecvCallFields, MessagesAssumption
<1>2. \A q \in Receivers : rcv'[q].at \in {"got", "add"} => Bytes[rcv'[q].parts] \in Nat
  <2>1. \A q \in Receivers : rcv'[q] \in RecvCalls
    BY DEF TypeOK
  <2>2. \A q \in Receivers : rcv'[q].at \in {"got", "add"} => rcv'[q].parts \in Messages
    BY <2>1 DEF RecvCalls, RecvOutcomes
  <2> QED
    BY <2>2, MessagesAssumption
<1>3. RecvUncounted(x) = UncountedIn(rcv, x) /\ RecvUncounted(x)' = UncountedIn(rcv', x)
  BY DEF RecvUncounted, UncountedIn, MapThenSumSet, MapThenFoldSet
<1>4. ASSUME NEW q \in Receivers, At[q] = x PROVE RecvUncounted(x)' = RecvUncounted(x)
  <2>1. UncountedIn(rcv, x) = Holds(rcv[q])
    BY <1>1, <1>4, UncountedIsHeld
  <2>2. UncountedIn(rcv', x) = Holds(rcv'[q])
    BY <1>2, <1>4, UncountedIsHeld
  <2>3. rcv'[q] = rcv[q]
    BY <1>4
  <2> QED
    BY <1>3, <2>1, <2>2, <2>3
<1>5. ASSUME \A q \in Receivers : At[q] # x PROVE RecvUncounted(x)' = RecvUncounted(x)
  BY <1>1, <1>2, <1>3, <1>5, UncountedIsHeld
<1> QED
  BY <1>4, <1>5

\* What is uncounted at a receiver's end after its step.
LEMMA UncountedHere ==
  ASSUME TypeOK', OneReceiver, NEW r \in Receivers
  PROVE  RecvUncounted(At[r])' = Holds(rcv'[r])
<1>1. \A q \in Receivers : rcv'[q].at \in {"got", "add"} => Bytes[rcv'[q].parts] \in Nat
  <2>1. \A q \in Receivers : rcv'[q] \in RecvCalls
    BY DEF TypeOK
  <2>2. \A q \in Receivers : rcv'[q].at \in {"got", "add"} => rcv'[q].parts \in Messages
    BY <2>1 DEF RecvCalls, RecvOutcomes
  <2> QED
    BY <2>2, MessagesAssumption
<1>2. RecvUncounted(At[r])' = UncountedIn(rcv', At[r])
  BY DEF RecvUncounted, UncountedIn, MapThenSumSet, MapThenFoldSet
<1> QED
  BY <1>1, <1>2, UncountedIsHeld

\* A step of send: the bytes that leave the sender's hands are those on their
\* way, and counting them moves them from one side of the sum to the other.
LEMMA SendBalance ==
  ASSUME TypeOK, OneReceiver, BytesConserved, NEW e \in Ends,
         SendRefused(e) \/ SendCall(e) \/ SendStep(e)
  PROVE  BytesConserved'
<1>0. \A x \in Ends : Handed(x) = Gathered(Peer(x)) /\ Peer(x) \in Ends
  BY PeerIsOther DEF BytesConserved, Handed, Gathered
<1>1. \A x \in Ends : /\ bytes_sent[x] \in Int /\ bytes_recv[x] \in Int
                      /\ SendUncounted(x) \in Int /\ Total(InFlight(x)) \in Int
                      /\ RecvUncounted(x) \in Int
  BY Amounts
<1>2. UNCHANGED <<bytes_recv, rcv>>
  BY DEF SendRefused, SendCall, SendStep, SendPut, SendTimeout, SendCount
<1>3. \A x \in Ends : RecvUncounted(x)' = RecvUncounted(x)
  BY <1>2 DEF RecvUncounted, MapThenSumSet, MapThenFoldSet
<1>4. \A x \in Ends : x # e => bytes_sent'[x] = bytes_sent[x] /\ snd'[x] = snd[x]
  BY DEF SendRefused, SendCall, SendStep, SendPut, SendTimeout, SendCount, TypeOK
<1>5. \A x \in Ends : x # e => Handed(x)' = Handed(x)
  BY <1>4 DEF Handed, SendUncounted
<1>6. ASSUME Handed(e)' = Handed(e), \A x \in Ends : InFlight(x)' = InFlight(x)
      PROVE  BytesConserved'
  <2>1. \A x \in Ends : Handed(x)' = Handed(x)
    BY <1>5, <1>6
  <2>2. \A x \in Ends : Total(InFlight(x))' = Total(InFlight(x))
    BY <1>6 DEF Total, FoldSeq, FoldFunction, FoldFunctionOnSet, MapThenFoldSet
  <2>3. \A x \in Ends : Gathered(x)' = Gathered(x)
    BY <1>2, <1>3, <2>2 DEF Gathered
  <2> QED
    BY <1>0, <2>1, <2>3 DEF BytesConserved, Handed, Gathered
<1>7. CASE SendRefused(e) \/ SendCall(e) \/ SendTimeout(e)
  <2>1. snd[e].at # "count" /\ UNCHANGED <<queue, bytes_sent>>
    BY <1>7 DEF SendRefused, SendCall, SendTimeout, SendOutcomes
  <2>2. snd'[e].at # "count"
    BY <1>7 DEF SendRefused, SendCall, SendTimeout, TypeOK
  <2>3. Handed(e)' = Handed(e)
    BY <2>1, <2>2 DEF Handed, SendUncounted
  <2> QED
    BY <1>6, <2>1, <2>3 DEF InFlight
<1>8. CASE SendCount(e)
  <2>1. /\ snd[e].at = "count" /\ UNCHANGED queue
        /\ bytes_sent'[e] = bytes_sent[e] + Bytes[snd[e].parts]
        /\ snd'[e].at # "count"
    BY <1>8 DEF SendCount, TypeOK
  <2>2. SendUncounted(e) = Bytes[snd[e].parts] /\ SendUncounted(e)' = 0
    BY <2>1 DEF SendUncounted
  <2>3. Handed(e)' = bytes_sent'[e] + 0
    BY <2>2 DEF Handed
  <2>4. bytes_sent'[e] \in Int /\ bytes_sent'[e] = bytes_sent[e] + SendUncounted(e)
    BY <1>1, <2>1, <2>2
  <2>5. Handed(e)' = Handed(e)
    BY <2>3, <2>4 DEF Handed
  <2> QED
    BY <1>6, <2>1, <2>5 DEF InFlight
<1>9. CASE SendPut(e)
  <2> DEFINE m == snd[e].parts
             p == Peer(e)
  <2>1. /\ m \in Messages /\ InFlight(p)' = Append(InFlight(p), m)
        /\ \A x \in Ends : x # p => InFlight(x)' = InFlight(x)
    BY <1>9, SendPutInFlight
  <2>2. p \in Ends /\ InFlight(p) \in Seq(Messages)
    BY <1>0, QueueType
  <2>3. /\ Bytes[m] \in Nat
        /\ Total(InFlight(p))' = Total(InFlight(p)) + Bytes[m]
    <3> DEFINE ms == InFlight(p)
    <3>1. Total(Append(ms, m)) = Total(ms) + Bytes[m] /\ Bytes[m] \in Nat
      BY <2>1, <2>2, TotalOfMore
    <3>2. Total(InFlight(p))' = Total(Append(InFlight(p), m))
      BY <2>1 DEF Total, FoldSeq, FoldFunction, FoldFunctionOnSet, MapThenFoldSet
    <3> QED
      BY <3>1, <3>2
  <2>4. \A x \in Ends : x # p => Total(InFlight(x))' = Total(InFlight(x))
    BY <2>1 DEF Total, FoldSeq, FoldFunction, FoldFunctionOnSet, MapThenFoldSet
  <2>5. /\ snd[e].at = "put" /\ UNCHANGED bytes_sent
        /\ snd'[e].at = "count" /\ snd'[e].parts = m
    BY <1>9 DEF SendPut, TypeOK
  <2>6. SendUncounted(e) = 0 /\ SendUncounted(e)' = Bytes[m]
    BY <2>5 DEF SendUncounted
  <2> HIDE DEF m, p
  <2>7. Handed(e)' = Handed(e) + Bytes[m]
    <3>1. Handed(e)' = bytes_sent[e] + Bytes[m] /\ Handed(e) = bytes_sent[e] + 0
      BY <2>5, <2>6 DEF Handed
    <3> QED
      BY <1>1, <2>3, <3>1
  <2>8. Gathered(p)' = Gathered(p) + Bytes[m]
    <3>1. Gathered(p)' = bytes_recv[p] + RecvUncounted(p) + (Total(InFlight(p)) + Bytes[m])
      BY <1>2, <1>3, <2>2, <2>3 DEF Gathered
    <3>2. Gathered(p) = bytes_recv[p] + RecvUncounted(p) + Total(InFlight(p))
      BY DEF Gathered
    <3> QED
      BY <1>1, <2>2, <2>3, <3>1, <3>2
  <2>9. \A x \in Ends : x # p => Gathered(x)' = Gathered(x)
    BY <1>2, <1>3, <2>4 DEF Gathered
  <2>10. \A x \in Ends : x # e => Peer(x) # p
    BY PeerIsOther DEF p
  <2>11. \A x \in Ends : Handed(x)' = Gathered(Peer(x))'
    <3> TAKE x \in Ends
    <3>1. CASE x = e
      BY <1>0, <2>7, <2>8, <3>1 DEF p
    <3>2. CASE x # e
      BY <1>0, <1>5, <2>9, <2>10, <3>2
    <3> QED
      BY <3>1, <3>2
  <2> QED
    BY <2>11 DEF BytesConserved, Handed, Gathered
<1> QED
  BY <1>7, <1>8, <1>9 DEF SendStep

\* A step of recv moves bytes from the inbox to the receiver's hands and
\* on to its counter: their sum at its end stays.
LEMMA RecvBalance ==
  ASSUME TypeOK, TypeOK', OneReceiver, SeenIsCurrent, BytesConserved,
         NEW r \in Receivers, RecvCall(r) \/ RecvStep(r)
  PROVE  BytesConserved'
<1> DEFINE e == At[r]
<1>0. /\ \A x \in Ends : Handed(x) = Gathered(Peer(x)) /\ Peer(x) \in Ends
      /\ e \in Ends
  BY PeerIsOther, ThreadsAssumption DEF BytesConserved, Handed, Gathered
<1>1. /\ bytes_recv[e] \in Int /\ Total(InFlight(e)) \in Int
      /\ RecvUncounted(e) = Holds(rcv[r])
  BY <1>0, Amounts
<1>2. RecvUncounted(e)' = Holds(rcv'[r])
  BY UncountedHere
<1>3. UNCHANGED <<bytes_sent, snd>>
  BY DEF RecvCall, RecvStep, RecvTakeMessage, RecvTakeSentinel, RecvTimeout, RecvPutBack,
         RecvLoad, RecvStore
<1>4. \A q \in Receivers : q # r => rcv'[q] = rcv[q]
  BY DEF RecvCall, RecvStep, RecvTakeMessage, RecvTakeSentinel, RecvTimeout, RecvPutBack,
         RecvLoad, RecvStore, TypeOK
<1>5. \A x \in Ends : x # e => bytes_recv'[x] = bytes_recv[x]
  BY <1>0 DEF RecvCall, RecvStep, RecvTakeMessage, RecvTakeSentinel, RecvTimeout, RecvPutBack,
         RecvLoad, RecvStore, TypeOK
<1>6. \A x \in Ends : x # e => RecvUncounted(x)' = RecvUncounted(x)
  BY <1>4, UncountedElsewhere
<1>7. ASSUME \A x \in Ends : x # e => InFlight(x)' = InFlight(x), Gathered(e)' = Gathered(e)
      PROVE  BytesConserved'
  <2>1. \A x \in Ends : x # e => Total(InFlight(x))' = Total(InFlight(x))
    BY <1>7 DEF Total, FoldSeq, FoldFunction, FoldFunctionOnSet, MapThenFoldSet
  <2>2. \A x \in Ends : Gathered(x)' = Gathered(x)
    BY <1>5, <1>6, <1>7, <2>1 DEF Gathered
  <2>3. \A x \in Ends : Handed(x)' = Handed(x)
    BY <1>3 DEF Handed, SendUncounted
  <2> QED
    BY <1>0, <2>2, <2>3 DEF BytesConserved, Handed, Gathered
<1>8. ASSUME \A x \in Ends : InFlight(x)' = InFlight(x),
             bytes_recv'[e] + Holds(rcv'[r]) = bytes_recv[e] + Holds(rcv[r])
      PROVE  BytesConserved'
  <2>0. \A x \in Ends : Total(InFlight(x))' = Total(InFlight(x))
    <3>1. \A x \in Ends : InFlight(x)' = InFlight(x)
      BY <1>8
    <3> QED
      BY <3>1 DEF Total, FoldSeq, FoldFunction, FoldFunctionOnSet, MapThenFoldSet
  <2>1. Total(InFlight(e))' = Total(InFlight(e))
    BY <1>0, <2>0
  <2>2. Gathered(e)' = Gathered(e)
    BY <1>1, <1>2, <1>8, <2>1 DEF Gathered
  <2> QED
    BY <1>7, <1>8, <2>2
<1>9. CASE RecvTakeMessage(r)
  <2> DEFINE m == Head(queue[e])
  <2>1. /\ m \in Messages /\ InFlight(e) = <<m>> \o InFlight(e)'
        /\ InFlight(e)' \in Seq(Messages)
        /\ \A x \in Ends : x # e => InFlight(x)' = InFlight(x)
    BY <1>9, TakeMessageInFlight
  <2>2. /\ Bytes[m] \in Nat /\ Total(InFlight(e))' \in Int
        /\ Total(InFlight(e)) = Bytes[m] + Total(InFlight(e))'
    <3> DEFINE ms == InFlight(e)'
    <3>1. /\ Total(<<m>> \o ms) = Bytes[m] + Total(ms) /\ Bytes[m] \in Nat
          /\ Total(ms) \in Int
      BY <2>1, TotalOfMore
    <3>2. Total(InFlight(e))' = Total(ms)
      BY DEF Total, FoldSeq, FoldFunction, FoldFunctionOnSet, MapThenFoldSet
    <3> QED
      BY <2>1, <3>1, <3>2
  <2>3. /\ rcv[r].at = "get" /\ UNCHANGED bytes_recv
        /\ rcv'[r].at = "got" /\ rcv'[r].parts = m
    BY <1>9 DEF RecvTakeMessage, TypeOK
  <2>4. Holds(rcv[r]) = 0 /\ Holds(rcv'[r]) = Bytes[m]
    BY <2>3 DEF Holds
  <2> HIDE DEF m, e
  <2>5. Gathered(e)' = bytes_recv[e] + Bytes[m] + Total(InFlight(e))'
    BY <1>2, <2>3, <2>4 DEF Gathered
  <2>6. Gathered(e) = bytes_recv[e] + 0 + Total(InFlight(e))
    BY <1>1, <2>4 DEF Gathered
  <2>7. Gathered(e)' = Gathered(e)
    BY <1>1, <2>2, <2>5, <2>6
  <2> QED
    BY <1>7, <2>1, <2>7
<1>10. CASE RecvTakeSentinel(r) \/ RecvPutBack(r)
  <2>1. \A x \in Ends : InFlight(x)' = InFlight(x)
    BY <1>10, SentinelInFlight
  <2>2. UNCHANGED bytes_recv /\ Holds(rcv[r]) = 0 /\ Holds(rcv'[r]) = 0
    BY <1>10 DEF RecvTakeSentinel, RecvPutBack, TypeOK, Holds
  <2> QED
    BY <1>8, <2>1, <2>2
<1>11. CASE RecvCall(r) \/ RecvTimeout(r)
  <2>1. \A x \in Ends : InFlight(x)' = InFlight(x)
    BY <1>11 DEF RecvCall, RecvTimeout, InFlight
  <2>2. UNCHANGED bytes_recv /\ rcv[r].at \notin {"got", "add"} /\ rcv'[r].at \notin {"got", "add"}
    BY <1>11 DEF RecvCall, RecvTimeout, TypeOK, RecvOutcomes
  <2>3. Holds(rcv[r]) = 0 /\ Holds(rcv'[r]) = 0
    BY <2>2 DEF Holds
  <2> QED
    BY <1>8, <2>1, <2>2, <2>3
<1>12. CASE RecvLoad(r)
  <2>1. \A x \in Ends : InFlight(x)' = InFlight(x)
    BY <1>12 DEF RecvLoad, InFlight
  <2>2. UNCHANGED bytes_recv /\ Holds(rcv'[r]) = Holds(rcv[r])
    BY <1>12 DEF RecvLoad, TypeOK, Holds
  <2> QED
    BY <1>8, <2>1, <2>2
<1>13. CASE RecvStore(r)
  <2>1. \A x \in Ends : InFlight(x)' = InFlight(x)
    BY <1>13 DEF RecvStore, InFlight
  <2>2. /\ rcv[r].at = "add" /\ rcv'[r].at = "returned"
        /\ bytes_recv'[e] = rcv[r].seen + Bytes[rcv[r].parts]
    BY <1>0, <1>13 DEF RecvStore, TypeOK
  <2>3. rcv[r].seen = bytes_recv[e]
    BY <2>2 DEF SeenIsCurrent
  <2>4. Holds(rcv[r]) = Bytes[rcv[r].parts] /\ Holds(rcv'[r]) = 0
    BY <2>2 DEF Holds
  <2>5. Bytes[rcv[r].parts] \in Nat
    BY <2>2, RecvCallFields, MessagesAssumption
  <2>6. bytes_recv'[e] + Holds(rcv'[r]) = bytes_recv[e] + Holds(rcv[r])
    BY <1>1, <2>2, <2>3, <2>4, <2>5
  <2> QED
    BY <1>8, <2>1, <2>6
<1> QED
  BY <1>9, <1>10, <1>11, <1>12, <1>13 DEF RecvStep

\* Nothing else touches a message or a counter.
LEMMA QuietBalance ==
  ASSUME TypeOK, BytesConserved,
         (\E c \in Closers : CloseCall(c) \/ CloseStep(c)) \/ UNCHANGED vars
  PROVE  BytesConserved'
<1>1. \A x \in Ends : InFlight(x)' = InFlight(x)
  <2>1. CASE \E c \in Closers : CloseWake(c)
    BY <2>1, SentinelInFlight
  <2>2. CASE UNCHANGED queue
    BY <2>2 DEF InFlight
  <2> QED
    BY <2>1, <2>2 DEF CloseCall, CloseStep, CloseMark, vars
<1>2. UNCHANGED <<bytes_sent, bytes_recv, snd, rcv>>
  BY DEF CloseCall, CloseStep, CloseMark, CloseWake, vars
<1>3. \A x \in Ends : Total(InFlight(x))' = Total(InFlight(x))
  BY <1>1 DEF Total, FoldSeq, FoldFunction, FoldFunctionOnSet, MapThenFoldSet
<1>4. \A x \in Ends : RecvUncounted(x)' = RecvUncounted(x)
  BY <1>2 DEF RecvUncounted, MapThenSumSet, MapThenFoldSet
<1>5. \A x \in Ends : SendUncounted(x)' = SendUncounted(x)
  BY <1>2 DEF SendUncounted
<1> QED
  BY <1>2, <1>3, <1>4, <1>5, PeerIsOther DEF BytesConserved

\* With one receiver per end, no byte is lost, counted twice or counted before it
\* is on the link: whatever is sent, in flight, taken or given up, by however
\* many messages of whatever sizes, the two counters differ by what is on its way.
THEOREM BytesAreConserved == ASSUME OneReceiver PROVE Spec => []BytesConserved
<1>1. Init => SeenIsCurrent
  BY DEF Init, SeenIsCurrent
<1>2. TypeOK /\ SeenIsCurrent /\ [Next]_vars => SeenIsCurrent'
  BY SeenStep
<1>3. Init => BytesConserved
  <2> SUFFICES ASSUME Init, NEW e \in Ends
               PROVE  bytes_sent[e] + SendUncounted(e)
                        = bytes_recv[Peer(e)] + RecvUncounted(Peer(e)) + Total(InFlight(Peer(e)))
    BY DEF BytesConserved
  <2>1. Peer(e) \in Ends /\ bytes_sent[e] = 0 /\ bytes_recv[Peer(e)] = 0 /\ SendUncounted(e) = 0
    BY PeerIsOther DEF Init, SendUncounted
  <2>2. Total(InFlight(Peer(e))) = 0
    <3>1. InFlight(Peer(e)) = <<>>
      BY <2>1, WithoutSentinelsEmpty DEF Init, InFlight
    <3>2. <<>> \in Seq(Messages) /\ Len(<<>>) = 0
      OBVIOUS
    <3>3. Sizes(<<>>) \in [1..0 -> Int] /\ Total(<<>>) = SumOfFirst(Sizes(<<>>), 0)
      BY <3>2, TotalIsSum
    <3> QED
      BY <3>1, <3>3, FirstSums
  <2>3. RecvUncounted(Peer(e)) = 0
    <3>1. \A r \in Receivers : rcv[r].at \notin {"got", "add"}
      BY DEF Init
    <3>2. RecvUncounted(Peer(e)) = UncountedIn(rcv, Peer(e))
      BY DEF RecvUncounted, UncountedIn
    <3>3. \A r \in Receivers : Holds(rcv[r]) = 0
      BY <3>1 DEF Holds
    <3>4. \A r \in Receivers : rcv[r].at \in {"got", "add"} => Bytes[rcv[r].parts] \in Nat
      BY <3>1
    <3>5. /\ \A r \in Receivers : At[r] = Peer(e) => UncountedIn(rcv, Peer(e)) = Holds(rcv[r])
          /\ (\A r \in Receivers : At[r] # Peer(e)) => UncountedIn(rcv, Peer(e)) = 0
      BY <3>4, UncountedIsHeld
    <3> QED
      BY <3>2, <3>3, <3>5
  <2> QED
    BY <2>1, <2>2, <2>3
<1>4. TypeOK /\ TypeOK' /\ SeenIsCurrent /\ BytesConserved /\ [Next]_vars => BytesConserved'
  BY SendBalance, RecvBalance, QuietBalance DEF Next
<1> QED
  BY <1>1, <1>2, <1>3, <1>4, TypeCorrect, PTL DEF Spec
=============================================================================
