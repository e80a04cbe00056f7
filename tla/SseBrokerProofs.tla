--------------------------- MODULE SseBrokerProofs ---------------------------
(***************************************************************************)
(* Proofs about the live feed, for any number of publishers and streams    *)
(* and channels of any capacity: ssePublish never sends on a closed        *)
(* channel, and a stream is complete and in order.                         *)
(*                                                                         *)
(* BrokerInv says what the lock is for: while a publisher holds a channel, *)
(* it holds the read lock and the channel's request is subscribed; and a   *)
(* request that is subscribed has not closed its channel.  Unsubscribe     *)
(* waits for the lock, so that nobody holds the channel when Close comes.  *)
(*                                                                         *)
(* StreamInv adds what a stream knows of the events before it: Subscribe   *)
(* waits for the lock too, so that no event is half published when it      *)
(* begins, and an event to be offered is newer than all that were.         *)
(***************************************************************************)
EXTENDS SseBroker, SequenceTheorems, TLAPS

(***************************************************************************)
(* Types, and the lock.                                                    *)
(***************************************************************************)

(* The event a publisher is publishing is one.                             *)
LEMMA EventInHand ==
  ASSUME TypeOK, NEW p \in Publishers, begun[p] # 0
  PROVE  <<p, begun[p]>> \in Events
<1>1. begun[p] \in Nat /\ begun[p] <= MaxEvents[p] /\ MaxEvents[p] \in Nat
  BY BrokerAssumption DEF TypeOK
<1>2. begun[p] \in 1 .. MaxEvents[p]
  BY <1>1
<1> QED
  BY <1>1, <1>2 DEF Events

(* The broker starts without subscribers.                                  *)
LEMMA InitType == Init => TypeOK /\ BrokerInv
<1> SUFFICES ASSUME Init PROVE TypeOK /\ BrokerInv
  OBVIOUS
<1>1. /\ ch \in [Requests -> Seq(Events)] /\ received \in [Requests -> Seq(Events)]
      /\ \A r \in Requests : Len(ch[r]) <= Cap
  BY BrokerAssumption DEF Init
<1>2. begun \in [Publishers -> Nat] /\ \A p \in Publishers : begun[p] <= MaxEvents[p]
  BY BrokerAssumption DEF Init
<1>3. joined \in [Requests -> [Publishers -> Nat]] /\ missed \in [Requests -> SUBSET Events]
  BY DEF Init
<1> QED
  BY <1>1, <1>2, <1>3 DEF Init, TypeOK, BrokerInv, Stages

(* Every step keeps both; the cases are the actions of Next.               *)
LEMMA NextType == TypeOK /\ BrokerInv /\ [Next]_vars => TypeOK' /\ BrokerInv'
<1> SUFFICES ASSUME TypeOK, BrokerInv, [Next]_vars PROVE TypeOK' /\ BrokerInv'
  OBVIOUS
<1> USE DEF broker, publish, history
<1>1. ASSUME NEW r \in Requests, Open(r) PROVE TypeOK' /\ BrokerInv'
  BY <1>1 DEF Open, TypeOK, BrokerInv, Stages
<1>2. ASSUME NEW r \in Requests, Subscribe(r) PROVE TypeOK' /\ BrokerInv'
  <2>1. joined' \in [Requests -> [Publishers -> Nat]]
    BY <1>2 DEF Subscribe, TypeOK
  <2>2. TypeOK'
    BY <1>2, <2>1 DEF Subscribe, TypeOK, Stages
  <2>3. BrokerInv'
    BY <1>2 DEF Subscribe, LockFree, BrokerInv, TypeOK, Stages
  <2> QED
    BY <2>2, <2>3
<1>3. ASSUME NEW r \in Requests, Read(r) PROVE TypeOK' /\ BrokerInv'
  <2>1. ch[r] \in Seq(Events) /\ ch[r] # <<>> /\ received[r] \in Seq(Events) /\ Len(ch[r]) <= Cap
    BY <1>3 DEF Read, TypeOK
  <2>2. /\ Tail(ch[r]) \in Seq(Events) /\ Len(Tail(ch[r])) <= Cap
        /\ Append(received[r], Head(ch[r])) \in Seq(Events)
    BY <2>1, BrokerAssumption
  <2>3. received' = [received EXCEPT ![r] = Append(received[r], Head(ch[r]))]
    BY <1>3 DEF Read
  <2>4. ch' = [ch EXCEPT ![r] = Tail(ch[r])]
    BY <1>3 DEF Read
  <2>5. /\ ch' \in [Requests -> Seq(Events)] /\ received' \in [Requests -> Seq(Events)]
        /\ \A s \in Requests : Len(ch'[s]) <= Cap
    BY <2>2, <2>3, <2>4 DEF TypeOK
  <2>6. UNCHANGED <<stage, subscribers, closed, publish, missed, joined>>
    BY <1>3 DEF Read
  <2> QED
    BY <2>5, <2>6 DEF TypeOK, BrokerInv
<1>4. ASSUME NEW r \in Requests, Leave(r) PROVE TypeOK' /\ BrokerInv'
  BY <1>4 DEF Leave, TypeOK, BrokerInv, Stages
<1>5. ASSUME NEW r \in Requests, Unsubscribe(r) PROVE TypeOK' /\ BrokerInv'
  (* Nobody publishes, so nobody holds the channel.                        *)
  <2>1. \A p \in Publishers : todo[p] = {}
    BY <1>5 DEF Unsubscribe, LockFree, BrokerInv
  <2> QED
    BY <1>5, <2>1 DEF Unsubscribe, TypeOK, BrokerInv, Stages
<1>6. ASSUME NEW r \in Requests, Close(r) PROVE TypeOK' /\ BrokerInv'
  BY <1>6 DEF Close, TypeOK, BrokerInv, Stages
<1>7. ASSUME NEW p \in Publishers, BeginPublish(p) PROVE TypeOK' /\ BrokerInv'
  <2>1. /\ begun' = [begun EXCEPT ![p] = begun[p] + 1] /\ begun[p] < MaxEvents[p]
        /\ begun[p] \in Nat /\ MaxEvents[p] \in Nat
    BY <1>7, BrokerAssumption DEF BeginPublish, TypeOK
  <2>2. begun' \in [Publishers -> Nat] /\ \A q \in Publishers : begun'[q] <= MaxEvents[q]
    BY <2>1 DEF TypeOK
  <2> QED
    BY <1>7, <2>2 DEF BeginPublish, TypeOK, BrokerInv, Stages
<1>8. ASSUME NEW p \in Publishers, NEW r \in Requests, Offer(p, r) PROVE TypeOK' /\ BrokerInv'
  <2>1. UNCHANGED <<stage, subscribers, closed, begun, publishing, received, joined>>
    BY <1>8 DEF Offer
  <2>2. todo' = [todo EXCEPT ![p] = todo[p] \ {r}]
    BY <1>8 DEF Offer
  <2>3. todo' \in [Publishers -> SUBSET Requests] /\ \A q \in Publishers : todo'[q] \subseteq todo[q]
    BY <2>2 DEF TypeOK
  <2>4. BrokerInv'
    BY <2>1, <2>3 DEF BrokerInv
  <2>5. <<p, begun[p]>> \in Events
    BY <1>8, EventInHand DEF Offer, BrokerInv
  <2> DEFINE e == <<p, begun[p]>>
  <2>6. e \in Events
    BY <2>5
  <2>7. /\ Len(ch[r]) < Cap => ch' = [ch EXCEPT ![r] = Append(ch[r], e)] /\ missed' = missed
        /\ ~(Len(ch[r]) < Cap) => missed' = [missed EXCEPT ![r] = missed[r] \cup {e}] /\ ch' = ch
    BY <1>8 DEF Offer
  <2> HIDE DEF e
  <2>8. ch \in [Requests -> Seq(Events)] /\ ch[r] \in Seq(Events) /\ Cap \in Nat
    BY BrokerAssumption DEF TypeOK
  <2>9. /\ Append(ch[r], e) \in Seq(Events)
        /\ Len(ch[r]) < Cap => Len(Append(ch[r], e)) <= Cap
    BY <2>6, <2>8
  <2>10. missed \in [Requests -> SUBSET Events] /\ \A s \in Requests : Len(ch[s]) <= Cap
    BY DEF TypeOK
  <2>11. missed' \in [Requests -> SUBSET Events]
    BY <2>6, <2>7, <2>8, <2>10
  <2>12. ch' \in [Requests -> Seq(Events)] /\ \A s \in Requests : Len(ch'[s]) <= Cap
    <3>1. CASE Len(ch[r]) < Cap
      BY <3>1, <2>7, <2>8, <2>9, <2>10
    <3>2. CASE ~(Len(ch[r]) < Cap)
      BY <3>2, <2>7, <2>8, <2>10
    <3> QED
      BY <3>1, <3>2
  <2> QED
    BY <2>1, <2>3, <2>4, <2>11, <2>12 DEF TypeOK
<1>9. ASSUME NEW p \in Publishers, EndPublish(p) PROVE TypeOK' /\ BrokerInv'
  BY <1>9 DEF EndPublish, TypeOK, BrokerInv
<1>10. CASE UNCHANGED vars
  BY <1>10 DEF vars, TypeOK, BrokerInv
<1> QED
  BY <1>1, <1>2, <1>3, <1>4, <1>5, <1>6, <1>7, <1>8, <1>9, <1>10
     DEF Next, Leaving, Publishing, Offer

(* Every variable of the feed keeps its type, and a channel never holds    *)
(* more than its capacity.                                                 *)
THEOREM TypeCorrect == Spec => []TypeOK
  BY InitType, NextType, PTL DEF Spec

(***************************************************************************)
(* What a stream got.                                                      *)
(***************************************************************************)

(* Appending adds one element to what is in a sequence.                    *)
LEMMA AppendRange ==
  ASSUME NEW S, NEW s \in Seq(S), NEW e \in S
  PROVE  \A x : x \in Range(Append(s, e)) <=> x \in Range(s) \/ x = e
<1>1. /\ Len(Append(s, e)) = Len(s) + 1 /\ Append(s, e)[Len(s) + 1] = e
      /\ \A i \in 1 .. Len(s) : Append(s, e)[i] = s[i]
      /\ DOMAIN s = 1 .. Len(s) /\ DOMAIN Append(s, e) = 1 .. Len(s) + 1
      /\ Len(s) \in Nat
  OBVIOUS
<1> DEFINE t == Append(s, e)
<1> HIDE DEF t
<1>2. /\ t[Len(s) + 1] = e /\ \A i \in 1 .. Len(s) : t[i] = s[i]
      /\ DOMAIN t = 1 .. Len(s) + 1
  BY <1>1 DEF t
<1>3. \A i : i \in DOMAIN t <=> i \in DOMAIN s \/ i = Len(s) + 1
  BY <1>1, <1>2
<1>4. \A x : x \in Range(t) <=> x \in Range(s) \/ x = e
  BY <1>1, <1>2, <1>3 DEF Range
<1> QED
  BY <1>4 DEF t

(* Moving the first element of t to the end of s does not change s \o t.   *)
LEMMA MoveHead ==
  ASSUME NEW S, NEW s \in Seq(S), NEW t \in Seq(S), t # <<>>
  PROVE  Append(s, Head(t)) \o Tail(t) = s \o t
<1>1. Head(t) \in S /\ Tail(t) \in Seq(S) /\ <<Head(t)>> \in Seq(S)
  OBVIOUS
<1>2. t = <<Head(t)>> \o Tail(t)
  BY HeadTailProperties
<1>3. Append(s, Head(t)) = s \o <<Head(t)>>
  BY <1>1, AppendIsConcat
<1> QED
  BY <1>1, <1>2, <1>3, ConcatAssociative

(* Appending to t appends to s \o t.                                       *)
LEMMA AppendToEnd ==
  ASSUME NEW S, NEW s \in Seq(S), NEW t \in Seq(S), NEW e \in S
  PROVE  s \o Append(t, e) = Append(s \o t, e)
<1>1. s \o t \in Seq(S) /\ <<e>> \in Seq(S)
  OBVIOUS
<1>2. Append(t, e) = t \o <<e>> /\ Append(s \o t, e) = (s \o t) \o <<e>>
  BY <1>1, AppendIsConcat
<1> QED
  BY <1>1, <1>2, ConcatAssociative

(* The part of the property about one stream and one publisher, and what   *)
(* keeps it so.                                                            *)
Complete(r, p) ==
  \A n \in 1 .. MaxEvents[p] :
    <<p, n>> \in Range(Got(r)) <=> n \in Offered(r, p) /\ <<p, n>> \notin missed[r]
Ordered(r, p) ==
  \A i, k \in DOMAIN Got(r) :
    i < k /\ Got(r)[i][1] = p /\ Got(r)[k][1] = p => Got(r)[i][2] < Got(r)[k][2]
Newer(r, p) ==
  /\ joined[r][p] <= begun[p]
  /\ r \in todo[p] => joined[r][p] < begun[p]
  /\ \A n \in 1 .. MaxEvents[p] : <<p, n>> \in missed[r] => n \in Offered(r, p)
Fresh(r) ==
  stage[r] \in {"new", "subscribing"} =>
    received[r] = <<>> /\ ch[r] = <<>> /\ missed[r] = {}
Sound(r, p) == Complete(r, p) /\ Ordered(r, p) /\ Newer(r, p)
Streams ==
  /\ \A r \in Requests : Fresh(r)
  /\ \A r \in subscribers, p \in Publishers : Sound(r, p)

(* Both properties in these words.                                         *)
LEMMA StreamsAre == TypeOK => (Streams <=> StreamInv /\ StreamIsComplete)
  BY DEF TypeOK, Streams, Fresh, Sound, Complete, Ordered, Newer, StreamInv, StreamIsComplete

(* What concerns one stream and one publisher stays so while neither the   *)
(* stream nor the publisher moves.                                         *)
LEMMA SoundKept ==
  ASSUME NEW r, NEW p, Sound(r, p), Got(r)' = Got(r),
         missed'[r] = missed[r], joined'[r] = joined[r], begun'[p] = begun[p],
         r \in todo'[p] <=> r \in todo[p]
  PROVE  Sound(r, p)'
<1>1. Offered(r, p)' = Offered(r, p)
  BY DEF Offered
<1> QED
  BY <1>1 DEF Sound, Complete, Ordered, Newer

(* Before the first request nothing is published.                          *)
LEMMA InitStreams == Init => Streams
  BY DEF Init, Streams, Fresh

(* BeginPublish: what p offered is what it was, until it offers the event. *)
LEMMA BeginSound ==
  ASSUME TypeOK, BrokerInv, NEW r \in subscribers, NEW p \in Publishers, Sound(r, p),
         BeginPublish(p)
  PROVE  Sound(r, p)'
<1> DEFINE b == begun[p]  j == joined[r][p]
<1>1. b \in Nat /\ j \in Nat /\ j <= b
  BY DEF TypeOK, Sound, Newer
<1>2. todo[p] = {} /\ todo'[p] = subscribers /\ begun'[p] = b + 1
  BY DEF BeginPublish, BrokerInv, TypeOK
<1>3. UNCHANGED <<received, ch, missed, joined>>
  BY DEF BeginPublish, broker, history
<1>4. Offered(r, p) = {n \in j + 1 .. b : TRUE}
  BY <1>2 DEF Offered
<1>5. Offered(r, p)' = {n \in j + 1 .. b + 1 : n < b + 1}
  BY <1>2, <1>3 DEF Offered
<1>6. Offered(r, p)' = Offered(r, p)
  <2> HIDE DEF b, j
  <2> QED
    BY <1>1, <1>4, <1>5
<1>7. Newer(r, p)'
  <2>1. joined'[r][p] = j /\ j <= b + 1 /\ j < b + 1
    <3> HIDE DEF b, j
    <3>1. j <= b + 1 /\ j < b + 1
      BY <1>1
    <3> QED
      BY <1>3, <3>1 DEF j
  <2> QED
    BY <1>2, <1>3, <1>6, <2>1 DEF Sound, Newer
<1>8. Got(r)' = Got(r)
  BY <1>3 DEF Got
<1> QED
  BY <1>3, <1>6, <1>7, <1>8 DEF Sound, Complete, Ordered

(* Offer: the event is newer than all of p that r got, and is added to     *)
(* them, or is missed.                                                     *)
LEMMA OfferSound ==
  ASSUME TypeOK, BrokerInv, NEW r \in subscribers, NEW p \in Publishers, Sound(r, p),
         Offer(p, r)
  PROVE  Sound(r, p)'
<1> DEFINE b == begun[p]  j == joined[r][p]  e == <<p, begun[p]>>
           got == Got(r)  max == MaxEvents[p]
<1>1. b \in Nat /\ j \in Nat /\ j < b /\ r \in todo[p] /\ b <= max /\ max \in Nat
  BY BrokerAssumption DEF TypeOK, Sound, Newer, Offer
<1>2. r \notin todo'[p] /\ UNCHANGED <<begun, joined, received>> /\ r \in Requests
  BY DEF Offer, TypeOK
<1>3. Offered(r, p) = {n \in j + 1 .. b : n < b}
  BY <1>1 DEF Offered
<1>4. Offered(r, p)' = j + 1 .. b
  BY <1>2 DEF Offered
<1>5. e \in Events
  BY <1>1, EventInHand
<1>6. /\ b \notin Offered(r, p) /\ b \in 1 .. max
      /\ \A n : n \in Offered(r, p)' <=> n \in Offered(r, p) \/ n = b
  <2> HIDE DEF b, j, max
  <2> QED
    BY <1>1, <1>3, <1>4
<1>7. e \notin missed[r]
  BY <1>6 DEF Sound, Newer
<1>8. Newer(r, p)'
  <2>1. \A x : x \in missed'[r] => x \in missed[r] \/ x = e
    BY <1>2 DEF Offer, TypeOK
  <2>2. \A n \in 1 .. max : <<p, n>> \in missed'[r] => n \in Offered(r, p)'
    BY <1>6, <2>1 DEF Sound, Newer
  <2>3. joined'[r][p] <= begun'[p]
    BY <1>2 DEF Sound, Newer
  <2> QED
    BY <1>2, <2>2, <2>3 DEF Newer
<1>9. CASE ~(Len(ch[r]) < Cap)
  <2>1. missed'[r] = missed[r] \cup {e} /\ ch' = ch
    BY <1>2, <1>9 DEF Offer, TypeOK
  <2>2. Got(r)' = got
    BY <1>2, <2>1 DEF Got
  <2>3. Complete(r, p)'
    <3> SUFFICES ASSUME NEW n \in 1 .. max
                 PROVE  <<p, n>> \in Range(got) <=>
                          n \in Offered(r, p)' /\ <<p, n>> \notin missed'[r]
      BY <2>2 DEF Complete
    <3>1. <<p, n>> \in Range(got) <=> n \in Offered(r, p) /\ <<p, n>> \notin missed[r]
      BY DEF Sound, Complete
    <3> QED
      BY <3>1, <2>1, <1>6
  <2> QED
    BY <1>8, <2>2, <2>3 DEF Sound, Ordered
<1>10. CASE Len(ch[r]) < Cap
  <2>1. missed' = missed /\ ch'[r] = Append(ch[r], e)
    BY <1>2, <1>10 DEF Offer, TypeOK
  <2>2. ch[r] \in Seq(Events) /\ received[r] \in Seq(Events) /\ got \in Seq(Events)
    BY <1>2 DEF TypeOK, Got
  <2>3. Got(r)' = Append(got, e)
    <3>1. received[r] \o Append(ch[r], e) = Append(received[r] \o ch[r], e)
      <4>1. \A s, t \in Seq(Events), x \in Events : s \o Append(t, x) = Append(s \o t, x)
        BY AppendToEnd
      <4> QED
        BY <1>5, <2>2, <4>1
    <3> QED
      BY <1>2, <2>1, <3>1 DEF Got
  <2>4. \A x : x \in Range(Append(got, e)) <=> x \in Range(got) \/ x = e
    BY <2>2, <1>5, AppendRange
  <2>5. Complete(r, p)'
    <3> SUFFICES ASSUME NEW n \in 1 .. max
                 PROVE  <<p, n>> \in Range(Append(got, e)) <=>
                          n \in Offered(r, p)' /\ <<p, n>> \notin missed[r]
      BY <2>1, <2>3 DEF Complete
    <3>1. <<p, n>> \in Range(got) <=> n \in Offered(r, p) /\ <<p, n>> \notin missed[r]
      BY DEF Sound, Complete
    <3> QED
      BY <3>1, <2>4, <1>6, <1>7
  <2>6. \A i \in DOMAIN got : got[i][1] = p => got[i][2] < b
    <3> SUFFICES ASSUME NEW i \in DOMAIN got, got[i][1] = p PROVE got[i][2] < b
      OBVIOUS
    <3>1. got[i] \in Events /\ got[i] \in Range(got)
      BY <2>2 DEF Range
    <3>2. got[i][2] \in 1 .. max /\ got[i] = <<p, got[i][2]>>
      BY <3>1 DEF Events
    <3>3. got[i][2] \in Offered(r, p)
      BY <3>1, <3>2 DEF Sound, Complete
    <3> QED
      BY <3>3, <1>3
  <2>7. Ordered(r, p)'
    <3> SUFFICES ASSUME NEW i \in DOMAIN Append(got, e), NEW k \in DOMAIN Append(got, e),
                        i < k, Append(got, e)[i][1] = p, Append(got, e)[k][1] = p
                 PROVE  Append(got, e)[i][2] < Append(got, e)[k][2]
      BY <2>3 DEF Ordered
    <3> HIDE DEF got, e, b
    <3>4. /\ DOMAIN got = 1 .. Len(got) /\ DOMAIN Append(got, e) = 1 .. Len(got) + 1
          /\ Append(got, e)[Len(got) + 1] = e /\ Len(got) \in Nat
          /\ \A m \in 1 .. Len(got) : Append(got, e)[m] = got[m]
      BY <2>2, <1>5
    <3>5. i \in 1 .. Len(got) /\ (k \in 1 .. Len(got) \/ k = Len(got) + 1)
      BY <3>4
    <3>1. /\ i \in DOMAIN got /\ Append(got, e)[i] = got[i]
          /\ (k \in DOMAIN got /\ Append(got, e)[k] = got[k]) \/ Append(got, e)[k] = e
      BY <3>4, <3>5
    <3>2. CASE k \in DOMAIN got /\ Append(got, e)[k] = got[k]
      BY <3>1, <3>2 DEF Sound, Ordered, got
    <3>3. CASE Append(got, e)[k] = e
      BY <3>1, <3>3, <2>6 DEF e, b
    <3> QED
      BY <3>1, <3>2, <3>3
  <2> QED
    BY <1>8, <2>5, <2>7 DEF Sound
<1> QED
  BY <1>9, <1>10

(* ... and what r got of the other publishers is what it was.              *)
LEMMA OthersSound ==
  ASSUME TypeOK, BrokerInv, NEW r \in subscribers, NEW p \in Publishers, NEW q \in Publishers,
         q # p, Sound(r, q), Offer(p, r)
  PROVE  Sound(r, q)'
<1> DEFINE e == <<p, begun[p]>>  got == Got(r)
<1>1. UNCHANGED <<begun, joined, received>> /\ r \in Requests /\ todo'[q] = todo[q]
  BY DEF Offer, TypeOK
<1>2. Offered(r, q)' = Offered(r, q)
  BY <1>1 DEF Offered
<1>3. e \in Events
  BY EventInHand DEF Offer, BrokerInv, TypeOK
<1>4. CASE ~(Len(ch[r]) < Cap)
  <2>1. missed'[r] = missed[r] \cup {e} /\ ch' = ch
    BY <1>1, <1>4 DEF Offer, TypeOK
  <2>2. Got(r)' = got
    BY <1>1, <2>1 DEF Got
  <2>3. \A n : <<q, n>> \in missed'[r] <=> <<q, n>> \in missed[r]
    BY <2>1
  <2> QED
    BY <1>1, <1>2, <2>2, <2>3 DEF Sound, Complete, Ordered, Newer
<1>5. CASE Len(ch[r]) < Cap
  <2>1. missed' = missed /\ ch'[r] = Append(ch[r], e)
    BY <1>1, <1>5 DEF Offer, TypeOK
  <2>2. ch[r] \in Seq(Events) /\ received[r] \in Seq(Events) /\ got \in Seq(Events)
    BY <1>1 DEF TypeOK, Got
  <2>3. Got(r)' = Append(got, e)
    <3>1. received[r] \o Append(ch[r], e) = Append(received[r] \o ch[r], e)
      <4>1. \A s, t \in Seq(Events), x \in Events : s \o Append(t, x) = Append(s \o t, x)
        BY AppendToEnd
      <4> QED
        BY <1>3, <2>2, <4>1
    <3> QED
      BY <1>1, <2>1, <3>1 DEF Got
  <2>4. \A x : x \in Range(Append(got, e)) <=> x \in Range(got) \/ x = e
    BY <2>2, <1>3, AppendRange
  <2>5. Complete(r, q)'
    BY <1>2, <2>1, <2>3, <2>4 DEF Sound, Complete
  <2>6. Ordered(r, q)'
    <3> SUFFICES ASSUME NEW i \in DOMAIN Append(got, e), NEW k \in DOMAIN Append(got, e),
                        i < k, Append(got, e)[i][1] = q, Append(got, e)[k][1] = q
                 PROVE  Append(got, e)[i][2] < Append(got, e)[k][2]
      BY <2>3 DEF Ordered
    <3>1. e[1] # q
      OBVIOUS
    <3> HIDE DEF got, e
    <3>2. /\ DOMAIN got = 1 .. Len(got) /\ DOMAIN Append(got, e) = 1 .. Len(got) + 1
          /\ Append(got, e)[Len(got) + 1] = e /\ Len(got) \in Nat
          /\ \A m \in 1 .. Len(got) : Append(got, e)[m] = got[m]
      BY <2>2, <1>3
    <3>3. i \in 1 .. Len(got) /\ k \in 1 .. Len(got)
      BY <3>1, <3>2
    <3>4. got[i][1] = q /\ got[k][1] = q
      BY <3>2, <3>3
    <3>5. Append(got, e)[i] = got[i] /\ Append(got, e)[k] = got[k]
      BY <3>2, <3>3
    <3> QED
      BY <3>2, <3>3, <3>4, <3>5 DEF Sound, Ordered, got
  <2> QED
    BY <1>1, <1>2, <2>1, <2>5, <2>6 DEF Sound, Newer
<1> QED
  BY <1>4, <1>5

(* Every step keeps all streams sound.                                     *)
LEMMA NextStreams == TypeOK /\ BrokerInv /\ Streams /\ [Next]_vars => Streams'
<1> SUFFICES ASSUME TypeOK, BrokerInv, Streams, [Next]_vars PROVE Streams'
  OBVIOUS
<1> USE DEF broker, publish, history
<1>1. ASSUME UNCHANGED <<ch, publish, history>>, subscribers' \subseteq subscribers,
             \A r \in Requests : stage'[r] \in {"new", "subscribing"} =>
                                 stage[r] \in {"new", "subscribing"}
      PROVE  Streams'
  <2>1. \A r \in subscribers', p \in Publishers : Sound(r, p)'
    <3> SUFFICES ASSUME NEW r \in subscribers', NEW p \in Publishers PROVE Sound(r, p)'
      OBVIOUS
    <3>1. Sound(r, p)
      BY <1>1 DEF Streams
    <3>2. Got(r)' = Got(r)
      BY <1>1 DEF Got
    <3> QED
      BY <1>1, <3>1, <3>2, SoundKept
  <2>2. \A r \in Requests : Fresh(r)'
    BY <1>1 DEF Streams, Fresh
  <2> QED
    BY <2>1, <2>2 DEF Streams
<1>2. ASSUME NEW r \in Requests, Open(r) PROVE Streams'
  BY <1>1, <1>2 DEF Open, TypeOK
<1>3. ASSUME NEW r \in Requests, Leave(r) PROVE Streams'
  BY <1>1, <1>3 DEF Leave, TypeOK
<1>4. ASSUME NEW r \in Requests, Unsubscribe(r) PROVE Streams'
  BY <1>1, <1>4 DEF Unsubscribe, TypeOK
<1>5. ASSUME NEW r \in Requests, Close(r) PROVE Streams'
  BY <1>1, <1>5 DEF Close, TypeOK
<1>6. ASSUME NEW r \in Requests, Subscribe(r) PROVE Streams'
  <2>1. UNCHANGED <<ch, received, missed, begun, todo>> /\ subscribers' = subscribers \cup {r}
    BY <1>6 DEF Subscribe
  <2>2. ASSUME NEW s \in subscribers, s # r, NEW p \in Publishers PROVE Sound(s, p)'
    <3>1. Sound(s, p) /\ joined'[s] = joined[s]
      BY <1>6, <2>2 DEF Streams, Subscribe, TypeOK
    <3>2. Got(s)' = Got(s)
      BY <2>1 DEF Got
    <3> QED
      BY <2>1, <3>1, <3>2, SoundKept
  (* Nothing is being published, and r has nothing.                        *)
  <2>3. ASSUME NEW p \in Publishers PROVE Sound(r, p)'
    <3>1. /\ joined'[r][p] = begun'[p] /\ begun'[p] \in Nat /\ todo'[p] = {}
          /\ received'[r] = <<>> /\ ch'[r] = <<>> /\ missed'[r] = {}
      BY <1>6, <2>1 DEF Subscribe, LockFree, Streams, Fresh, TypeOK, BrokerInv
    <3>2. Offered(r, p)' = {}
      BY <3>1 DEF Offered
    <3>3. Got(r)' = <<>>
      BY <3>1 DEF Got
    <3> QED
      BY <3>1, <3>2, <3>3 DEF Sound, Complete, Ordered, Newer, Range
  <2>4. \A s \in Requests : Fresh(s)'
    BY <1>6, <2>1 DEF Subscribe, Streams, Fresh, TypeOK
  <2> QED
    BY <2>1, <2>2, <2>3, <2>4 DEF Streams
<1>7. ASSUME NEW r \in Requests, Read(r) PROVE Streams'
  <2>1. /\ UNCHANGED <<stage, subscribers, begun, todo, missed, joined>>
        /\ received'[r] = Append(received[r], Head(ch[r])) /\ ch'[r] = Tail(ch[r])
        /\ \A s \in Requests \ {r} : received'[s] = received[s] /\ ch'[s] = ch[s]
        /\ received[r] \in Seq(Events) /\ ch[r] \in Seq(Events) /\ ch[r] # <<>>
    BY <1>7 DEF Read, TypeOK
  <2>2. \A s \in Requests : Got(s)' = Got(s)
    <3>1. Got(r)' = Got(r)
      BY <2>1, MoveHead DEF Got
    <3>2. \A s \in Requests \ {r} : Got(s)' = Got(s)
      BY <2>1 DEF Got
    <3> QED
      BY <3>1, <3>2
  <2>3. ASSUME NEW s \in subscribers', NEW p \in Publishers PROVE Sound(s, p)'
    <3>1. Sound(s, p) /\ Got(s)' = Got(s)
      BY <2>1, <2>2 DEF Streams, TypeOK
    <3> QED
      BY <2>1, <3>1, SoundKept
  <2>4. \A s \in Requests : Fresh(s)'
    <3>1. stage[r] = "streaming"
      BY <1>7 DEF Read
    <3> QED
      BY <2>1, <3>1 DEF Streams, Fresh
  <2> QED
    BY <2>3, <2>4 DEF Streams
<1>8. ASSUME NEW p \in Publishers, BeginPublish(p) PROVE Streams'
  <2>1. UNCHANGED <<stage, subscribers, ch, closed, received, missed, joined>>
    BY <1>8 DEF BeginPublish
  <2>2. ASSUME NEW r \in subscribers', NEW q \in Publishers PROVE Sound(r, q)'
    <3>1. Sound(r, q) /\ r \in subscribers
      BY <2>1 DEF Streams
    <3>2. CASE q = p
      BY <1>8, <3>1, <3>2, BeginSound
    <3>3. CASE q # p
      <4>1. begun'[q] = begun[q] /\ todo'[q] = todo[q]
        BY <1>8, <3>3 DEF BeginPublish, TypeOK
      <4>2. Got(r)' = Got(r)
        BY <2>1 DEF Got
      <4> QED
        BY <2>1, <3>1, <4>1, <4>2, SoundKept
    <3> QED
      BY <3>2, <3>3
  <2>3. \A r \in Requests : Fresh(r)'
    BY <2>1 DEF Streams, Fresh
  <2> QED
    BY <2>2, <2>3 DEF Streams
<1>9. ASSUME NEW p \in Publishers, NEW r \in Requests, Offer(p, r) PROVE Streams'
  <2>1. /\ UNCHANGED <<stage, subscribers, begun, received, joined>> /\ r \in subscribers
        /\ stage[r] \in {"streaming", "leaving"}
        /\ \A s \in Requests \ {r} : ch'[s] = ch[s] /\ missed'[s] = missed[s]
        /\ \A q \in Publishers \ {p} : todo'[q] = todo[q]
        /\ \A s \in Requests \ {r} : s \in todo'[p] <=> s \in todo[p]
    BY <1>9 DEF Offer, TypeOK, BrokerInv
  <2>2. ASSUME NEW s \in subscribers', NEW q \in Publishers PROVE Sound(s, q)'
    <3>1. Sound(s, q) /\ s \in subscribers /\ s \in Requests
      BY <2>1 DEF Streams, TypeOK
    <3>2. CASE s = r /\ q = p
      BY <1>9, <3>1, <3>2, OfferSound
    <3>3. CASE s # r
      <4>1. Got(s)' = Got(s)
        BY <2>1, <3>1, <3>3 DEF Got
      <4>2. s \in todo'[q] <=> s \in todo[q]
        BY <2>1, <3>1, <3>3
      <4> QED
        BY <2>1, <3>1, <3>3, <4>1, <4>2, SoundKept
    <3>4. CASE s = r /\ q # p
      BY <1>9, <2>1, <3>1, <3>4, OthersSound
    <3> QED
      BY <3>2, <3>3, <3>4
  <2>3. \A s \in Requests : Fresh(s)'
    BY <2>1 DEF Streams, Fresh
  <2> QED
    BY <2>2, <2>3 DEF Streams
<1>10. ASSUME NEW p \in Publishers, EndPublish(p) PROVE Streams'
  <2>1. UNCHANGED <<stage, subscribers, ch, begun, todo, received, missed, joined>>
    BY <1>10 DEF EndPublish
  <2>2. ASSUME NEW r \in subscribers, NEW q \in Publishers PROVE Sound(r, q)'
    <3>1. Sound(r, q) /\ Got(r)' = Got(r)
      BY <2>1 DEF Streams, Got
    <3> QED
      BY <2>1, <3>1, SoundKept
  <2> QED
    BY <2>1, <2>2 DEF Streams, Fresh
<1>11. CASE UNCHANGED vars
  BY <1>1, <1>11 DEF vars
<1> QED
  BY <1>2, <1>3, <1>4, <1>5, <1>6, <1>7, <1>8, <1>9, <1>10, <1>11
     DEF Next, Leaving, Publishing

(* However many events are published and however slow a stream's client    *)
(* is: it has what was published since it subscribed, in order and once,   *)
(* but for what found its channel full.                                    *)
THEOREM StreamsAreComplete == Spec => []StreamIsComplete
<1>1. Spec => [](TypeOK /\ BrokerInv /\ Streams)
  BY InitType, NextType, InitStreams, NextStreams, PTL DEF Spec
<1>2. TypeOK /\ BrokerInv /\ Streams => StreamIsComplete
  BY StreamsAre
<1> QED
  BY <1>1, <1>2, PTL

(***************************************************************************)
(* The closed channels.                                                    *)
(***************************************************************************)

(* The invariant tells closed channels from those a publisher holds.       *)
LEMMA BrokerIsSafe == TypeOK /\ BrokerInv => NoSendOnClosed
  BY DEF TypeOK, BrokerInv, NoSendOnClosed, Stages

(* ssePublish never sends on a channel that SSEUnsubscribe closed, however *)
(* many events are published while however many clients come and go.       *)
THEOREM ClosedIsUnreachable == Spec => []NoSendOnClosed
<1>1. Spec => [](TypeOK /\ BrokerInv)
  BY InitType, NextType, PTL DEF Spec
<1> QED
  BY <1>1, BrokerIsSafe, PTL
=============================================================================
