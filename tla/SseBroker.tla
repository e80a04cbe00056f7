------------------------------ MODULE SseBroker ------------------------------
(***************************************************************************)
(* The live feed: the broker of internal/whatsapp/sse.go and the streaming *)
(* request of internal/api/sse.go.  Any goroutine that saved an event      *)
(* publishes it to every open stream; a stream has a bounded channel and   *)
(* loses what does not fit.                                                *)
(*                                                                         *)
(* An event is its publisher and the publisher's count.  The type filter   *)
(* of a stream is applied to what was read and is left out.                *)
(***************************************************************************)
EXTENDS Naturals, Sequences, FiniteSets, Functions

CONSTANTS
  Publishers,  (* Goroutines that save events.                              *)
  Requests,    (* Streaming requests, each served once.                     *)
  Cap,         (* Capacity of a subscriber's channel: 64 in the code.       *)
  MaxEvents    (* Bound of the model: events each goroutine publishes.      *)

ASSUME BrokerAssumption == Cap \in Nat \ {0} /\ MaxEvents \in [Publishers -> Nat]

VARIABLES
  stage,        (* What each request is doing.                              *)
  subscribers,  (* broker.subscribers: requests, for their channels.        *)
  ch,           (* The channel of each request.                             *)
  closed,       (* Requests whose channel is closed.                        *)
  begun,        (* Events each publisher began to publish.                  *)
  publishing,   (* Publishers that hold the read lock.                      *)
  todo,         (* Subscribers a publisher still has to offer its event.    *)
  received,     (* History: what each request took from its channel.        *)
  missed,       (* History: events a request's full channel did not take.   *)
  joined        (* History: begun, when the request was subscribed.         *)

broker  == <<subscribers, ch, closed>>
publish == <<begun, publishing, todo>>
history == <<received, missed, joined>>
vars    == <<stage, broker, publish, history>>

Stages == {"new", "subscribing", "streaming", "leaving", "closing", "done"}
Events == {e \in Publishers \X Nat : e[2] \in 1 .. MaxEvents[e[1]]}

(* The RWMutex: a goroutine that waits for Lock keeps new readers out.     *)
LockFree   == publishing = {}
LockWanted == \E r \in Requests : stage[r] \in {"subscribing", "leaving"}

Init ==
  /\ stage = [r \in Requests |-> "new"]
  /\ subscribers = {} /\ ch = [r \in Requests |-> <<>>] /\ closed = {}
  /\ begun = [p \in Publishers |-> 0] /\ publishing = {}
  /\ todo = [p \in Publishers |-> {}]
  /\ received = [r \in Requests |-> <<>>] /\ missed = [r \in Requests |-> {}]
  /\ joined = [r \in Requests |-> [p \in Publishers |-> 0]]

(***************************************************************************)
(* A streaming request.                                                    *)
(***************************************************************************)

(* It has sent its headers and calls SSESubscribe ...                      *)
Open(r) ==
  /\ stage[r] = "new"
  /\ stage' = [stage EXCEPT ![r] = "subscribing"]
  /\ UNCHANGED <<broker, publish, history>>

Subscribe(r) ==
  /\ stage[r] = "subscribing" /\ LockFree
  /\ subscribers' = subscribers \cup {r}
  /\ stage' = [stage EXCEPT ![r] = "streaming"]
  /\ joined' = [joined EXCEPT ![r] = begun]
  /\ UNCHANGED <<ch, closed, publish, received, missed>>

(* ... reads its channel ...                                               *)
Read(r) ==
  /\ stage[r] = "streaming" /\ ch[r] # <<>>
  /\ received' = [received EXCEPT ![r] = Append(@, Head(ch[r]))]
  /\ ch' = [ch EXCEPT ![r] = Tail(@)]
  /\ UNCHANGED <<stage, subscribers, closed, publish, missed, joined>>

(* ... until the client goes away, and returns through SSEUnsubscribe,     *)
Leave(r) ==
  /\ stage[r] = "streaming"
  /\ stage' = [stage EXCEPT ![r] = "leaving"]
  /\ UNCHANGED <<broker, publish, history>>

(* Mutant: the channel is closed before it is taken out of the map.        *)
UnsubscribeClosed(r) ==
  /\ stage[r] = "leaving"
  /\ closed' = closed \cup {r}
  /\ subscribers' = IF LockFree THEN subscribers \ {r} ELSE subscribers
  /\ stage' = [stage EXCEPT ![r] = IF LockFree THEN "closing" ELSE @]
  /\ UNCHANGED <<ch, publish, history>>

Unsubscribe(r) ==
  /\ stage[r] = "leaving" /\ LockFree
  /\ subscribers' = subscribers \ {r}
  /\ stage' = [stage EXCEPT ![r] = "closing"]
  /\ UNCHANGED <<ch, closed, publish, history>>

(* which closes the channel after it has released the lock.                *)
Close(r) ==
  /\ stage[r] = "closing"
  /\ closed' = closed \cup {r}
  /\ stage' = [stage EXCEPT ![r] = "done"]
  /\ UNCHANGED <<subscribers, ch, publish, history>>

(***************************************************************************)
(* ssePublish.                                                             *)
(***************************************************************************)

(* Mutant: an event is not worth waiting for the lock.                     *)
TryPublish(p) ==
  /\ begun[p] < MaxEvents[p] /\ p \notin publishing
  /\ begun' = [begun EXCEPT ![p] = @ + 1]
  /\ publishing' = IF LockWanted THEN publishing ELSE publishing \cup {p}
  /\ todo' = [todo EXCEPT ![p] = IF LockWanted THEN {} ELSE subscribers]
  /\ UNCHANGED <<stage, broker, history>>

BeginPublish(p) ==
  /\ begun[p] < MaxEvents[p] /\ p \notin publishing
  /\ ~LockWanted
  /\ begun' = [begun EXCEPT ![p] = @ + 1]
  /\ publishing' = publishing \cup {p}
  /\ todo' = [todo EXCEPT ![p] = subscribers]
  /\ UNCHANGED <<stage, broker, history>>

(* Mutant: the send has no default branch.                                 *)
OfferAndWait(p, r) ==
  /\ r \in todo[p] /\ Len(ch[r]) < Cap
  /\ todo' = [todo EXCEPT ![p] = @ \ {r}]
  /\ ch' = [ch EXCEPT ![r] = Append(@, <<p, begun[p]>>)]
  /\ UNCHANGED <<stage, subscribers, closed, begun, publishing, history>>

(* Mutant: the channel is not bounded.                                     *)
OfferAlways(p, r) ==
  /\ r \in todo[p]
  /\ todo' = [todo EXCEPT ![p] = @ \ {r}]
  /\ ch' = [ch EXCEPT ![r] = Append(@, <<p, begun[p]>>)]
  /\ UNCHANGED <<stage, subscribers, closed, begun, publishing, history>>

(* A non-blocking send to one subscriber.                                  *)
Offer(p, r) ==
  /\ r \in todo[p]
  /\ todo' = [todo EXCEPT ![p] = @ \ {r}]
  /\ IF Len(ch[r]) < Cap
     THEN ch' = [ch EXCEPT ![r] = Append(@, <<p, begun[p]>>)] /\ UNCHANGED missed
     ELSE missed' = [missed EXCEPT ![r] = @ \cup {<<p, begun[p]>>}] /\ UNCHANGED ch
  /\ UNCHANGED <<stage, subscribers, closed, begun, publishing, received, joined>>

EndPublish(p) ==
  /\ p \in publishing /\ todo[p] = {}
  /\ publishing' = publishing \ {p}
  /\ UNCHANGED <<stage, broker, begun, todo, history>>

(***************************************************************************)
(* The specification.                                                      *)
(***************************************************************************)

Publishing(p) == (\E r \in Requests : Offer(p, r)) \/ EndPublish(p)
Leaving(r)    == Unsubscribe(r) \/ Close(r)

Next ==
  \/ \E r \in Requests : Open(r) \/ Subscribe(r) \/ Read(r) \/ Leave(r) \/ Leaving(r)
  \/ \E p \in Publishers : BeginPublish(p) \/ Publishing(p)

(* Goroutines in the broker go on, and a writer that waits gets the lock;  *)
(* nobody has to read: the client at the other end may have stalled.       *)
Fairness ==
  /\ \A r \in Requests : WF_vars(Subscribe(r)) /\ WF_vars(Leaving(r))
  /\ \A p \in Publishers : WF_vars(Publishing(p))

Spec == Init /\ [][Next]_vars
FairSpec == Spec /\ Fairness

(***************************************************************************)
(* Properties.                                                             *)
(***************************************************************************)

(* The type invariant, with the capacity of the channels.                  *)
TypeOK ==
  /\ stage \in [Requests -> Stages]
  /\ subscribers \subseteq Requests /\ closed \subseteq Requests
  /\ ch \in [Requests -> Seq(Events)] /\ \A r \in Requests : Len(ch[r]) <= Cap
  /\ begun \in [Publishers -> Nat] /\ \A p \in Publishers : begun[p] <= MaxEvents[p]
  /\ publishing \subseteq Publishers
  /\ todo \in [Publishers -> SUBSET Requests]
  /\ received \in [Requests -> Seq(Events)] /\ missed \in [Requests -> SUBSET Events]
  /\ joined \in [Requests -> [Publishers -> Nat]]

(* ssePublish never sends on a closed channel, which would end the process: *)
(* whoever closes one has waited for the publishers that may hold it.       *)
NoSendOnClosed == \A p \in Publishers : todo[p] \cap closed = {}

(* What makes it so: a publisher only holds channels of subscribers, and a *)
(* subscriber's channel is open.                                           *)
BrokerInv ==
  /\ \A p \in Publishers :
       /\ todo[p] \subseteq subscribers
       /\ todo[p] # {} => p \in publishing
       /\ p \in publishing => begun[p] # 0
  /\ \A r \in Requests :
       /\ r \in subscribers <=> stage[r] \in {"streaming", "leaving"}
       /\ r \in closed <=> stage[r] = "done"

(* What request r was given, and the events of p it was offered: all since *)
(* it subscribed but the one of which p still has to offer it.             *)
Got(r) == received[r] \o ch[r]
Offered(r, p) ==
  {n \in joined[r][p] + 1 .. begun[p] : r \in todo[p] => n < begun[p]}

(* A stream is complete and in order: of each publisher it has every event *)
(* published since it subscribed, in order and once, except those that     *)
(* found its channel full, and the one still being offered.                *)
StreamIsComplete ==
  \A r \in subscribers, p \in Publishers :
    /\ \A n \in 1 .. MaxEvents[p] :
         <<p, n>> \in Range(Got(r)) <=> n \in Offered(r, p) /\ <<p, n>> \notin missed[r]
    /\ \A i, k \in DOMAIN Got(r) :
         i < k /\ Got(r)[i][1] = p /\ Got(r)[k][1] = p => Got(r)[i][2] < Got(r)[k][2]

(* What makes it so: a stream begins with nothing, what is to be offered   *)
(* is newer than the subscription, and only what was offered is missed.    *)
StreamInv ==
  \A r \in Requests :
    /\ stage[r] \in {"new", "subscribing"} =>
         received[r] = <<>> /\ ch[r] = <<>> /\ missed[r] = {}
    /\ r \in subscribers => \A p \in Publishers :
         /\ joined[r][p] <= begun[p]
         /\ r \in todo[p] => joined[r][p] < begun[p]
         /\ \A n \in 1 .. MaxEvents[p] : <<p, n>> \in missed[r] => n \in Offered(r, p)

(* A stream that nobody reads any more holds up neither the goroutines     *)
(* that publish nor the requests that come and go.                         *)
NobodyWaitsForReaders ==
  /\ \A p \in Publishers : (p \in publishing) ~> (p \notin publishing)
  /\ \A r \in Requests :
       /\ (stage[r] = "leaving") ~> (stage[r] = "done")
       /\ (stage[r] = "subscribing") ~> (stage[r] = "streaming")
=============================================================================
