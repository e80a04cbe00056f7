-------------------------- MODULE ConnectionProofs --------------------------
(***************************************************************************)
(* Theorems about Connection, for any number of requests, goroutines,      *)
(* clients, codes and lost connections.                                    *)
(***************************************************************************)
EXTENDS Connection, TLAPS

(* Nothing has happened to a client that does not exist yet.               *)
Unmade == \A c \in Clients : c > made => link[c] = "down" /\ qr[c].state = "none"

(* Only a device with an id is online; it got the id from the store or     *)
(* through the channel.                                                    *)
DeviceShape ==
  \A c \in Clients : /\ link[c] = "online" => device[c]
                     /\ device[c] => qr[c].state \in {"none", "success"}

(* A channel that does not exist gives nothing, one that has a result in   *)
(* hand has ended.                                                         *)
ChannelShape ==
  \A c \in Clients : /\ qr[c].state = "none" => qr[c].left = 0 /\ qr[c].doing = "recv"
                     /\ qr[c].doing \in {"clear", "ended"} => qr[c].state # "open"

(* The event in hand says what became of the connection.                   *)
EventShape ==
  \A c \in Clients : event[c] \in {"Disconnected", "LoggedOut", "StreamReplaced"} =>
                       link[c] # "online"

(* Whose code may be shown.                                                *)
CodeShape ==
  \A c \in Clients : lastQR = c => qr[c].state # "none"

(* What the current client, online, has said about itself, unless it has   *)
(* still something to say.                                                 *)
StatusShape ==
  \A c \in Clients :
    /\ c = client /\ own /\ link[c] = "online" /\ event[c] \in {"none", "clear"}
    /\ qr[c].state = "none" \/ qr[c].doing \in {"clear", "ended"}
    => connStatus = "connected"

StatusInv == /\ Unmade /\ DeviceShape /\ ChannelShape /\ EventShape /\ CodeShape
             /\ StatusShape /\ EndedChannelShowsNothing

(* A channel from which a code is taken.                                   *)
LEMMA CodeTaken ==
  ASSUME NEW q \in QrChannel, NEW n \in 0 .. Codes
  PROVE  LET p == [q EXCEPT !.left = n, !.doing = "code"]
         IN p \in QrChannel /\ p.given = q.given /\ p.left = n
BY DEF QrChannel

(* A step that sets the channel of one client to q.                        *)
LEMMA QrUpdate ==
  ASSUME TypeOK, NEW c \in Clients, NEW q \in QrChannel, q.left <= q.given,
         qr' = [qr EXCEPT ![c] = q]
  PROVE  qr' \in [Clients -> QrChannel] /\ \A d \in Clients : qr'[d].left <= qr'[d].given
BY DEF TypeOK

(* A step that sets the state of one request to s.                         *)
LEMMA RequestUpdate ==
  ASSUME TypeOK, NEW r \in Requests, NEW s \in RequestState,
         request' = [request EXCEPT ![r] = s]
  PROVE  request' \in [Requests -> RequestState]
BY DEF TypeOK

LEMMA TypeStep ==
  ASSUME TypeOK, [Next]_vars
  PROVE  TypeOK'
<1> USE ConnectionAssumption DEF ConnectionAssumption, Status,
        At, Goto, End, Free, Up, IsConnected, None, Clients, setConnStatus, setLastQR,
        ConnectFails, Connects, Disconnect, Closed, Handled, Idle, Spawn, Reading, Result,
        NoQr, OpenQr, shown, account, network
<1>1. ASSUME NEW c \in Clients, Environment(c) PROVE TypeOK'
  <2>1. CASE Login(c) BY <2>1 DEF Login, TypeOK
  <2>2. CASE GiveCode(c)
    <3> DEFINE q == [qr[c] EXCEPT !.given = @ + 1, !.left = @ + 1]
    <3>1. qr[c] \in QrChannel /\ qr[c].left <= qr[c].given BY DEF TypeOK
    <3>2. qr[c].given \in 0 .. Codes /\ qr[c].left \in 0 .. Codes /\ qr[c].given < Codes
      BY <2>2, <3>1 DEF GiveCode, QrChannel
    <3>3. qr[c].given + 1 \in 0 .. Codes /\ qr[c].left + 1 \in 0 .. Codes
      BY <3>1, <3>2
    <3>4. q \in QrChannel /\ q.given = qr[c].given + 1 /\ q.left = qr[c].left + 1
      <4>1. PICK e \in QrChannel, m \in 0 .. Codes, n \in 0 .. Codes :
              e = qr[c] /\ m = qr[c].given + 1 /\ n = qr[c].left + 1
        BY <3>1, <3>3
      <4>2. q = [e EXCEPT !.given = m, !.left = n] BY <4>1
      <4> HIDE DEF q
      <4>3. q \in QrChannel /\ q.given = m /\ q.left = n BY <4>2 DEF QrChannel
      <4> QED BY <4>1, <4>3
    <3>5. q \in QrChannel /\ q.left <= q.given
      <4> HIDE DEF q
      <4> QED BY <3>1, <3>2, <3>4
    <3>6. qr' = [qr EXCEPT ![c] = q] BY <2>2 DEF GiveCode, TypeOK
    <3>7. qr' \in [Clients -> QrChannel] /\ \A d \in Clients : qr'[d].left <= qr'[d].given
      <4> HIDE DEF q
      <4> QED BY <3>5, <3>6, QrUpdate
    <3> QED BY <2>2, <3>7 DEF GiveCode, TypeOK
  <2>3. CASE Expire(c)
    <3> DEFINE q == [qr[c] EXCEPT !.state = "timeout"]
    <3>1. qr[c] \in QrChannel /\ qr[c].left <= qr[c].given BY DEF TypeOK
    <3>2. q \in QrChannel /\ q.left <= q.given BY <2>3, <3>1 DEF Expire, QrChannel
    <3>3. qr' = [qr EXCEPT ![c] = q] BY <2>3 DEF Expire, TypeOK
    <3>4. qr' \in [Clients -> QrChannel] /\ \A d \in Clients : qr'[d].left <= qr'[d].given
      <4> HIDE DEF q
      <4> QED BY <3>2, <3>3, QrUpdate
    <3> QED BY <2>3, <3>4 DEF Expire, TypeOK
  <2>4. CASE Refuse(c)
    <3> DEFINE q == [qr[c] EXCEPT !.state = "error"]
    <3>1. qr[c] \in QrChannel /\ qr[c].left <= qr[c].given BY DEF TypeOK
    <3>2. q \in QrChannel /\ q.left <= q.given BY <2>4, <3>1 DEF Refuse, QrChannel
    <3>3. qr' = [qr EXCEPT ![c] = q] BY <2>4 DEF Refuse, TypeOK
    <3>4. qr' \in [Clients -> QrChannel] /\ \A d \in Clients : qr'[d].left <= qr'[d].given
      <4> HIDE DEF q
      <4> QED BY <3>2, <3>3, QrUpdate
    <3> QED BY <2>4, <3>4 DEF Refuse, TypeOK
  <2>5. CASE Scan(c)
    <3> DEFINE q == [qr[c] EXCEPT !.state = "success"]
    <3>1. qr[c] \in QrChannel /\ qr[c].left <= qr[c].given BY DEF TypeOK
    <3>2. q \in QrChannel /\ q.left <= q.given BY <2>5, <3>1 DEF Scan, QrChannel
    <3>3. qr' = [qr EXCEPT ![c] = q] BY <2>5 DEF Scan, TypeOK
    <3>4. qr' \in [Clients -> QrChannel] /\ \A d \in Clients : qr'[d].left <= qr'[d].given
      <4> HIDE DEF q
      <4> QED BY <3>2, <3>3, QrUpdate
    <3> QED BY <2>5, <3>4 DEF Scan, TypeOK
  <2>6. CASE Drop(c)
    <3> DEFINE q == IF qr[c].state = "open" THEN [qr[c] EXCEPT !.state = "timeout"] ELSE qr[c]
    <3>1. qr[c] \in QrChannel /\ qr[c].left <= qr[c].given BY DEF TypeOK
    <3>2. q \in QrChannel /\ q.left <= q.given BY <2>6, <3>1 DEF Drop, QrChannel
    <3>3. qr' = [qr EXCEPT ![c] = q] BY <2>6 DEF Drop, TypeOK
    <3>4. qr' \in [Clients -> QrChannel] /\ \A d \in Clients : qr'[d].left <= qr'[d].given
      <4> HIDE DEF q
      <4> QED BY <3>2, <3>3, QrUpdate
    <3> QED BY <2>6, <3>4 DEF Drop, TypeOK
  <2>7. CASE Restore(c) BY <2>7 DEF Restore, TypeOK
  <2>8. CASE Replace(c) BY <2>8 DEF Replace, TypeOK
  <2>9. CASE LogOut(c) BY <2>9 DEF LogOut, TypeOK
  <2> QED BY <1>1, <2>1, <2>2, <2>3, <2>4, <2>5, <2>6, <2>7, <2>8, <2>9 DEF Environment
<1>2. ASSUME NEW c \in Clients, Handler(c) PROVE TypeOK'
  <2>1. CASE HandleConnected(c) BY <2>1 DEF HandleConnected, TypeOK
  <2>2. CASE ClearAfterConnected(c) BY <2>2 DEF ClearAfterConnected, TypeOK
  <2>3. CASE HandleDisconnected(c) BY <2>3 DEF HandleDisconnected, TypeOK
  <2>4. CASE HandleLoggedOut(c) BY <2>4 DEF HandleLoggedOut, TypeOK
  <2>5. CASE HandleStreamReplaced(c) BY <2>5 DEF HandleStreamReplaced, TypeOK
  <2> QED BY <1>2, <2>1, <2>2, <2>3, <2>4, <2>5 DEF Handler
<1>3. ASSUME NEW c \in Clients, Pairing(c) PROVE TypeOK'
  <2>1. CASE TakeCode(c)
    <3> DEFINE q == [qr[c] EXCEPT !.left = @ - 1, !.doing = "code"]
    <3>1. qr[c] \in QrChannel /\ qr[c].left <= qr[c].given BY DEF TypeOK
    <3>2. qr[c].given \in 0 .. Codes /\ qr[c].left \in 0 .. Codes /\ qr[c].left > 0
      BY <2>1, <3>1 DEF TakeCode, QrChannel
    <3>3. qr[c].left - 1 \in 0 .. Codes BY <3>2
    <3>4. q \in QrChannel /\ q.given = qr[c].given /\ q.left = qr[c].left - 1
      BY <3>1, <3>3, CodeTaken
    <3>5. q \in QrChannel /\ q.left <= q.given
      <4> HIDE DEF q
      <4> QED BY <3>1, <3>2, <3>4
    <3>6. qr' = [qr EXCEPT ![c] = q] BY <2>1 DEF TakeCode, TypeOK
    <3>7. qr' \in [Clients -> QrChannel] /\ \A d \in Clients : qr'[d].left <= qr'[d].given
      <4> HIDE DEF q
      <4> QED BY <3>5, <3>6, QrUpdate
    <3> QED BY <2>1, <3>7 DEF TakeCode, TypeOK
  <2>2. CASE ShowCode(c)
    <3> DEFINE q == [qr[c] EXCEPT !.doing = "recv"]
    <3>1. qr[c] \in QrChannel /\ qr[c].left <= qr[c].given BY DEF TypeOK
    <3>2. q \in QrChannel /\ q.left <= q.given BY <2>2, <3>1 DEF ShowCode, QrChannel
    <3>3. qr' = [qr EXCEPT ![c] = q] BY <2>2 DEF ShowCode, TypeOK
    <3>4. qr' \in [Clients -> QrChannel] /\ \A d \in Clients : qr'[d].left <= qr'[d].given
      <4> HIDE DEF q
      <4> QED BY <3>2, <3>3, QrUpdate
    <3> QED BY <2>2, <3>4 DEF ShowCode, TypeOK
  <2>3. CASE TakeResult(c)
    <3> DEFINE q == [qr[c] EXCEPT !.doing = "clear"]
    <3>1. qr[c] \in QrChannel /\ qr[c].left <= qr[c].given BY DEF TypeOK
    <3>2. q \in QrChannel /\ q.left <= q.given BY <2>3, <3>1 DEF TakeResult, QrChannel
    <3>3. qr' = [qr EXCEPT ![c] = q] BY <2>3 DEF TakeResult, TypeOK
    <3>4. qr' \in [Clients -> QrChannel] /\ \A d \in Clients : qr'[d].left <= qr'[d].given
      <4> HIDE DEF q
      <4> QED BY <3>2, <3>3, QrUpdate
    <3> QED BY <2>3, <3>4 DEF TakeResult, TypeOK
  <2>4. CASE ClearCode(c)
    <3> DEFINE q == [qr[c] EXCEPT !.doing = "ended"]
    <3>1. qr[c] \in QrChannel /\ qr[c].left <= qr[c].given BY DEF TypeOK
    <3>2. q \in QrChannel /\ q.left <= q.given BY <2>4, <3>1 DEF ClearCode, QrChannel
    <3>3. qr' = [qr EXCEPT ![c] = q] BY <2>4 DEF ClearCode, TypeOK
    <3>4. qr' \in [Clients -> QrChannel] /\ \A d \in Clients : qr'[d].left <= qr'[d].given
      <4> HIDE DEF q
      <4> QED BY <3>2, <3>3, QrUpdate
    <3> QED BY <2>4, <3>4 DEF ClearCode, TypeOK
  <2>5. CASE TakeError(c)
    <3> DEFINE q == [qr[c] EXCEPT !.doing = "ended"]
    <3>1. qr[c] \in QrChannel /\ qr[c].left <= qr[c].given BY DEF TypeOK
    <3>2. q \in QrChannel /\ q.left <= q.given BY <2>5, <3>1 DEF TakeError, QrChannel
    <3>3. qr' = [qr EXCEPT ![c] = q] BY <2>5 DEF TakeError, TypeOK
    <3>4. qr' \in [Clients -> QrChannel] /\ \A d \in Clients : qr'[d].left <= qr'[d].given
      <4> HIDE DEF q
      <4> QED BY <3>2, <3>3, QrUpdate
    <3> QED BY <2>5, <3>4 DEF TakeError, TypeOK
  <2> QED BY <1>3, <2>1, <2>2, <2>3, <2>4, <2>5 DEF Pairing
<1>4. ASSUME NEW g \in Loops, Reconnect(g) PROVE TypeOK'
  <2>1. CASE EnterLoop(g) BY <2>1 DEF EnterLoop, TypeOK
  <2>2. CASE CheckConnected(g) BY <2>2 DEF CheckConnected, TypeOK
  <2>3. CASE Dial(g) BY <2>3 DEF Dial, TypeOK
  <2>4. CASE LeaveLoop(g) BY <2>4 DEF LeaveLoop, TypeOK
  <2> QED BY <1>4, <2>1, <2>2, <2>3, <2>4 DEF Reconnect
<1>5. ASSUME NEW r \in Requests, Request(r) PROVE TypeOK'
  <2>1. CASE Logout(r) BY <2>1 DEF Logout, TypeOK
  <2>2. CASE StartRequest(r)
    <3>1. PICK s \in RequestState : request' = [request EXCEPT ![r] = s]
      <4>1. [request[r] EXCEPT !.pc = "connect"] \in RequestState BY DEF TypeOK, RequestState
      <4>2. \A pairing \in BOOLEAN : [pc |-> "clear", pairing |-> pairing] \in RequestState
        BY DEF RequestState
      <4>3. CASE Goto(r, "connect") BY <4>1, <4>3
      <4>4. ASSUME NEW pairing \in BOOLEAN,
                   request' = [request EXCEPT ![r] = [pc |-> "clear", pairing |-> pairing]]
            PROVE  \E s \in RequestState : request' = [request EXCEPT ![r] = s]
        BY <4>2, <4>4
      <4> QED BY <2>2, <4>3, <4>4 DEF StartRequest
    <3>2. request' \in [Requests -> RequestState] BY <3>1, RequestUpdate
    <3>3. link' \in [Clients -> {"down", "lost", "up", "online"}] /\ drops' = drops
      BY <2>2 DEF StartRequest, TypeOK
    <3> QED BY <2>2, <3>2, <3>3 DEF StartRequest, TypeOK
  <2>3. CASE ClearClient(r)
    <3> DEFINE s == [request[r] EXCEPT !.pc = "build"]
    <3>1. request[r] \in RequestState BY DEF TypeOK
    <3>2. s \in RequestState BY <3>1 DEF RequestState
    <3>3. request' = [request EXCEPT ![r] = s] BY <2>3 DEF ClearClient
    <3>4. request' \in [Requests -> RequestState]
      <4> HIDE DEF s
      <4> QED BY <3>2, <3>3, RequestUpdate
    <3>5. client' \in Clients \cup {None} /\ client' <= made'
      BY <2>3 DEF ClearClient, TypeOK
    <3>6. own' \in BOOLEAN BY <2>3 DEF ClearClient
    <3> QED BY <2>3, <3>4, <3>5, <3>6 DEF ClearClient, TypeOK
  <2>4. CASE BuildFails(r)
    <3> DEFINE s == Free
    <3>1. request[r] \in RequestState BY DEF TypeOK
    <3>2. s \in RequestState BY <3>1 DEF RequestState
    <3>3. request' = [request EXCEPT ![r] = s] BY <2>4 DEF BuildFails
    <3>4. request' \in [Requests -> RequestState]
      <4> HIDE DEF s
      <4> QED BY <3>2, <3>3, RequestUpdate
    <3> QED BY <2>4, <3>4 DEF BuildFails, TypeOK
  <2>5. CASE Build(r)
    <3> DEFINE s == [Free EXCEPT !.pc = IF request[r].pairing THEN "channel" ELSE "status"]
    <3>1. request[r] \in RequestState BY DEF TypeOK
    <3>2. s \in RequestState BY <3>1 DEF RequestState
    <3>3. request' = [request EXCEPT ![r] = s] BY <2>5 DEF Build
    <3>4. request' \in [Requests -> RequestState]
      <4> HIDE DEF s
      <4> QED BY <3>2, <3>3, RequestUpdate
    <3>5. made' \in Clients /\ client' \in Clients \cup {None} /\ client' <= made'
      BY <2>5 DEF Build, TypeOK
    <3>6. own' \in BOOLEAN BY <2>5 DEF Build
    <3>7. device' \in [Clients -> BOOLEAN] BY <2>5, Zenon DEF Build, TypeOK
    <3> QED BY <2>5, <3>4, <3>5, <3>6, <3>7 DEF Build, TypeOK
  <2>6. CASE GetQRChannel(r)
    <3>1. \E s \in RequestState : request' = [request EXCEPT ![r] = s]
      <4>1. Free \in RequestState /\ [request[r] EXCEPT !.pc = "status"] \in RequestState
        BY DEF TypeOK, RequestState
      <4> QED BY <2>6, <4>1 DEF GetQRChannel
    <3>2. request' \in [Requests -> RequestState] BY <3>1, RequestUpdate
    <3>3. OpenQr \in QrChannel /\ OpenQr.left <= OpenQr.given BY DEF QrChannel
    <3>4. qr' = qr \/ (client \in Clients /\ qr' = [qr EXCEPT ![client] = OpenQr])
      BY <2>6 DEF GetQRChannel, TypeOK
    <3>5. qr' \in [Clients -> QrChannel] /\ \A d \in Clients : qr'[d].left <= qr'[d].given
      <4> HIDE DEF OpenQr
      <4> QED BY <3>3, <3>4, QrUpdate DEF TypeOK
    <3> QED BY <2>6, <3>2, <3>5 DEF GetQRChannel, TypeOK
  <2>7. CASE ShowConnecting(r)
    <3> DEFINE s == [request[r] EXCEPT !.pc = "connect"]
    <3>1. request[r] \in RequestState BY DEF TypeOK
    <3>2. s \in RequestState BY <3>1 DEF RequestState
    <3>3. request' = [request EXCEPT ![r] = s] BY <2>7 DEF ShowConnecting
    <3>4. request' \in [Requests -> RequestState]
      <4> HIDE DEF s
      <4> QED BY <3>2, <3>3, RequestUpdate
    <3> QED BY <2>7, <3>4 DEF ShowConnecting, TypeOK
  <2>8. CASE ConnectClient(r)
    <3> DEFINE s == Free
    <3>1. request[r] \in RequestState BY DEF TypeOK
    <3>2. s \in RequestState BY <3>1 DEF RequestState
    <3>3. request' = [request EXCEPT ![r] = s] BY <2>8 DEF ConnectClient
    <3>4. request' \in [Requests -> RequestState]
      <4> HIDE DEF s
      <4> QED BY <3>2, <3>3, RequestUpdate
    <3> QED BY <2>8, <3>4 DEF ConnectClient, TypeOK
  <2> QED BY <1>5, <2>1, <2>2, <2>3, <2>4, <2>5, <2>6, <2>7, <2>8 DEF Request
<1>6. CASE UNCHANGED vars BY <1>6 DEF vars, TypeOK
<1> QED BY <1>1, <1>2, <1>3, <1>4, <1>5, <1>6 DEF Next

LEMMA LoopStep ==
  ASSUME TypeOK, OneReconnecter, [Next]_vars
  PROVE  OneReconnecter'
<1> USE ConnectionAssumption DEF ConnectionAssumption, TypeOK, OneReconnecter,
        At, Goto, End, Free, Up, IsConnected, None, Clients, setConnStatus, setLastQR,
        ConnectFails, Connects, Disconnect, Closed, Handled, Idle, Spawn, Reading, Result,
        NoQr, OpenQr, shown, account, network
<1>1. ASSUME NEW c \in Clients, Environment(c) PROVE OneReconnecter'
  <2>1. CASE Login(c) BY <2>1 DEF Login
  <2>2. CASE GiveCode(c) BY <2>2 DEF GiveCode
  <2>3. CASE Expire(c) BY <2>3 DEF Expire
  <2>4. CASE Refuse(c) BY <2>4 DEF Refuse
  <2>5. CASE Scan(c) BY <2>5 DEF Scan
  <2>6. CASE Drop(c) BY <2>6 DEF Drop
  <2>7. CASE Restore(c) BY <2>7 DEF Restore
  <2>8. CASE Replace(c) BY <2>8 DEF Replace
  <2>9. CASE LogOut(c) BY <2>9 DEF LogOut
  <2> QED BY <1>1, <2>1, <2>2, <2>3, <2>4, <2>5, <2>6, <2>7, <2>8, <2>9 DEF Environment
<1>2. ASSUME NEW c \in Clients, Handler(c) PROVE OneReconnecter'
  <2>1. CASE HandleConnected(c) BY <2>1 DEF HandleConnected
  <2>2. CASE ClearAfterConnected(c) BY <2>2 DEF ClearAfterConnected
  <2>3. CASE HandleDisconnected(c) BY <2>3 DEF HandleDisconnected
  <2>4. CASE HandleLoggedOut(c) BY <2>4 DEF HandleLoggedOut
  <2>5. CASE HandleStreamReplaced(c) BY <2>5 DEF HandleStreamReplaced
  <2> QED BY <1>2, <2>1, <2>2, <2>3, <2>4, <2>5 DEF Handler
<1>3. ASSUME NEW c \in Clients, Pairing(c) PROVE OneReconnecter'
  <2>1. CASE TakeCode(c) BY <2>1 DEF TakeCode
  <2>2. CASE ShowCode(c) BY <2>2 DEF ShowCode
  <2>3. CASE TakeResult(c) BY <2>3 DEF TakeResult
  <2>4. CASE ClearCode(c) BY <2>4 DEF ClearCode
  <2>5. CASE TakeError(c) BY <2>5 DEF TakeError
  <2> QED BY <1>3, <2>1, <2>2, <2>3, <2>4, <2>5 DEF Pairing
<1>4. ASSUME NEW g \in Loops, Reconnect(g) PROVE OneReconnecter'
  <2>1. CASE EnterLoop(g) BY <2>1 DEF EnterLoop
  <2>2. CASE CheckConnected(g) BY <2>2 DEF CheckConnected
  <2>3. CASE Dial(g)
    <3>1. loop[g] = "dial" /\ reconnecting' = reconnecting BY <2>3 DEF Dial
    <3>2. CASE loop' = [loop EXCEPT ![g] = "done"] BY <3>1, <3>2
    <3>3. CASE loop' = [loop EXCEPT ![g] = "sleep"] BY <3>1, <3>3
    <3> QED BY <2>3, <3>2, <3>3 DEF Dial
  <2>4. CASE LeaveLoop(g) BY <2>4 DEF LeaveLoop
  <2> QED BY <1>4, <2>1, <2>2, <2>3, <2>4 DEF Reconnect
<1>5. ASSUME NEW r \in Requests, Request(r) PROVE OneReconnecter'
  <2>1. CASE Logout(r) BY <2>1 DEF Logout
  <2>2. CASE StartRequest(r) BY <2>2 DEF StartRequest
  <2>3. CASE ClearClient(r) BY <2>3 DEF ClearClient
  <2>4. CASE BuildFails(r) BY <2>4 DEF BuildFails
  <2>5. CASE Build(r) BY <2>5 DEF Build
  <2>6. CASE GetQRChannel(r) BY <2>6 DEF GetQRChannel
  <2>7. CASE ShowConnecting(r) BY <2>7 DEF ShowConnecting
  <2>8. CASE ConnectClient(r) BY <2>8 DEF ConnectClient
  <2> QED BY <1>5, <2>1, <2>2, <2>3, <2>4, <2>5, <2>6, <2>7, <2>8 DEF Request
<1>6. CASE UNCHANGED vars BY <1>6 DEF vars
<1> QED BY <1>1, <1>2, <1>3, <1>4, <1>5, <1>6 DEF Next

LEMMA StatusStep ==
  ASSUME TypeOK, StatusInv, [Next]_vars
  PROVE  StatusInv'
<1> USE ConnectionAssumption DEF ConnectionAssumption, At, Goto, End, Up, None, Clients,
        setConnStatus, setLastQR, ConnectFails, Connects, Disconnect, Closed, Handled, Idle,
        Spawn, Reading, Result, NoQr, OpenQr, shown, account, network
<1>1. /\ Unmade /\ DeviceShape /\ ChannelShape /\ EventShape /\ CodeShape
      /\ StatusShape /\ EndedChannelShowsNothing /\ client \in Clients \cup {None}
      /\ made \in Clients /\ client <= made
  BY DEF StatusInv, TypeOK
<1>2. ASSUME NEW c \in Clients, Environment(c) PROVE StatusInv'
  <2>1. CASE Login(c)
    <3>1. UNCHANGED <<client, made, device, qr, connStatus, lastQR, own>>
      BY <2>1 DEF Login
    <3>2. /\ device[c]
          /\ link[c] = "up" \/ link[c] = "online"
          /\ event'[c] = "Connected"
          /\ \A d \in Clients \ {c} : link'[d] = link[d] /\ event'[d] = event[d]
      BY <2>1 DEF Login, TypeOK, QrChannel
    <3>3. ChannelShape' /\ CodeShape' /\ EndedChannelShowsNothing'
      BY <1>1, <3>1 DEF ChannelShape, CodeShape, EndedChannelShowsNothing
    <3>4. Unmade' BY <1>1, <3>1, <3>2 DEF Unmade
    <3>5. DeviceShape' BY <1>1, <3>1, <3>2 DEF DeviceShape
    <3>6. EventShape' BY <1>1, <3>1, <3>2 DEF EventShape
    <3>7. StatusShape' BY <1>1, <3>1, <3>2 DEF StatusShape
    <3> QED BY <3>3, <3>4, <3>5, <3>6, <3>7 DEF StatusInv
  <2>2. CASE GiveCode(c)
    <3>1. UNCHANGED <<client, made, device, link, event, connStatus, lastQR, own>>
      BY <2>2 DEF GiveCode
    <3>2. /\ qr[c].state = "open" /\ qr'[c].state = "open"
          /\ qr'[c].doing = qr[c].doing
          /\ \A d \in Clients \ {c} : qr'[d] = qr[d]
      BY <2>2 DEF GiveCode, TypeOK, QrChannel
    <3>3. EventShape'
      BY <1>1, <3>1 DEF EventShape
    <3>4. Unmade' BY <1>1, <3>1, <3>2 DEF Unmade
    <3>5. DeviceShape' BY <1>1, <3>1, <3>2 DEF DeviceShape
    <3>6. ChannelShape' BY <1>1, <3>1, <3>2 DEF ChannelShape
    <3>7. CodeShape' BY <1>1, <3>1, <3>2 DEF CodeShape
    <3>8. StatusShape' BY <1>1, <3>1, <3>2 DEF StatusShape
    <3>9. EndedChannelShowsNothing' BY <1>1, <3>1, <3>2 DEF EndedChannelShowsNothing
    <3> QED BY <3>3, <3>4, <3>5, <3>6, <3>7, <3>8, <3>9 DEF StatusInv
  <2>3. CASE Expire(c)
    <3>1. UNCHANGED <<client, made, device, event, connStatus, lastQR, own>>
      BY <2>3 DEF Expire
    <3>2. /\ qr[c].state = "open" /\ qr'[c].state = "timeout"
          /\ qr'[c].doing = qr[c].doing
          /\ link'[c] = "down"
          /\ \A d \in Clients \ {c} : qr'[d] = qr[d] /\ link'[d] = link[d]
          /\ qr'[c].left = qr[c].left
      BY <2>3 DEF Expire, TypeOK, QrChannel
    <3>3. Unmade' BY <1>1, <3>1, <3>2 DEF Unmade
    <3>4. DeviceShape' BY <1>1, <3>1, <3>2 DEF DeviceShape
    <3>5. ChannelShape' BY <1>1, <3>1, <3>2 DEF ChannelShape
    <3>6. EventShape' BY <1>1, <3>1, <3>2 DEF EventShape
    <3>7. CodeShape' BY <1>1, <3>1, <3>2 DEF CodeShape
    <3>8. StatusShape' BY <1>1, <3>1, <3>2 DEF StatusShape
    <3>9. EndedChannelShowsNothing' BY <1>1, <3>1, <3>2 DEF EndedChannelShowsNothing
    <3> QED BY <3>3, <3>4, <3>5, <3>6, <3>7, <3>8, <3>9 DEF StatusInv
  <2>4. CASE Refuse(c)
    <3>1. UNCHANGED <<client, made, device, event, connStatus, lastQR, own>>
      BY <2>4 DEF Refuse
    <3>2. /\ qr[c].state = "open" /\ qr'[c].state = "error"
          /\ qr'[c].doing = qr[c].doing
          /\ link'[c] = "down"
          /\ \A d \in Clients \ {c} : qr'[d] = qr[d] /\ link'[d] = link[d]
          /\ qr'[c].left = qr[c].left
      BY <2>4 DEF Refuse, TypeOK, QrChannel
    <3>3. Unmade' BY <1>1, <3>1, <3>2 DEF Unmade
    <3>4. DeviceShape' BY <1>1, <3>1, <3>2 DEF DeviceShape
    <3>5. ChannelShape' BY <1>1, <3>1, <3>2 DEF ChannelShape
    <3>6. EventShape' BY <1>1, <3>1, <3>2 DEF EventShape
    <3>7. CodeShape' BY <1>1, <3>1, <3>2 DEF CodeShape
    <3>8. StatusShape' BY <1>1, <3>1, <3>2 DEF StatusShape
    <3>9. EndedChannelShowsNothing' BY <1>1, <3>1, <3>2 DEF EndedChannelShowsNothing
    <3> QED BY <3>3, <3>4, <3>5, <3>6, <3>7, <3>8, <3>9 DEF StatusInv
  <2>5. CASE Scan(c)
    <3>1. UNCHANGED <<client, made, link, event, connStatus, lastQR, own>>
      BY <2>5 DEF Scan
    <3>2. /\ qr[c].state = "open" /\ qr'[c].state = "success"
          /\ qr'[c].doing = qr[c].doing
          /\ link[c] = "up"
          /\ \A d \in Clients \ {c} : qr'[d] = qr[d] /\ device'[d] = device[d]
      BY <2>5 DEF Scan, TypeOK, QrChannel
    <3>3. EventShape'
      BY <1>1, <3>1 DEF EventShape
    <3>4. Unmade' BY <1>1, <3>1, <3>2 DEF Unmade
    <3>5. DeviceShape' BY <1>1, <3>1, <3>2 DEF DeviceShape
    <3>6. ChannelShape' BY <1>1, <3>1, <3>2 DEF ChannelShape
    <3>7. CodeShape' BY <1>1, <3>1, <3>2 DEF CodeShape
    <3>8. StatusShape' BY <1>1, <3>1, <3>2 DEF StatusShape
    <3>9. EndedChannelShowsNothing' BY <1>1, <3>1, <3>2 DEF EndedChannelShowsNothing
    <3> QED BY <3>3, <3>4, <3>5, <3>6, <3>7, <3>8, <3>9 DEF StatusInv
  <2>6. CASE Drop(c)
    <3>1. UNCHANGED <<client, made, device, connStatus, lastQR, own>> BY <2>6 DEF Drop
    <3>2. /\ qr'[c].state = qr[c].state \/ (qr[c].state = "open" /\ qr'[c].state = "timeout")
          /\ qr'[c].doing = qr[c].doing /\ qr'[c].left = qr[c].left
          /\ link[c] # "down" /\ link'[c] = "lost"
          /\ \A d \in Clients \ {c} : qr'[d] = qr[d] /\ link'[d] = link[d] /\ event'[d] = event[d]
      BY <2>6 DEF Drop, TypeOK, QrChannel
    <3>3. Unmade' BY <1>1, <3>1, <3>2 DEF Unmade
    <3>4. DeviceShape' BY <1>1, <3>1, <3>2 DEF DeviceShape
    <3>5. ChannelShape' BY <1>1, <3>1, <3>2 DEF ChannelShape
    <3>6. EventShape' BY <1>1, <3>1, <3>2 DEF EventShape
    <3>7. CodeShape' BY <1>1, <3>1, <3>2 DEF CodeShape
    <3>8. StatusShape' BY <1>1, <3>1, <3>2 DEF StatusShape
    <3>9. EndedChannelShowsNothing' BY <1>1, <3>1, <3>2 DEF EndedChannelShowsNothing
    <3> QED BY <3>3, <3>4, <3>5, <3>6, <3>7, <3>8, <3>9 DEF StatusInv
  <2>7. CASE Restore(c)
    <3>1. UNCHANGED <<client, made, device, event, qr, connStatus, lastQR, own>>
      BY <2>7 DEF Restore
    <3>2. /\ link[c] = "lost" /\ link'[c] = "up"
          /\ \A d \in Clients \ {c} : link'[d] = link[d]
      BY <2>7 DEF Restore, TypeOK, QrChannel
    <3>3. ChannelShape' /\ CodeShape' /\ EndedChannelShowsNothing'
      BY <1>1, <3>1 DEF ChannelShape, CodeShape, EndedChannelShowsNothing
    <3>4. Unmade' BY <1>1, <3>1, <3>2 DEF Unmade
    <3>5. DeviceShape' BY <1>1, <3>1, <3>2 DEF DeviceShape
    <3>6. EventShape' BY <1>1, <3>1, <3>2 DEF EventShape
    <3>7. StatusShape' BY <1>1, <3>1, <3>2 DEF StatusShape
    <3> QED BY <3>3, <3>4, <3>5, <3>6, <3>7 DEF StatusInv
  <2>8. CASE Replace(c)
    <3>1. UNCHANGED <<client, made, device, qr, connStatus, lastQR, own>>
      BY <2>8 DEF Replace
    <3>2. /\ link[c] = "online" /\ link'[c] = "down"
          /\ \A d \in Clients \ {c} : link'[d] = link[d] /\ event'[d] = event[d]
      BY <2>8 DEF Replace, TypeOK, QrChannel
    <3>3. ChannelShape' /\ CodeShape' /\ EndedChannelShowsNothing'
      BY <1>1, <3>1 DEF ChannelShape, CodeShape, EndedChannelShowsNothing
    <3>4. Unmade' BY <1>1, <3>1, <3>2 DEF Unmade
    <3>5. DeviceShape' BY <1>1, <3>1, <3>2 DEF DeviceShape
    <3>6. EventShape' BY <1>1, <3>1, <3>2 DEF EventShape
    <3>7. StatusShape' BY <1>1, <3>1, <3>2 DEF StatusShape
    <3> QED BY <3>3, <3>4, <3>5, <3>6, <3>7 DEF StatusInv
  <2>9. CASE LogOut(c)
    <3>1. UNCHANGED <<client, made, qr, connStatus, lastQR, own>> BY <2>9 DEF LogOut
    <3>2. /\ link[c] = "online" /\ link'[c] = "down" /\ ~device'[c]
          /\ \A d \in Clients \ {c} : link'[d] = link[d] /\ event'[d] = event[d] /\ device'[d] = device[d]
      BY <2>9 DEF LogOut, TypeOK, QrChannel
    <3>3. ChannelShape' /\ CodeShape' /\ EndedChannelShowsNothing'
      BY <1>1, <3>1 DEF ChannelShape, CodeShape, EndedChannelShowsNothing
    <3>4. Unmade' BY <1>1, <3>1, <3>2 DEF Unmade
    <3>5. DeviceShape' BY <1>1, <3>1, <3>2 DEF DeviceShape
    <3>6. EventShape' BY <1>1, <3>1, <3>2 DEF EventShape
    <3>7. StatusShape' BY <1>1, <3>1, <3>2 DEF StatusShape
    <3> QED BY <3>3, <3>4, <3>5, <3>6, <3>7 DEF StatusInv
  <2> QED BY <1>2, <2>1, <2>2, <2>3, <2>4, <2>5, <2>6, <2>7, <2>8, <2>9 DEF Environment
<1>3. ASSUME NEW c \in Clients, Handler(c) PROVE StatusInv'
  <2>1. CASE HandleConnected(c)
    <3>1. UNCHANGED <<client, made, device, link, qr, lastQR>> BY <2>1 DEF HandleConnected
    <3>2. /\ connStatus' = "connected"
          /\ \A d \in Clients \ {c} : event'[d] = event[d]
          /\ event'[c] = "clear"
      BY <2>1 DEF HandleConnected, TypeOK, QrChannel
    <3>3. Unmade' /\ DeviceShape' /\ ChannelShape' /\ CodeShape' /\ EndedChannelShowsNothing'
      BY <1>1, <3>1 DEF Unmade, DeviceShape, ChannelShape, CodeShape, EndedChannelShowsNothing
    <3>4. EventShape' BY <1>1, <3>1, <3>2 DEF EventShape
    <3>5. StatusShape' BY <1>1, <3>1, <3>2 DEF StatusShape
    <3> QED BY <3>3, <3>4, <3>5 DEF StatusInv
  <2>2. CASE ClearAfterConnected(c)
    <3>1. UNCHANGED <<client, made, device, link, qr, connStatus, own>>
      BY <2>2 DEF ClearAfterConnected
    <3>2. /\ lastQR' = None
          /\ event[c] = "clear" /\ event'[c] = "none"
          /\ \A d \in Clients \ {c} : event'[d] = event[d]
      BY <2>2 DEF ClearAfterConnected, TypeOK, QrChannel
    <3>3. Unmade' /\ DeviceShape' /\ ChannelShape'
      BY <1>1, <3>1 DEF Unmade, DeviceShape, ChannelShape
    <3>4. EventShape' BY <1>1, <3>1, <3>2 DEF EventShape
    <3>5. CodeShape' BY <1>1, <3>1, <3>2 DEF CodeShape
    <3>6. StatusShape' BY <1>1, <3>1, <3>2 DEF StatusShape
    <3>7. EndedChannelShowsNothing' BY <1>1, <3>1, <3>2 DEF EndedChannelShowsNothing
    <3> QED BY <3>3, <3>4, <3>5, <3>6, <3>7 DEF StatusInv
  <2>3. CASE HandleDisconnected(c)
    <3>1. UNCHANGED <<client, made, device, link, qr, lastQR>> BY <2>3 DEF HandleDisconnected
    <3>2. /\ event[c] = "Disconnected" /\ event'[c] = "none"
          /\ own' => c = client
          /\ \A d \in Clients \ {c} : event'[d] = event[d]
      BY <2>3 DEF HandleDisconnected, TypeOK, QrChannel
    <3>3. Unmade' /\ DeviceShape' /\ ChannelShape' /\ CodeShape' /\ EndedChannelShowsNothing'
      BY <1>1, <3>1 DEF Unmade, DeviceShape, ChannelShape, CodeShape, EndedChannelShowsNothing
    <3>4. EventShape' BY <1>1, <3>1, <3>2 DEF EventShape
    <3>5. StatusShape' BY <1>1, <3>1, <3>2 DEF StatusShape, EventShape
    <3> QED BY <3>3, <3>4, <3>5 DEF StatusInv
  <2>4. CASE HandleLoggedOut(c)
    <3>1. UNCHANGED <<client, made, device, link, qr, lastQR>> BY <2>4 DEF HandleLoggedOut
    <3>2. /\ event[c] = "LoggedOut" /\ event'[c] = "none"
          /\ own' => c = client
          /\ \A d \in Clients \ {c} : event'[d] = event[d]
      BY <2>4 DEF HandleLoggedOut, TypeOK, QrChannel
    <3>3. Unmade' /\ DeviceShape' /\ ChannelShape' /\ CodeShape' /\ EndedChannelShowsNothing'
      BY <1>1, <3>1 DEF Unmade, DeviceShape, ChannelShape, CodeShape, EndedChannelShowsNothing
    <3>4. EventShape' BY <1>1, <3>1, <3>2 DEF EventShape
    <3>5. StatusShape' BY <1>1, <3>1, <3>2 DEF StatusShape, EventShape
    <3> QED BY <3>3, <3>4, <3>5 DEF StatusInv
  <2>5. CASE HandleStreamReplaced(c)
    <3>1. UNCHANGED <<client, made, device, link, qr, connStatus, lastQR, own>>
      BY <2>5 DEF HandleStreamReplaced
    <3>2. /\ event[c] = "StreamReplaced" /\ event'[c] = "none"
          /\ \A d \in Clients \ {c} : event'[d] = event[d]
      BY <2>5 DEF HandleStreamReplaced, TypeOK, QrChannel
    <3>3. Unmade' /\ DeviceShape' /\ ChannelShape' /\ CodeShape' /\ EndedChannelShowsNothing'
      BY <1>1, <3>1 DEF Unmade, DeviceShape, ChannelShape, CodeShape, EndedChannelShowsNothing
    <3>4. EventShape' BY <1>1, <3>1, <3>2 DEF EventShape
    <3>5. StatusShape' BY <1>1, <3>1, <3>2 DEF StatusShape, EventShape
    <3> QED BY <3>3, <3>4, <3>5 DEF StatusInv
  <2> QED BY <1>3, <2>1, <2>2, <2>3, <2>4, <2>5 DEF Handler
<1>4. ASSUME NEW c \in Clients, Pairing(c) PROVE StatusInv'
  <2>1. CASE TakeCode(c)
    <3>1. UNCHANGED <<client, made, device, link, event, lastQR>> BY <2>1 DEF TakeCode
    <3>2. /\ qr[c].left > 0 /\ qr[c].doing = "recv"
          /\ qr'[c].state = qr[c].state /\ qr'[c].doing = "code"
          /\ own' => c = client
          /\ \A d \in Clients \ {c} : qr'[d] = qr[d]
      BY <2>1 DEF TakeCode, TypeOK, QrChannel
    <3>3. EventShape'
      BY <1>1, <3>1 DEF EventShape
    <3>4. Unmade' BY <1>1, <3>1, <3>2 DEF Unmade
    <3>5. DeviceShape' BY <1>1, <3>1, <3>2 DEF DeviceShape
    <3>6. ChannelShape' BY <1>1, <3>1, <3>2 DEF ChannelShape
    <3>7. CodeShape' BY <1>1, <3>1, <3>2 DEF CodeShape
    <3>8. StatusShape' BY <1>1, <3>1, <3>2 DEF StatusShape, ChannelShape
    <3>9. EndedChannelShowsNothing' BY <1>1, <3>1, <3>2 DEF EndedChannelShowsNothing
    <3> QED BY <3>3, <3>4, <3>5, <3>6, <3>7, <3>8, <3>9 DEF StatusInv
  <2>2. CASE ShowCode(c)
    <3>1. UNCHANGED <<client, made, device, link, event, connStatus, own>>
      BY <2>2 DEF ShowCode
    <3>2. /\ lastQR' = c /\ qr[c].doing = "code"
          /\ qr'[c].state = qr[c].state /\ qr'[c].doing = "recv"
          /\ qr'[c].left = qr[c].left
          /\ \A d \in Clients \ {c} : qr'[d] = qr[d]
      BY <2>2 DEF ShowCode, TypeOK, QrChannel
    <3>3. EventShape'
      BY <1>1, <3>1 DEF EventShape
    <3>4. Unmade' BY <1>1, <3>1, <3>2 DEF Unmade
    <3>5. DeviceShape' BY <1>1, <3>1, <3>2 DEF DeviceShape
    <3>6. ChannelShape' BY <1>1, <3>1, <3>2 DEF ChannelShape
    <3>7. CodeShape' BY <1>1, <3>1, <3>2 DEF CodeShape, ChannelShape
    <3>8. StatusShape' BY <1>1, <3>1, <3>2 DEF StatusShape
    <3>9. EndedChannelShowsNothing' BY <1>1, <3>1, <3>2 DEF EndedChannelShowsNothing
    <3> QED BY <3>3, <3>4, <3>5, <3>6, <3>7, <3>8, <3>9 DEF StatusInv
  <2>3. CASE TakeResult(c)
    <3>1. UNCHANGED <<client, made, device, link, event, lastQR>> BY <2>3 DEF TakeResult
    <3>2. /\ qr[c].state \in {"success", "timeout"} /\ qr[c].doing = "recv"
          /\ qr'[c].state = qr[c].state /\ qr'[c].doing = "clear"
          /\ qr[c].state = "success" => connStatus' = "connected"
          /\ own' => c = client
          /\ \A d \in Clients \ {c} : qr'[d] = qr[d]
      BY <2>3 DEF TakeResult, TypeOK, QrChannel
    <3>3. EventShape'
      BY <1>1, <3>1 DEF EventShape
    <3>4. Unmade' BY <1>1, <3>1, <3>2 DEF Unmade
    <3>5. DeviceShape' BY <1>1, <3>1, <3>2 DEF DeviceShape
    <3>6. ChannelShape' BY <1>1, <3>1, <3>2 DEF ChannelShape
    <3>7. CodeShape' BY <1>1, <3>1, <3>2 DEF CodeShape
    <3>8. StatusShape' BY <1>1, <3>1, <3>2 DEF StatusShape, DeviceShape
    <3>9. EndedChannelShowsNothing' BY <1>1, <3>1, <3>2 DEF EndedChannelShowsNothing
    <3> QED BY <3>3, <3>4, <3>5, <3>6, <3>7, <3>8, <3>9 DEF StatusInv
  <2>4. CASE ClearCode(c)
    <3>1. UNCHANGED <<client, made, device, link, event, connStatus, own>>
      BY <2>4 DEF ClearCode
    <3>2. /\ lastQR' = None /\ qr[c].doing = "clear"
          /\ qr'[c].state = qr[c].state /\ qr'[c].doing = "ended"
          /\ \A d \in Clients \ {c} : qr'[d] = qr[d]
      BY <2>4 DEF ClearCode, TypeOK, QrChannel
    <3>3. EventShape'
      BY <1>1, <3>1 DEF EventShape
    <3>4. Unmade' BY <1>1, <3>1, <3>2 DEF Unmade
    <3>5. DeviceShape' BY <1>1, <3>1, <3>2 DEF DeviceShape
    <3>6. ChannelShape' BY <1>1, <3>1, <3>2 DEF ChannelShape
    <3>7. CodeShape' BY <1>1, <3>1, <3>2 DEF CodeShape
    <3>8. StatusShape' BY <1>1, <3>1, <3>2 DEF StatusShape
    <3>9. EndedChannelShowsNothing' BY <1>1, <3>1, <3>2 DEF EndedChannelShowsNothing
    <3> QED BY <3>3, <3>4, <3>5, <3>6, <3>7, <3>8, <3>9 DEF StatusInv
  <2>5. CASE TakeError(c)
    <3>1. UNCHANGED <<client, made, device, link, event, connStatus, lastQR, own>>
      BY <2>5 DEF TakeError
    <3>2. /\ qr[c].state = "error"
          /\ qr'[c].state = qr[c].state /\ qr'[c].doing = "ended"
          /\ \A d \in Clients \ {c} : qr'[d] = qr[d]
      BY <2>5 DEF TakeError, TypeOK, QrChannel
    <3>3. EventShape'
      BY <1>1, <3>1 DEF EventShape
    <3>4. Unmade' BY <1>1, <3>1, <3>2 DEF Unmade
    <3>5. DeviceShape' BY <1>1, <3>1, <3>2 DEF DeviceShape
    <3>6. ChannelShape' BY <1>1, <3>1, <3>2 DEF ChannelShape
    <3>7. CodeShape' BY <1>1, <3>1, <3>2 DEF CodeShape
    <3>8. StatusShape' BY <1>1, <3>1, <3>2 DEF StatusShape, DeviceShape
    <3>9. EndedChannelShowsNothing' BY <1>1, <3>1, <3>2 DEF EndedChannelShowsNothing
    <3> QED BY <3>3, <3>4, <3>5, <3>6, <3>7, <3>8, <3>9 DEF StatusInv
  <2> QED BY <1>4, <2>1, <2>2, <2>3, <2>4, <2>5 DEF Pairing
<1>5. ASSUME NEW g \in Loops, Reconnect(g) PROVE StatusInv'
  <2>1. CASE EnterLoop(g)
    <3>1. UNCHANGED <<client, made, device, link, event, qr, connStatus, lastQR, own>>
      BY <2>1 DEF EnterLoop
    <3> QED BY <3>1, <1>1 DEF StatusInv, Unmade, DeviceShape, ChannelShape, EventShape,
         CodeShape, StatusShape, EndedChannelShowsNothing
  <2>2. CASE CheckConnected(g)
    <3>1. UNCHANGED <<client, made, device, link, event, qr, connStatus, lastQR, own>>
      BY <2>2 DEF CheckConnected
    <3> QED BY <3>1, <1>1 DEF StatusInv, Unmade, DeviceShape, ChannelShape, EventShape,
         CodeShape, StatusShape, EndedChannelShowsNothing
  <2>3. CASE Dial(g)
    <3>1. UNCHANGED <<client, made, device, event, qr, connStatus, lastQR, own>>
      BY <2>3 DEF Dial
    <3>2. \A d \in Clients : link'[d] = link[d] \/ (d = client /\ link'[d] = "up")
      BY <2>3 DEF Dial, TypeOK, QrChannel
    <3>3. ChannelShape' /\ CodeShape' /\ EndedChannelShowsNothing'
      BY <1>1, <3>1 DEF ChannelShape, CodeShape, EndedChannelShowsNothing
    <3>4. Unmade' BY <1>1, <3>1, <3>2 DEF Unmade
    <3>5. DeviceShape' BY <1>1, <3>1, <3>2 DEF DeviceShape
    <3>6. EventShape' BY <1>1, <3>1, <3>2 DEF EventShape
    <3>7. StatusShape' BY <1>1, <3>1, <3>2 DEF StatusShape
    <3> QED BY <3>3, <3>4, <3>5, <3>6, <3>7 DEF StatusInv
  <2>4. CASE LeaveLoop(g)
    <3>1. UNCHANGED <<client, made, device, link, event, qr, connStatus, lastQR, own>>
      BY <2>4 DEF LeaveLoop
    <3> QED BY <3>1, <1>1 DEF StatusInv, Unmade, DeviceShape, ChannelShape, EventShape,
         CodeShape, StatusShape, EndedChannelShowsNothing
  <2> QED BY <1>5, <2>1, <2>2, <2>3, <2>4 DEF Reconnect
<1>6. ASSUME NEW r \in Requests, Request(r) PROVE StatusInv'
  <2>1. CASE Logout(r)
    <3>1. UNCHANGED <<client, made, event, qr, connStatus, lastQR, own>>
      BY <2>1 DEF Logout
    <3>2. /\ client \in Clients /\ link'[client] = "down" /\ ~device'[client]
          /\ \A d \in Clients \ {client} : link'[d] = link[d] /\ device'[d] = device[d]
      BY <2>1 DEF Logout, TypeOK, QrChannel
    <3>3. ChannelShape' /\ CodeShape' /\ EndedChannelShowsNothing'
      BY <1>1, <3>1 DEF ChannelShape, CodeShape, EndedChannelShowsNothing
    <3>4. Unmade' BY <1>1, <3>1, <3>2 DEF Unmade
    <3>5. DeviceShape' BY <1>1, <3>1, <3>2 DEF DeviceShape
    <3>6. EventShape' BY <1>1, <3>1, <3>2 DEF EventShape
    <3>7. StatusShape' BY <1>1, <3>1, <3>2 DEF StatusShape
    <3> QED BY <3>3, <3>4, <3>5, <3>6, <3>7 DEF StatusInv
  <2>2. CASE StartRequest(r)
    <3>1. UNCHANGED <<client, made, device, event, qr, connStatus, lastQR, own>>
      BY <2>2 DEF StartRequest
    <3>2. \A d \in Clients : link'[d] = link[d] \/ link'[d] = "down"
      BY <2>2 DEF StartRequest, TypeOK, QrChannel
    <3>3. ChannelShape' /\ CodeShape' /\ EndedChannelShowsNothing'
      BY <1>1, <3>1 DEF ChannelShape, CodeShape, EndedChannelShowsNothing
    <3>4. Unmade' BY <1>1, <3>1, <3>2 DEF Unmade
    <3>5. DeviceShape' BY <1>1, <3>1, <3>2 DEF DeviceShape
    <3>6. EventShape' BY <1>1, <3>1, <3>2 DEF EventShape
    <3>7. StatusShape' BY <1>1, <3>1, <3>2 DEF StatusShape
    <3> QED BY <3>3, <3>4, <3>5, <3>6, <3>7 DEF StatusInv
  <2>3. CASE ClearClient(r)
    <3>1. UNCHANGED <<made, device, link, event, qr, connStatus, lastQR>>
      BY <2>3 DEF ClearClient
    <3>2. ~own'
      BY <2>3 DEF ClearClient, TypeOK, QrChannel
    <3>3. Unmade' /\ DeviceShape' /\ ChannelShape' /\ EventShape' /\ CodeShape' /\ EndedChannelShowsNothing'
      BY <1>1, <3>1 DEF Unmade, DeviceShape, ChannelShape, EventShape, CodeShape, EndedChannelShowsNothing
    <3>4. StatusShape' BY <1>1, <3>1, <3>2 DEF StatusShape
    <3> QED BY <3>3, <3>4 DEF StatusInv
  <2>4. CASE BuildFails(r)
    <3>1. UNCHANGED <<client, made, device, link, event, qr, connStatus, lastQR, own>>
      BY <2>4 DEF BuildFails
    <3> QED BY <3>1, <1>1 DEF StatusInv, Unmade, DeviceShape, ChannelShape, EventShape,
         CodeShape, StatusShape, EndedChannelShowsNothing
  <2>5. CASE Build(r)
    <3>1. UNCHANGED <<link, event, qr, connStatus, lastQR>> BY <2>5 DEF Build
    <3>2. /\ ~own' /\ made' = made + 1
          /\ \A d \in Clients : device'[d] = device[d] \/ d = made + 1
      BY <2>5 DEF Build, TypeOK, QrChannel
    <3>3. ChannelShape' /\ EventShape' /\ CodeShape' /\ EndedChannelShowsNothing'
      BY <1>1, <3>1 DEF ChannelShape, EventShape, CodeShape, EndedChannelShowsNothing
    <3>4. Unmade' BY <1>1, <3>1, <3>2 DEF Unmade
    <3>5. DeviceShape' BY <1>1, <3>1, <3>2 DEF DeviceShape, Unmade
    <3>6. StatusShape' BY <1>1, <3>1, <3>2 DEF StatusShape
    <3> QED BY <3>3, <3>4, <3>5, <3>6 DEF StatusInv
  <2>6. CASE GetQRChannel(r)
    <3>1. UNCHANGED <<client, made, device, link, event, connStatus, lastQR, own>>
      BY <2>6 DEF GetQRChannel
    <3>2. \A d \in Clients :
              \/ qr'[d] = qr[d]
              \/ /\ d = client /\ ~device[d]
                 /\ qr'[d].state = "open" /\ qr'[d].left = 0 /\ qr'[d].doing = "recv"
      BY <2>6 DEF GetQRChannel, TypeOK, QrChannel
    <3>3. EventShape'
      BY <1>1, <3>1 DEF EventShape
    <3>4. Unmade' BY <1>1, <3>1, <3>2 DEF Unmade
    <3>5. DeviceShape' BY <1>1, <3>1, <3>2 DEF DeviceShape
    <3>6. ChannelShape' BY <1>1, <3>1, <3>2 DEF ChannelShape
    <3>7. CodeShape' BY <1>1, <3>1, <3>2 DEF CodeShape
    <3>8. StatusShape' BY <1>1, <3>1, <3>2 DEF StatusShape
    <3>9. EndedChannelShowsNothing' BY <1>1, <3>1, <3>2 DEF EndedChannelShowsNothing
    <3> QED BY <3>3, <3>4, <3>5, <3>6, <3>7, <3>8, <3>9 DEF StatusInv
  <2>7. CASE ShowConnecting(r)
    <3>1. UNCHANGED <<client, made, device, link, event, qr, lastQR>>
      BY <2>7 DEF ShowConnecting
    <3>2. ~own'
      BY <2>7 DEF ShowConnecting, TypeOK, QrChannel
    <3>3. Unmade' /\ DeviceShape' /\ ChannelShape' /\ EventShape' /\ CodeShape' /\ EndedChannelShowsNothing'
      BY <1>1, <3>1 DEF Unmade, DeviceShape, ChannelShape, EventShape, CodeShape, EndedChannelShowsNothing
    <3>4. StatusShape' BY <1>1, <3>1, <3>2 DEF StatusShape
    <3> QED BY <3>3, <3>4 DEF StatusInv
  <2>8. CASE ConnectClient(r)
    <3>1. UNCHANGED <<client, made, device, event, qr, connStatus, lastQR, own>>
      BY <2>8 DEF ConnectClient
    <3>2. \A d \in Clients : link'[d] = link[d] \/ (d = client /\ link'[d] = "up")
      BY <2>8 DEF ConnectClient, TypeOK, QrChannel
    <3>3. ChannelShape' /\ CodeShape' /\ EndedChannelShowsNothing'
      BY <1>1, <3>1 DEF ChannelShape, CodeShape, EndedChannelShowsNothing
    <3>4. Unmade' BY <1>1, <3>1, <3>2 DEF Unmade
    <3>5. DeviceShape' BY <1>1, <3>1, <3>2 DEF DeviceShape
    <3>6. EventShape' BY <1>1, <3>1, <3>2 DEF EventShape
    <3>7. StatusShape' BY <1>1, <3>1, <3>2 DEF StatusShape
    <3> QED BY <3>3, <3>4, <3>5, <3>6, <3>7 DEF StatusInv
  <2> QED BY <1>6, <2>1, <2>2, <2>3, <2>4, <2>5, <2>6, <2>7, <2>8 DEF Request
<1>7. CASE UNCHANGED vars
  BY <1>1, <1>7 DEF vars, StatusInv, Unmade, DeviceShape, ChannelShape, EventShape,
         CodeShape, StatusShape, EndedChannelShowsNothing
<1> QED BY <1>2, <1>3, <1>4, <1>5, <1>6, <1>7 DEF Next

LEMMA InitInv == Init => TypeOK /\ OneReconnecter /\ StatusInv
<1> SUFFICES ASSUME Init PROVE TypeOK /\ OneReconnecter /\ StatusInv OBVIOUS
<1> USE ConnectionAssumption DEF ConnectionAssumption, Init, None, Clients, NoQr, OpenQr, Free
<1>1. TypeOK
  <2>1. NoQr \in QrChannel /\ OpenQr \in QrChannel BY DEF QrChannel
  <2>2. qr \in [Clients -> QrChannel] /\ \A c \in Clients : qr[c].left <= qr[c].given
    BY <2>1
  <2>3. request \in [Requests -> RequestState] BY DEF RequestState
  <2>4. device \in [Clients -> BOOLEAN] /\ own \in BOOLEAN BY Zenon
  <2>5. client \in Clients \cup {None} /\ made \in Clients /\ client <= made
        /\ drops \in 0 .. MaxChanges
    OBVIOUS
  <2>6. link \in [Clients -> {"down", "lost", "up", "online"}] /\ loop \in [Loops -> {"idle"}]
        /\ event \in [Clients -> {"none"}]
    OBVIOUS
  <2>7. reconnecting \in BOOLEAN /\ paired \in BOOLEAN BY Zenon
  <2> QED BY <2>2, <2>3, <2>4, <2>5, <2>6, <2>7 DEF TypeOK, Status
<1>2. OneReconnecter BY DEF OneReconnecter
<1>3. StatusInv
  BY DEF StatusInv, Unmade, DeviceShape, ChannelShape, EventShape, CodeShape, StatusShape,
         EndedChannelShowsNothing
<1> QED BY <1>1, <1>2, <1>3

LEMMA Invariant == Spec => [](TypeOK /\ OneReconnecter /\ StatusInv)
<1>1. TypeOK /\ OneReconnecter /\ StatusInv /\ [Next]_vars
      => (TypeOK /\ OneReconnecter /\ StatusInv)'
  BY TypeStep, LoopStep, StatusStep
<1> QED BY InitInv, <1>1, PTL DEF Spec

(* At most one goroutine ever dials, however many disconnects and replaced *)
(* streams are reported: reconnectWithBackoff's compare-and-swap is given  *)
(* back only by the goroutine that won it.                                 *)
THEOREM ReconnectsAlone == Spec => []OneReconnecter
BY Invariant, PTL

(* A code is withdrawn for good when its channel ends, although the status *)
(* and the code are set in separate sections by several goroutines.        *)
THEOREM CodesAreWithdrawn == Spec => []EndedChannelShowsNothing
<1>1. StatusInv => EndedChannelShowsNothing BY DEF StatusInv
<1> QED BY Invariant, <1>1, PTL

(* What the handler and the QR goroutine of the current client leave as    *)
(* its status once they have handled everything is right.                  *)
THEOREM StatusSettles == Spec => []SettledStatus
<1>1. TypeOK /\ StatusInv => SettledStatus
  <2> SUFFICES ASSUME TypeOK, StatusInv, client # None, link[client] = "online",
                      Settled(client), own
               PROVE  connStatus = "connected" /\ lastQR # client
    BY DEF SettledStatus
  <2>1. client \in Clients /\ qr[client].state \in {"none", "success"}
    BY DEF TypeOK, StatusInv, DeviceShape
  <2>2. qr[client].state = "none" \/ qr[client].doing = "ended"
    BY <2>1 DEF Settled, Reading
  <2>3. connStatus = "connected" BY <2>1, <2>2 DEF StatusInv, StatusShape, Settled
  <2>4. lastQR # client
    BY <2>1, <2>2 DEF StatusInv, CodeShape, EndedChannelShowsNothing
  <2> QED BY <2>3, <2>4
<1> QED BY Invariant, <1>1, PTL
=============================================================================
