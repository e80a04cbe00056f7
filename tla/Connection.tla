----------------------------- MODULE Connection -----------------------------
(***************************************************************************)
(* The connection to WhatsApp: the global client, its status and QR code   *)
(* (internal/whatsapp/pairing.go), the handler of connection events and    *)
(* the reconnect loop (events.go), the goroutine that shows QR codes       *)
(* (bootstrap.go, reconnect.go), and the requests that reconnect or        *)
(* rebuild the client (reconnect.go, api.go, dbexplorer.go).               *)
(*                                                                         *)
(* whatsmeow is the environment: it connects, drops and pairs clients and  *)
(* reports that, to the handler in the order of the events of one client,  *)
(* and to the QR channel.  Disconnect reports nothing and leaves the QR    *)
(* channel of a client open, since nothing cancels its context.            *)
(***************************************************************************)
EXTENDS Integers, FiniteSets

CONSTANTS
  Requests,    (* Goroutines of HTTP requests.                              *)
  Loops,       (* Goroutines of reconnectWithBackoff.                       *)
  MaxClients,  (* Bound of the model: clients ever made.                    *)
  MaxChanges,  (* Bound of the model: clients made after the first, and     *)
               (* connections lost or replaced.                             *)
  Codes        (* QR codes a channel gives out before it times out.         *)

ASSUME ConnectionAssumption ==
  MaxClients \in Nat \ {0} /\ MaxChanges \in Nat /\ Codes \in Nat \ {0}

Clients == 1 .. MaxClients
None    == 0

VARIABLES
  client,        (* The global client, or None (nil).                       *)
  made,          (* How many clients there are.                             *)
  paired,        (* The store holds a device.                               *)
  device,        (* Whether a client's device has an id.                    *)
  link,          (* A client's connection: down, lost, up, or online: up    *)
                 (* and logged in.  whatsmeow restores one that was lost.   *)
  event,         (* The event of a client that the handler has in hand.     *)
  qr,            (* Its QR channel, and the goroutine that reads it.        *)
  connStatus,
  lastQR,        (* The client whose code is shown, or None.                *)
  own,           (* History: connStatus was set for the current client.     *)
  reconnecting,
  loop,          (* The line a reconnect goroutine has reached.             *)
  request,       (* What each request is doing.                             *)
  drops          (* Connections lost or replaced so far.                    *)

shown   == <<connStatus, lastQR, own>>
account == <<made, paired, device>>
network == <<link, drops>>
vars    == <<client, account, network, event, qr, shown, reconnecting, loop, request>>

Status   == {"connecting", "connected", "qr", "timeout", "disconnected", "loggedout"}
NoQr     == [state |-> "none", given |-> 0, left |-> 0, doing |-> "recv"]
OpenQr   == [NoQr EXCEPT !.state = "open"]
Free     == [pc |-> "idle", pairing |-> FALSE]

Up(c)          == link[c] \in {"up", "online"}
IsConnected(c) == c # None /\ Up(c)

(* Bootstrap: one client, with a QR channel unless it is paired, that has  *)
(* connected; the program does not start otherwise.                        *)
Init ==
  /\ client = 1 /\ made = 1
  /\ paired \in BOOLEAN
  /\ device = [c \in Clients |-> c = 1 /\ paired]
  /\ link = [c \in Clients |-> IF c = 1 THEN "up" ELSE "down"]
  /\ event = [c \in Clients |-> "none"]
  /\ qr = [c \in Clients |-> IF c = 1 /\ ~paired THEN OpenQr ELSE NoQr]
  /\ connStatus = "connecting" /\ lastQR = None /\ own = FALSE
  /\ reconnecting = FALSE
  /\ loop = [g \in Loops |-> "idle"]
  /\ request = [r \in Requests |-> Free]
  /\ drops = 0

setConnStatus(status, c) ==
  connStatus' = status /\ own' = (c # None /\ c = client) /\ UNCHANGED lastQR
setLastQR(c) == lastQR' = c /\ UNCHANGED <<connStatus, own>>

(* client.Connect() fails, or gives c a link; it refuses one that has it.  *)
ConnectFails == UNCHANGED network
Connects(c)  ==
  /\ c # None /\ ~Up(c)
  /\ link' = [link EXCEPT ![c] = "up"]
  /\ UNCHANGED drops

(* client.Disconnect() is silent, and ends whatsmeow's own reconnecting.   *)
Disconnect(c) ==
  /\ link' = IF c = None THEN link ELSE [link EXCEPT ![c] = "down"]
  /\ UNCHANGED drops

(***************************************************************************)
(* The environment.                                                        *)
(***************************************************************************)

Closed(c, state) ==
  qr' = IF qr[c].state = "open" THEN [qr EXCEPT ![c].state = state] ELSE qr

(* The server accepts the login of a paired device.                        *)
Login(c) ==
  /\ Up(c) /\ device[c] /\ event[c] = "none"
  /\ link' = [link EXCEPT ![c] = "online"]
  /\ event' = [event EXCEPT ![c] = "Connected"]
  /\ UNCHANGED <<client, account, drops, qr, shown, reconnecting, loop, request>>

(* A QR channel gives out codes once the client has had a link, for as     *)
(* long as they last, whatever became of the client.                       *)
GiveCode(c) ==
  /\ qr[c].state = "open" /\ qr[c].given < Codes
  /\ link[c] = "up" \/ qr[c].given > 0
  /\ qr' = [qr EXCEPT ![c].given = @ + 1, ![c].left = @ + 1]
  /\ UNCHANGED <<client, account, network, event, shown, reconnecting, loop, request>>

(* After the last one it times out and disconnects the client.             *)
Expire(c) ==
  /\ qr[c].state = "open" /\ qr[c].given = Codes
  /\ Closed(c, "timeout")
  /\ Disconnect(c)
  /\ UNCHANGED <<client, account, event, shown, reconnecting, loop, request>>

(* Another result, such as an outdated client or a ban.                    *)
Refuse(c) ==
  /\ qr[c].state = "open" /\ link[c] = "up"
  /\ Closed(c, "error")
  /\ Disconnect(c)
  /\ UNCHANGED <<client, account, event, shown, reconnecting, loop, request>>

(* The code is scanned: the device gets its id.                            *)
Scan(c) ==
  /\ qr[c].state = "open" /\ qr[c].given > 0 /\ link[c] = "up"
  /\ Closed(c, "success")
  /\ paired' = TRUE /\ device' = [device EXCEPT ![c] = TRUE]
  /\ UNCHANGED <<client, made, network, event, shown, reconnecting, loop, request>>

(* The connection is lost; whatsmeow restores it by itself.                *)
Drop(c) ==
  /\ Up(c) /\ event[c] = "none" /\ drops + made <= MaxChanges
  /\ drops' = drops + 1
  /\ link' = [link EXCEPT ![c] = "lost"]
  /\ event' = [event EXCEPT ![c] = "Disconnected"]
  /\ Closed(c, "timeout")
  /\ UNCHANGED <<client, account, shown, reconnecting, loop, request>>

Restore(c) ==
  /\ link[c] = "lost" /\ Connects(c)
  /\ UNCHANGED <<client, account, event, qr, shown, reconnecting, loop, request>>

(* Another client takes over the session ...                               *)
Replace(c) ==
  /\ link[c] = "online" /\ event[c] = "none" /\ drops + made <= MaxChanges
  /\ drops' = drops + 1
  /\ link' = [link EXCEPT ![c] = "down"]
  /\ event' = [event EXCEPT ![c] = "StreamReplaced"]
  /\ UNCHANGED <<client, account, qr, shown, reconnecting, loop, request>>

(* ... or the phone ends it: the device is deleted.                        *)
LogOut(c) ==
  /\ link[c] = "online" /\ event[c] = "none"
  /\ link' = [link EXCEPT ![c] = "down"]
  /\ event' = [event EXCEPT ![c] = "LoggedOut"]
  /\ paired' = FALSE /\ device' = [device EXCEPT ![c] = FALSE]
  /\ UNCHANGED <<client, made, drops, qr, shown, reconnecting, loop, request>>

Environment(c) ==
  \/ Login(c) \/ GiveCode(c) \/ Expire(c) \/ Refuse(c) \/ Scan(c)
  \/ Drop(c) \/ Restore(c) \/ Replace(c) \/ LogOut(c)

(***************************************************************************)
(* handler, called for the clients' events.                                *)
(***************************************************************************)

Handled(c, next) == event' = [event EXCEPT ![c] = next]

(* go reconnectWithBackoff: any idle goroutine will do.                    *)
Idle  == {g \in Loops : loop[g] = "idle"}
Spawn == Idle # {} /\ loop' = [loop EXCEPT ![CHOOSE g \in Idle : TRUE] = "new"]

(* The status is set first, and the code cleared in a second section.      *)
HandleConnected(c) ==
  /\ event[c] = "Connected"
  /\ setConnStatus("connected", c)
  /\ Handled(c, "clear")
  /\ UNCHANGED <<client, account, network, qr, reconnecting, loop, request>>

ClearAfterConnected(c) ==
  /\ event[c] = "clear"
  /\ setLastQR(None)
  /\ Handled(c, "none")
  /\ UNCHANGED <<client, account, network, qr, reconnecting, loop, request>>

HandleDisconnected(c) ==
  /\ event[c] = "Disconnected"
  /\ setConnStatus("disconnected", c)
  /\ Spawn /\ Handled(c, "none")
  /\ UNCHANGED <<client, account, network, qr, reconnecting, request>>

HandleLoggedOut(c) ==
  /\ event[c] = "LoggedOut"
  /\ setConnStatus("loggedout", c)
  /\ Handled(c, "none")
  /\ UNCHANGED <<client, account, network, qr, reconnecting, loop, request>>

HandleStreamReplaced(c) ==
  /\ event[c] = "StreamReplaced"
  /\ Spawn /\ Handled(c, "none")
  /\ UNCHANGED <<client, account, network, qr, shown, reconnecting, request>>

Handler(c) == \/ HandleConnected(c) \/ ClearAfterConnected(c) \/ HandleDisconnected(c)
              \/ HandleLoggedOut(c) \/ HandleStreamReplaced(c)

(***************************************************************************)
(* The goroutine that reads a QR channel.                                  *)
(***************************************************************************)

Reading(c) == qr[c].doing = "recv"

(* A code: first the status ...                                            *)
TakeCode(c) ==
  /\ Reading(c) /\ qr[c].left > 0
  /\ setConnStatus("qr", c)
  /\ qr' = [qr EXCEPT ![c].left = @ - 1, ![c].doing = "code"]
  /\ UNCHANGED <<client, account, network, event, reconnecting, loop, request>>

(* ... then the code.                                                      *)
ShowCode(c) ==
  /\ qr[c].doing = "code"
  /\ setLastQR(c)
  /\ qr' = [qr EXCEPT ![c].doing = "recv"]
  /\ UNCHANGED <<client, account, network, event, reconnecting, loop, request>>

Result(c) == IF qr[c].left = 0 THEN qr[c].state ELSE "none"

(* Mutant: a timeout changes the status and keeps the code.                *)
TakeResultOnly(c) ==
  /\ Reading(c) /\ Result(c) \in {"success", "timeout"}
  /\ setConnStatus(IF Result(c) = "success" THEN "connected" ELSE "timeout", c)
  /\ qr' = [qr EXCEPT ![c].doing = IF Result(c) = "success" THEN "clear" ELSE "ended"]
  /\ UNCHANGED <<client, account, network, event, reconnecting, loop, request>>

(* Mutant: a success leaves the status to the Connected event.             *)
TakeResultSilently(c) ==
  /\ Reading(c) /\ Result(c) \in {"success", "timeout"}
  /\ IF Result(c) = "success" THEN UNCHANGED shown ELSE setConnStatus("timeout", c)
  /\ qr' = [qr EXCEPT ![c].doing = "clear"]
  /\ UNCHANGED <<client, account, network, event, reconnecting, loop, request>>

(* The result: first the status, then the code is cleared.                 *)
TakeResult(c) ==
  /\ Reading(c) /\ Result(c) \in {"success", "timeout"}
  /\ setConnStatus(IF Result(c) = "success" THEN "connected" ELSE "timeout", c)
  /\ qr' = [qr EXCEPT ![c].doing = "clear"]
  /\ UNCHANGED <<client, account, network, event, reconnecting, loop, request>>

ClearCode(c) ==
  /\ qr[c].doing = "clear"
  /\ setLastQR(None)
  /\ qr' = [qr EXCEPT ![c].doing = "ended"]
  /\ UNCHANGED <<client, account, network, event, reconnecting, loop, request>>

(* Any other result is only logged.                                        *)
TakeError(c) ==
  /\ Reading(c) /\ Result(c) = "error"
  /\ qr' = [qr EXCEPT ![c].doing = "ended"]
  /\ UNCHANGED <<client, account, network, event, shown, reconnecting, loop, request>>

Pairing(c) == TakeCode(c) \/ ShowCode(c) \/ TakeResult(c) \/ ClearCode(c) \/ TakeError(c)

(***************************************************************************)
(* reconnectWithBackoff.                                                   *)
(***************************************************************************)

At(g, pc) == loop' = [loop EXCEPT ![g] = pc]

(* Mutant: the flag is read, and set only when the loop has slept.         *)
TryReconnect(g) ==
  /\ loop[g] = "new"
  /\ At(g, IF reconnecting THEN "idle" ELSE "sleep")
  /\ UNCHANGED <<client, account, network, event, qr, shown, reconnecting, request>>

(* CompareAndSwapInt32: one that finds the flag set returns.               *)
EnterLoop(g) ==
  /\ loop[g] = "new"
  /\ At(g, IF reconnecting THEN "idle" ELSE "sleep")
  /\ reconnecting' = TRUE
  /\ UNCHANGED <<client, account, network, event, qr, shown, request>>

(* Mutant: the loop does not ask whether the client is connected.          *)
DialBlindly(g) ==
  /\ loop[g] = "sleep" /\ At(g, "dial")
  /\ UNCHANGED <<client, account, network, event, qr, shown, reconnecting, request>>

(* After the delay.  The methods of a nil client are safe.                 *)
CheckConnected(g) ==
  /\ loop[g] = "sleep"
  /\ At(g, IF IsConnected(client) THEN "done" ELSE "dial")
  /\ UNCHANGED <<client, account, network, event, qr, shown, reconnecting, request>>

Dial(g) ==
  /\ loop[g] = "dial"
  /\ \/ Connects(client) /\ At(g, "done")
     \/ ConnectFails /\ At(g, "sleep")
  /\ UNCHANGED <<client, account, event, qr, shown, reconnecting, request>>

(* The deferred StoreInt32.                                                *)
LeaveLoop(g) ==
  /\ loop[g] = "done" /\ At(g, "idle")
  /\ reconnecting' = FALSE
  /\ UNCHANGED <<client, account, network, event, qr, shown, request>>

Reconnect(g) == EnterLoop(g) \/ CheckConnected(g) \/ Dial(g) \/ LeaveLoop(g)

(***************************************************************************)
(* The requests.                                                           *)
(***************************************************************************)

Goto(r, pc) == request' = [request EXCEPT ![r].pc = pc]
End(r)      == request' = [request EXCEPT ![r] = Free]

(* postWALogout: the device is deleted, and no event reports it.           *)
Logout(r) ==
  /\ request[r].pc = "idle" /\ client # None /\ link[client] = "online"
  /\ Disconnect(client)
  /\ paired' = FALSE /\ device' = [device EXCEPT ![client] = FALSE]
  /\ UNCHANGED <<client, made, event, qr, shown, reconnecting, loop, request>>

(* ForceReconnect needs a client; Reinitialize and ReinitializeForPairing  *)
(* set it to nil once it is disconnected.                                  *)
StartRequest(r) ==
  /\ request[r].pc = "idle"
  /\ \/ client # None /\ Goto(r, "connect")
     \/ \E pairing \in BOOLEAN :
          request' = [request EXCEPT ![r] = [pc |-> "clear", pairing |-> pairing]]
  /\ Disconnect(client)
  /\ UNCHANGED <<client, account, event, qr, shown, reconnecting, loop>>

ClearClient(r) ==
  /\ request[r].pc = "clear"
  /\ client' = None /\ own' = FALSE
  /\ Goto(r, "build")
  /\ UNCHANGED <<account, network, event, qr, connStatus, lastQR, reconnecting, loop>>

(* Opening the store may fail; the client then stays nil.                  *)
BuildFails(r) ==
  /\ request[r].pc = "build" /\ End(r)
  /\ UNCHANGED <<client, account, network, event, qr, shown, reconnecting, loop>>

(* A client of the store's device, with the handler.                       *)
Build(r) ==
  /\ request[r].pc = "build" /\ made < MaxClients /\ drops + made <= MaxChanges
  /\ made' = made + 1 /\ client' = made + 1 /\ own' = FALSE
  /\ device' = [device EXCEPT ![made + 1] = paired]
  /\ request' = [request EXCEPT ![r] =
       [Free EXCEPT !.pc = IF request[r].pairing THEN "channel" ELSE "status"]]
  /\ UNCHANGED <<paired, network, event, qr, connStatus, lastQR, reconnecting, loop>>

(* GetQRChannel: a paired client needs none, a connected one is refused.   *)
GetQRChannel(r) ==
  /\ request[r].pc = "channel"
  /\ IF client = None \/ (~device[client] /\ Up(client))
     THEN End(r) /\ UNCHANGED qr
     ELSE /\ Goto(r, "status")
          /\ qr' = IF device[client] \/ qr[client].state # "none" THEN qr
                   ELSE [qr EXCEPT ![client] = OpenQr]
  /\ UNCHANGED <<client, account, network, event, shown, reconnecting, loop>>

ShowConnecting(r) ==
  /\ request[r].pc = "status"
  /\ setConnStatus("connecting", None)
  /\ Goto(r, "connect")
  /\ UNCHANGED <<client, account, network, event, qr, reconnecting, loop>>

ConnectClient(r) ==
  /\ request[r].pc = "connect" /\ End(r)
  /\ Connects(client) \/ ConnectFails
  /\ UNCHANGED <<client, account, event, qr, shown, reconnecting, loop>>

Request(r) == \/ Logout(r) \/ StartRequest(r) \/ ClearClient(r) \/ BuildFails(r) \/ Build(r)
              \/ GetQRChannel(r) \/ ShowConnecting(r) \/ ConnectClient(r)

(***************************************************************************)
(* The specification.                                                      *)
(***************************************************************************)

Next ==
  \/ \E c \in Clients : Environment(c) \/ Handler(c) \/ Pairing(c)
  \/ \E g \in Loops : Reconnect(g)
  \/ \E r \in Requests : Request(r)

(* A reconnect goroutine sleeps for a bounded time, and Connect returns; of *)
(* the environment and the requests nothing is expected.                   *)
Fairness == \A g \in Loops : WF_vars(Reconnect(g))

Spec == Init /\ [][Next]_vars
FairSpec == Spec /\ Fairness

(***************************************************************************)
(* Properties.                                                             *)
(***************************************************************************)

QrChannel ==
  [state : {"none", "open", "success", "timeout", "error"}, given : 0 .. Codes,
   left : 0 .. Codes, doing : {"recv", "code", "clear", "ended"}]
RequestState ==
  [pc : {"idle", "clear", "build", "channel", "status", "connect"}, pairing : BOOLEAN]

(* The type invariant.                                                     *)
TypeOK ==
  /\ client \in Clients \cup {None} /\ made \in Clients /\ client <= made
  /\ paired \in BOOLEAN /\ device \in [Clients -> BOOLEAN]
  /\ link \in [Clients -> {"down", "lost", "up", "online"}]
  /\ event \in [Clients -> {"none", "Connected", "clear", "Disconnected",
                            "LoggedOut", "StreamReplaced"}]
  /\ qr \in [Clients -> QrChannel] /\ \A c \in Clients : qr[c].left <= qr[c].given
  /\ connStatus \in Status /\ lastQR \in Clients \cup {None} /\ own \in BOOLEAN
  /\ reconnecting \in BOOLEAN
  /\ loop \in [Loops -> {"idle", "new", "sleep", "dial", "done"}]
  /\ request \in [Requests -> RequestState]
  /\ drops \in 0 .. MaxChanges

(* Nothing a client reported waits to be handled.                          *)
Settled(c) ==
  /\ event[c] = "none"
  /\ Reading(c) => qr[c].left = 0 /\ qr[c].state \in {"none", "open"}
  /\ qr[c].doing \in {"recv", "ended"}

(* However its handler and its QR goroutine interleave, a client that is   *)
(* online and set the status last has set it to connected, and none of its *)
(* codes is shown any more.                                                *)
SettledStatus ==
  client # None /\ link[client] = "online" /\ Settled(client) /\ own =>
    connStatus = "connected" /\ lastQR # client

(* A QR channel that ended with a success or a timeout has taken its code  *)
(* back for good: no later step of another goroutine shows it again.       *)
EndedChannelShowsNothing ==
  \A c \in Clients : qr[c].doing = "ended" /\ qr[c].state # "error" => lastQR # c

(* However many disconnects are reported, at most one goroutine dials, and *)
(* the flag is set exactly while there is one.                             *)
OneReconnecter ==
  LET active == {g \in Loops : loop[g] \in {"sleep", "dial", "done"}}
  IN /\ \A g, h \in active : g = h
     /\ reconnecting <=> active # {}

(* A reconnect loop does not outlive a connection that stays, whoever made *)
(* it: the loop finds it and ends, and no goroutine starts another.        *)
LoopEndsWhenUp == <>[]IsConnected(client) => <>[]~reconnecting

(* The documents: the status of a client that is paired and online is      *)
(* connected, once everything that was reported has been handled.          *)
OnlineIsConnected ==
  client # None /\ link[client] = "online" /\ (\A c \in Clients : Settled(c)) =>
    connStatus = "connected"
=============================================================================
