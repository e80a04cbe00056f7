------------------------------- MODULE Sending -------------------------------
(***************************************************************************)
(* The requests that make WhatsApp do something: the handlers postSend*,   *)
(* postEditMessage ... postVotePoll and the group operations of            *)
(* internal/api/api.go, internal/whatsapp/send.go, groups.go and           *)
(* presence.go under them, requireAuth and auditMiddleware around them.    *)
(* A request is checked, may upload a file, asks the server for one thing  *)
(* or, when it updates a group, for up to four one after the other, and    *)
(* leaves a row in events or in errors when it was a message.              *)
(***************************************************************************)
EXTENDS Naturals, SequencesExt, TLC

CONSTANTS
  Calls,       (* Requests, all of them possibly at the same time.          *)
  Routes,      (* The routes the requests go to.                            *)
  MaxRestarts  (* Bound of the model: deaths of the process.                *)

VARIABLES
  call,        (* Every request and the goroutine that serves it.           *)
  server,      (* What WhatsApp's server did for each, in order.            *)
  rows,        (* The collections each has left a row in.                   *)
  audit,       (* The requests that have a row in audit_log.                *)
  stopping,    (* shuttingDown.                                             *)
  restarts

vars == <<call, server, rows, audit, stopping, restarts>>

(***************************************************************************)
(* What each route refuses to go on without.                               *)
(***************************************************************************)
Texts  == [message |-> {"to"}, image |-> {"data", "to"}, video |-> {"data", "to"},
           audio |-> {"data", "to"}, document |-> {"data", "to"}]
Places == [location |-> {"to"}, livelocation |-> {"to"}]
Marks  == [reaction |-> {"message_id", "to", "sender_jid"},
           edit |-> {"message_id", "new_text", "to"},
           revoke |-> {"message_id", "to", "sender_jid"}]
Cards  == [contact |-> {"vcard", "to"}, contacts |-> {"contacts", "to"},
           poll |-> {"question", "options", "to"},
           vote |-> {"poll_message_id", "selected_options", "to", "poll_sender_jid"}]
Raw    == [raw |-> {"message", "to", "json"}]
States == [disappearing |-> {"to", "timer"}, typing |-> {"state", "to"}]
Groups == [create |-> {"name", "participants"},
           participants |-> {"jid", "action", "participants"},
           photo |-> {"jid", "image"}, leave |-> {"jid"}, invite |-> {"jid"},
           join |-> {"link"}]
Update == [group |-> {"jid", "fields"}]

Needs == Texts @@ Places @@ Marks @@ Cards @@ Raw @@ States @@ Groups @@ Update

(* The routes that call sendMessage in the end.                            *)
MessageRoutes ==
  DOMAIN Texts \cup DOMAIN Places \cup DOMAIN Marks \cup DOMAIN Cards \cup DOMAIN Raw
Uploads  == {"image", "video", "audio", "document"}
Audited  == {"message"}

(* The fields of a group, in the order patchGroup sets those it is given.  *)
Fields == [name |-> 1, topic |-> 2, announce |-> 3, locked |-> 4]

(* What a valid request may ask the server for.                            *)
Wishes(route) ==
  IF route = "group"
    THEN {w \in SeqOf(DOMAIN Fields, 4) \ {<<>>} :
            \A i, j \in DOMAIN w : i < j => Fields[w[i]] < Fields[w[j]]}
    ELSE {<<route>>}

(* What may be wrong with it: the session or token, a field, or, where the *)
(* audit log keeps a copy, a body over the 64 KB that are left of it.      *)
Flaws(route) == {"auth"} \cup Needs[route] \cup (IF route \in Audited THEN {"length"} ELSE {})

(***************************************************************************)
(* Requests.                                                               *)
(***************************************************************************)
Idle == [step |-> "idle", route |-> "none", wish |-> <<>>, todo |-> <<>>,
         answer |-> 0, row |-> "none"]

Init ==
  /\ call = [c \in Calls |-> Idle]
  /\ server = [c \in Calls |-> <<>>]
  /\ rows = [c \in Calls |-> <<>>]
  /\ audit = {}
  /\ stopping = FALSE
  /\ restarts = 0

Reply(c, code) == [call[c] EXCEPT !.step = "ended", !.answer = code]

(* A request arrives and is refused, by requireAuth or by the handler.     *)
Refuse(c) ==
  /\ call[c].step = "idle"
  /\ \E route \in Routes : \E flaw \in Flaws(route) :
       call' = [call EXCEPT ![c] =
                  [Reply(c, IF flaw = "auth" THEN 401 ELSE 400) EXCEPT !.route = route]]
  /\ UNCHANGED <<server, rows, audit, stopping, restarts>>

Accept(c) ==
  /\ call[c].step = "idle"
  /\ \E route \in Routes : \E wish \in Wishes(route) :
       call' = [call EXCEPT ![c] =
                  [Idle EXCEPT !.route = route, !.wish = wish, !.todo = wish,
                               !.step = CASE route \in Uploads -> "upload"
                                          [] route = "vote"    -> "build"
                                          [] OTHER             -> "send"]]
  /\ UNCHANGED <<server, rows, audit, stopping, restarts>>

(* client.Upload; a failure is saved in errors and answered.               *)
Upload(c) ==
  /\ call[c].step = "upload"
  /\ \E next \in {"send", "error"} : call' = [call EXCEPT ![c].step = next]
  /\ UNCHANGED <<server, rows, audit, stopping, restarts>>

(* BuildPollVote needs the poll's key; without it nothing is saved.        *)
BuildVote(c) ==
  /\ call[c].step = "build"
  /\ \/ call' = [call EXCEPT ![c].step = "send"]
     \/ call' = [call EXCEPT ![c] = Reply(c, 500)]
  /\ UNCHANGED <<server, rows, audit, stopping, restarts>>

(* The server does the next thing asked for and says so.                   *)
Succeed(c) ==
  /\ call[c].step = "send"
  /\ server' = [server EXCEPT ![c] = Append(@, Head(call[c].todo))]
  /\ call' = [call EXCEPT ![c] =
                LET rest == Tail(call[c].todo)
                IN IF rest # <<>> THEN [@ EXCEPT !.todo = rest]
                   ELSE IF @.route \in MessageRoutes THEN [@ EXCEPT !.todo = rest, !.step = "event"]
                   ELSE [Reply(c, 200) EXCEPT !.todo = rest]]
  /\ UNCHANGED <<rows, audit, stopping, restarts>>

(* The bug class of an error that is answered and not saved.               *)
FailUnsaved(c) ==
  /\ call[c].step = "send"
  /\ server' \in {server, [server EXCEPT ![c] = Append(@, Head(call[c].todo))]}
  /\ call' = [call EXCEPT ![c] = Reply(c, 500)]
  /\ UNCHANGED <<rows, audit, stopping, restarts>>

(* It refuses, cannot be reached, or its acknowledgement does not come: in *)
(* that case the thing may have been done.  What follows is not tried.     *)
Fail(c) ==
  /\ call[c].step = "send"
  /\ server' \in {server, [server EXCEPT ![c] = Append(@, Head(call[c].todo))]}
  /\ call' = [call EXCEPT ![c] = IF @.route \in MessageRoutes THEN [@ EXCEPT !.step = "error"]
                                                         ELSE Reply(c, 500)]
  /\ UNCHANGED <<rows, audit, stopping, restarts>>

(* saveSentMessage; that it fails is not looked at.                        *)
SaveSent(c) ==
  /\ call[c].step = "event"
  /\ \/ /\ ~stopping
        /\ rows' = [rows EXCEPT ![c] = Append(@, "events")]
        /\ call' = [call EXCEPT ![c] = [Reply(c, 200) EXCEPT !.row = "saved"]]
     \/ /\ rows' = rows
        /\ call' = [call EXCEPT ![c] = [Reply(c, 200) EXCEPT !.row = "lost"]]
  /\ UNCHANGED <<server, audit, stopping, restarts>>

(* saveSentError and saveError; postSendRaw answers 400 where others       *)
(* answer 500.                                                             *)
SaveError(c) ==
  /\ call[c].step = "error"
  /\ LET answer == Reply(c, IF call[c].route = "raw" THEN 400 ELSE 500)
     IN \/ /\ ~stopping
           /\ rows' = [rows EXCEPT ![c] = Append(@, "errors")]
           /\ call' = [call EXCEPT ![c] = [answer EXCEPT !.row = "saved"]]
        \/ /\ rows' = rows
           /\ call' = [call EXCEPT ![c] = [answer EXCEPT !.row = "lost"]]
  /\ UNCHANGED <<server, audit, stopping, restarts>>

(* The goroutine auditMiddleware starts when the handler is through.       *)
Audit(c) ==
  /\ call[c].step = "ended" /\ call[c].answer # 401
  /\ call[c].route \in Audited
  /\ c \notin audit
  /\ audit' = audit \cup {c}
  /\ UNCHANGED <<call, server, rows, stopping, restarts>>

(* SIGTERM; the requests under way go on until the process ends.           *)
ShutDown ==
  /\ ~stopping
  /\ restarts < MaxRestarts
  /\ stopping' = TRUE
  /\ UNCHANGED <<call, server, rows, audit, restarts>>

Restart ==
  /\ restarts < MaxRestarts
  /\ restarts' = restarts + 1
  /\ stopping' = FALSE
  /\ call' = [c \in Calls |-> IF call[c].step \in {"idle", "ended"} THEN call[c]
                              ELSE [call[c] EXCEPT !.step = "cut"]]
  /\ UNCHANGED <<server, rows, audit>>

Serve(c) ==
  \/ Refuse(c) \/ Accept(c) \/ Upload(c) \/ BuildVote(c)
  \/ Succeed(c) \/ Fail(c) \/ SaveSent(c) \/ SaveError(c) \/ Audit(c)

Next == (\E c \in Calls : Serve(c)) \/ ShutDown \/ Restart

Spec == Init /\ [][Next]_vars

(***************************************************************************)
(* Properties.                                                             *)
(***************************************************************************)
Things == Routes \cup DOMAIN Fields

Steps    == {"idle", "upload", "build", "send", "event", "error", "ended", "cut"}
Answers  == {0, 200, 400, 401, 500}
RowFates == {"none", "saved", "lost"}

Requests == [step : Steps, route : Routes \cup {"none"}, wish : Seq(Things), todo : Seq(Things),
             answer : Answers, row : RowFates]

(* Every variable keeps its type; an audited request is one that was let in. *)
TypeOK ==
  /\ call \in [Calls -> Requests]
  /\ server \in [Calls -> Seq(Things)]
  /\ rows \in [Calls -> Seq({"events", "errors"})]
  /\ audit \subseteq {c \in Calls : call[c].step = "ended" /\ call[c].answer # 401}
  /\ stopping \in BOOLEAN
  /\ restarts \in 0 .. MaxRestarts

(* What a request was answered tells what became of it, whatever failed on *)
(* the way and whatever other requests did meanwhile.  200: all that was   *)
(* asked for was done, in that order (postSend*, patchGroup).  Anything    *)
(* else: a first part of it at most.  400 or 401: nothing (postSendRaw     *)
(* answers 400 for a failure of the server too).  And a message the server *)
(* has, once its request is answered, has exactly one row, in events if    *)
(* the answer was 200 and in errors if not (sendMessage), unless saving    *)
(* the row failed or the process was on its way down.                      *)
AnswerTellsFate ==
  \A c \in Calls :
    /\ call[c].answer = 200 => server[c] = call[c].wish
    /\ IsPrefix(server[c], call[c].wish)
    /\ call[c].answer \in {400, 401} /\ call[c].route # "raw" =>
         server[c] = <<>> /\ rows[c] = <<>>
    /\ Len(rows[c]) <= 1
    /\ call[c].step = "ended" /\ call[c].route \in MessageRoutes /\ server[c] # <<>> =>
         \/ call[c].row = "lost"
         \/ rows[c] = <<IF call[c].answer = 200 THEN "events" ELSE "errors">>

(* What makes it so: until something fails, what was done and what is left *)
(* are what was asked for; before the upload, or without the poll's key,   *)
(* nothing was done; what has an upload is a message; and there is no row  *)
(* before the answer.                                                      *)
FateInv ==
  \A c \in Calls :
    /\ call[c].step \in {"idle", "upload", "build", "send", "event"} =>
         call[c].wish = server[c] \o call[c].todo
    /\ call[c].step \in {"idle", "upload", "build"} => server[c] = <<>>
    /\ call[c].step \in {"upload", "build", "send"} => call[c].todo # <<>>
    /\ call[c].step = "event" => call[c].todo = <<>>
    /\ call[c].step \in {"upload", "event", "error"} => call[c].route \in MessageRoutes
    /\ call[c].step # "ended" => rows[c] = <<>> /\ call[c].answer = 0
=============================================================================
