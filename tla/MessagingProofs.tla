--------------------------- MODULE MessagingProofs ---------------------------
(***************************************************************************)
(* Requests that send, for any number of them: what a request was answered *)
(* tells what became of it.  Auto-reply rules, for any number of rules and *)
(* messages: what a message executes, and what is counted.  The            *)
(* conversation view: what is shown of a chat, and what is counted.        *)
(***************************************************************************)
EXTENDS WebhookProofs, FiniteSetTheorems

(***************************************************************************)
(* Requests that send.                                                     *)
(***************************************************************************)

(* What every state of the requests satisfies.                             *)
SendingInv == S!TypeOK /\ S!FateInv /\ S!AnswerTellsFate

(* The part of it that is about one request: what it did and the rows it   *)
(* left.                                                                   *)
CallOK(k, done, left) ==
  /\ k \in S!Requests /\ done \in Seq(S!Things) /\ left \in Seq({"events", "errors"})
  /\ k.step \in {"idle", "upload", "build", "send", "event"} => k.wish = done \o k.todo
  /\ k.step \in {"idle", "upload", "build"} => done = <<>>
  /\ k.step \in {"upload", "build", "send"} => k.todo # <<>>
  /\ k.step = "event" => k.todo = <<>>
  /\ k.step \in {"upload", "event", "error"} => k.route \in S!MessageRoutes
  /\ k.step # "ended" => left = <<>> /\ k.answer = 0
  /\ k.answer = 200 => done = k.wish
  /\ S!IsPrefix(done, k.wish)
  /\ k.answer \in {400, 401} /\ k.route # "raw" => done = <<>> /\ left = <<>>
  /\ Len(left) <= 1
  /\ k.step = "ended" /\ k.route \in S!MessageRoutes /\ done # <<>> =>
       k.row = "lost" \/ left = <<IF k.answer = 200 THEN "events" ELSE "errors">>

RestOK ==
  /\ audit \subseteq {c \in Calls : call[c].step = "ended" /\ call[c].answer # 401}
  /\ ending \in BOOLEAN /\ restarts \in 0 .. MaxRestarts

CallsOK ==
  /\ call = [c \in Calls |-> call[c]] /\ server = [c \in Calls |-> server[c]]
  /\ sentRows = [c \in Calls |-> sentRows[c]]
  /\ \A c \in Calls : CallOK(call[c], server[c], sentRows[c])

LEMMA CallByCall == SendingInv <=> CallsOK /\ RestOK
<1>1. SendingInv => CallsOK /\ RestOK
  <2> SUFFICES ASSUME SendingInv PROVE CallsOK /\ RestOK
    OBVIOUS
  <2>1. /\ call \in [Calls -> S!Requests] /\ server \in [Calls -> Seq(S!Things)]
        /\ sentRows \in [Calls -> Seq({"events", "errors"})]
    BY Zenon DEF SendingInv, S!TypeOK
  <2>2. RestOK
    BY Zenon DEF SendingInv, S!TypeOK, RestOK
  <2>3. ASSUME NEW c \in Calls PROVE CallOK(call[c], server[c], sentRows[c])
    BY <2>1, Zenon DEF SendingInv, S!FateInv, S!AnswerTellsFate, CallOK
  <2> QED BY <2>1, <2>2, <2>3, Zenon DEF CallsOK
<1>2. CallsOK /\ RestOK => SendingInv
  <2> SUFFICES ASSUME CallsOK, RestOK PROVE SendingInv
    OBVIOUS
  <2>1. /\ call \in [Calls -> S!Requests] /\ server \in [Calls -> Seq(S!Things)]
        /\ sentRows \in [Calls -> Seq({"events", "errors"})]
    BY Zenon DEF CallsOK, CallOK
  <2>2. S!TypeOK
    BY <2>1, Zenon DEF RestOK, S!TypeOK
  <2>3. S!FateInv
    BY Zenon DEF CallsOK, CallOK, S!FateInv
  <2>4. S!AnswerTellsFate
    BY ZenonT(40) DEF CallsOK, CallOK, S!AnswerTellsFate
  <2> QED BY <2>2, <2>3, <2>4, Zenon DEF SendingInv
<1> QED BY <1>1, <1>2

(* What a request asks for is a sequence, and not empty.                   *)
LEMMA WishesAreSequences ==
  ASSUME NEW route \in Routes, NEW wish \in S!Wishes(route)
  PROVE  wish \in Seq(S!Things) /\ wish # <<>>
<1>1. CASE route = "group"
  <2>1. wish \in S!SeqOf(DOMAIN S!Fields, 4) /\ wish # <<>>
    BY <1>1 DEF S!Wishes
  <2>2. PICK n \in 0 .. 4 : wish \in [1 .. n -> DOMAIN S!Fields]
    BY <2>1 DEF S!SeqOf
  <2>3. wish \in [1 .. n -> S!Things]
    BY <2>2, Zenon DEF S!Things
  <2>4. n \in Nat
    OBVIOUS
  <2>5. \A T, m : m \in Nat => [1 .. m -> T] \subseteq Seq(T)
    OBVIOUS
  <2> QED BY <2>1, <2>3, <2>4, <2>5, Zenon
<1>2. CASE route # "group"
  <2>1. wish = <<route>> /\ route \in S!Things
    BY <1>2 DEF S!Wishes, S!Things
  <2>2. \A T : \A x \in T : <<x>> \in Seq(T) /\ <<x>> # <<>>
    OBVIOUS
  <2> QED BY <2>1, <2>2, Zenon
<1> QED BY <1>1, <1>2

(* The next thing done is a longer first part of what was asked for.       *)
LEMMA OneMore ==
  ASSUME NEW T, NEW done \in Seq(T), NEW todo \in Seq(T), todo # <<>>
  PROVE  /\ Append(done, Head(todo)) \in Seq(T) /\ Tail(todo) \in Seq(T)
         /\ done \o todo = Append(done, Head(todo)) \o Tail(todo)
         /\ Append(done, Head(todo)) # <<>>
         /\ S!IsPrefix(Append(done, Head(todo)), done \o todo)
<1> DEFINE h == Head(todo)
           t == Tail(todo)
<1>1. h \in T /\ t \in Seq(T) /\ todo = <<h>> \o t
  BY SMT
<1> HIDE DEF h, t
<1>2. Append(done, h) = done \o <<h>> /\ Append(done, h) \in Seq(T)
  BY <1>1, AppendIsConcat, AppendProperties
<1>3. (done \o <<h>>) \o t = done \o (<<h>> \o t)
  BY <1>1, ConcatAssociative
<1>4. done \o todo = Append(done, h) \o t
  BY <1>1, <1>2, <1>3, Zenon
<1>5. \A a \in Seq(T) : S!IsPrefix(a, a \o t)
  BY <1>1, SMT DEF S!IsPrefix
<1>6. Append(done, h) # <<>>
  BY <1>1, AppendProperties
<1> QED BY <1>1, <1>2, <1>4, <1>5, <1>6, Zenon DEF h, t

(* A step of one request.                                                  *)
Becomes(c, k, done, left) ==
  /\ call' = [call EXCEPT ![c] = k]
  /\ server' = [server EXCEPT ![c] = done]
  /\ sentRows' = [sentRows EXCEPT ![c] = left]
  /\ audit' = audit /\ ending' = ending /\ restarts' = restarts

LEMMA OneCall ==
  ASSUME CallsOK, RestOK, NEW c \in Calls, NEW k, NEW done, NEW left, CallOK(k, done, left),
         call[c].step # "ended",
         Becomes(c, k, done, left)
  PROVE  CallsOK' /\ RestOK'
<1>1. /\ call' = [b \in Calls |-> call'[b]] /\ server' = [b \in Calls |-> server'[b]]
      /\ sentRows' = [b \in Calls |-> sentRows'[b]]
      /\ call'[c] = k /\ server'[c] = done /\ sentRows'[c] = left
      /\ \A b \in Calls \ {c} : call'[b] = call[b] /\ server'[b] = server[b] /\ sentRows'[b] = sentRows[b]
  BY DEF CallsOK, Becomes
<1>2. ASSUME NEW b \in Calls PROVE CallOK(call'[b], server'[b], sentRows'[b])
  BY <1>1, <1>2, Zenon DEF CallsOK
<1>3. CallsOK'
  BY <1>1, <1>2, Zenon DEF CallsOK
<1>4. RestOK'
  <2>1. \A b \in audit : b \in Calls /\ call[b].step = "ended" /\ call[b].answer # 401
    BY ZenonT(40) DEF RestOK
  <2>2. ASSUME NEW b \in audit
        PROVE  b \in Calls /\ call'[b].step = "ended" /\ call'[b].answer # 401
    <3>1. b \in Calls /\ b # c
      BY <2>1, ZenonT(40)
    <3>2. call'[b] = call[b]
      BY <1>1, <3>1, Zenon
    <3> QED BY <2>1, <3>1, <3>2, SMT
  <2>3. audit \subseteq {b \in Calls : call'[b].step = "ended" /\ call'[b].answer # 401}
    BY <2>2, ZenonT(40)
  <2> QED BY <2>3, Zenon DEF RestOK, Becomes
<1> QED BY <1>3, <1>4

(* A step that leaves no history.                                          *)
LEMMA KeptHistory ==
  ASSUME CallsOK, RestOK, NEW c \in Calls, NEW k, CallOK(k, server[c], sentRows[c]),
         call[c].step # "ended",
         call' = [call EXCEPT ![c] = k],
         UNCHANGED <<server, sentRows, audit, ending, restarts>>
  PROVE  CallsOK' /\ RestOK'
<1>1. Becomes(c, k, server[c], sentRows[c])
  BY DEF CallsOK, Becomes
<1> QED BY <1>1, OneCall, Zenon

(* Sequences here.                                                         *)
LEMMA ShortSequences ==
  /\ \A T : <<>> \in Seq(T)
  /\ \A T : \A s \in Seq(T) : /\ S!IsPrefix(<<>>, s) /\ S!IsPrefix(s, s)
                              /\ <<>> \o s = s /\ s \o <<>> = s
  /\ Len(<<>>) <= 1
  /\ \A w \in {"events", "errors"} : /\ Append(<<>>, w) = <<w>> /\ Len(<<w>>) <= 1
                                     /\ <<w>> \in Seq({"events", "errors"})
<1>1. \A T : \A s \in Seq(T) : S!IsPrefix(<<>>, s) /\ S!IsPrefix(s, s)
  <2> SUFFICES ASSUME NEW T, NEW s \in Seq(T) PROVE S!IsPrefix(<<>>, s) /\ S!IsPrefix(s, s)
    OBVIOUS
  <2>1. Len(s) \in Nat /\ SubSeq(<<>>, 1, 0) = <<>> /\ SubSeq(s, 1, 0) = <<>> /\ Len(<<>>) = 0
    BY SMT
  <2> QED BY <2>1, SMT DEF S!IsPrefix
<1>2. \A T : \A s \in Seq(T) : <<>> \o s = s /\ s \o <<>> = s
  BY ConcatEmptySeq
<1>3. \A T : <<>> \in Seq(T)
  OBVIOUS
<1>4. \A w \in {"events", "errors"} : /\ Append(<<>>, w) = <<w>> /\ Len(<<w>>) <= 1
                                      /\ <<w>> \in Seq({"events", "errors"})
  BY SMT
<1>5. Len(<<>>) <= 1
  BY SMT
<1> QED BY <1>1, <1>2, <1>3, <1>4, <1>5, Zenon

(* What a request's record may become.                                     *)
LEMMA StepTo ==
  ASSUME NEW r \in S!Requests, NEW step \in S!Steps
  PROVE  /\ [r EXCEPT !.step = step] \in S!Requests
         /\ [r EXCEPT !.step = step].step = step
         /\ [r EXCEPT !.step = step].wish = r.wish /\ [r EXCEPT !.step = step].todo = r.todo
         /\ [r EXCEPT !.step = step].route = r.route
         /\ [r EXCEPT !.step = step].answer = r.answer
BY DEF S!Requests

LEMMA ReplyOf ==
  ASSUME NEW c \in Calls, call[c] \in S!Requests, NEW code \in S!Answers
  PROVE  /\ S!Reply(c, code) \in S!Requests
         /\ S!Reply(c, code).step = "ended" /\ S!Reply(c, code).answer = code
         /\ S!Reply(c, code).wish = call[c].wish /\ S!Reply(c, code).route = call[c].route
<1> DEFINE r == call[c]
<1>1. "ended" \in S!Steps
  BY DEF S!Steps
<1>2. S!Reply(c, code) = [r EXCEPT !.step = "ended", !.answer = code] /\ r \in S!Requests
  BY DEF S!Reply
<1> HIDE DEF r
<1>3. /\ [r EXCEPT !.step = "ended", !.answer = code] \in S!Requests
      /\ [r EXCEPT !.step = "ended", !.answer = code].step = "ended"
      /\ [r EXCEPT !.step = "ended", !.answer = code].answer = code
      /\ [r EXCEPT !.step = "ended", !.answer = code].wish = r.wish
      /\ [r EXCEPT !.step = "ended", !.answer = code].route = r.route
  BY <1>1, <1>2 DEF S!Requests
<1> QED BY <1>2, <1>3, Zenon DEF r

LEMMA AnswersAre == 0 \in S!Answers /\ 200 \in S!Answers /\ 400 \in S!Answers /\ 500 \in S!Answers
BY DEF S!Answers

LEMMA ReplyAndRow ==
  ASSUME NEW c \in Calls, call[c] \in S!Requests, NEW code \in S!Answers, NEW fate \in S!RowFates
  PROVE  /\ [S!Reply(c, code) EXCEPT !.row = fate] \in S!Requests
         /\ [S!Reply(c, code) EXCEPT !.row = fate].step = "ended"
         /\ [S!Reply(c, code) EXCEPT !.row = fate].answer = code
         /\ [S!Reply(c, code) EXCEPT !.row = fate].row = fate
         /\ [S!Reply(c, code) EXCEPT !.row = fate].wish = call[c].wish
         /\ [S!Reply(c, code) EXCEPT !.row = fate].route = call[c].route
<1> DEFINE r == S!Reply(c, code)
<1>1. r \in S!Requests /\ r.step = "ended" /\ r.answer = code
      /\ r.wish = call[c].wish /\ r.route = call[c].route
  BY ReplyOf, Zenon
<1> HIDE DEF r
<1>2. /\ [r EXCEPT !.row = fate] \in S!Requests
      /\ [r EXCEPT !.row = fate].step = r.step /\ [r EXCEPT !.row = fate].answer = r.answer
      /\ [r EXCEPT !.row = fate].row = fate /\ [r EXCEPT !.row = fate].wish = r.wish
      /\ [r EXCEPT !.row = fate].route = r.route
  BY <1>1 DEF S!Requests
<1> QED BY <1>1, <1>2, Zenon DEF r

(* A request that is refused has done nothing.                             *)
LEMMA RefuseCall ==
  ASSUME CallsOK, RestOK, NEW c \in Calls, S!Refuse(c)
  PROVE  CallsOK' /\ RestOK'
<1>1. PICK route \in Routes : \E flaw \in S!Flaws(route) :
        call' = [call EXCEPT ![c] =
                   [S!Reply(c, IF flaw = "auth" THEN 401 ELSE 400) EXCEPT !.route = route]]
  BY Zenon DEF S!Refuse
<1>6. PICK flaw \in S!Flaws(route) :
        call' = [call EXCEPT ![c] =
                   [S!Reply(c, IF flaw = "auth" THEN 401 ELSE 400) EXCEPT !.route = route]]
  BY <1>1, Zenon
<1> DEFINE code == IF flaw = "auth" THEN 401 ELSE 400
           k    == [S!Reply(c, code) EXCEPT !.route = route]
<1>2. call' = [call EXCEPT ![c] = k] /\ code \in {400, 401} /\ code \in S!Answers
  BY <1>6 DEF S!Answers
<1> HIDE DEF code
<1>3. CallOK(call[c], server[c], sentRows[c]) /\ call[c].step = "idle"
  BY Zenon DEF CallsOK, S!Refuse
<1>4. /\ k \in S!Requests /\ k.step = "ended" /\ k.answer = code /\ k.wish = call[c].wish
  <2> DEFINE r == S!Reply(c, code)
  <2>1. call[c] \in S!Requests
    BY <1>3, Zenon DEF CallOK
  <2>2. r \in S!Requests /\ r.step = "ended" /\ r.answer = code /\ r.wish = call[c].wish
    BY <1>2, <2>1, ReplyOf, SMT
  <2> HIDE DEF r
  <2>3. /\ [r EXCEPT !.route = route] \in S!Requests
        /\ [r EXCEPT !.route = route].step = r.step /\ [r EXCEPT !.route = route].answer = r.answer
        /\ [r EXCEPT !.route = route].wish = r.wish
    BY <2>2 DEF S!Requests
  <2> QED BY <2>2, <2>3, Zenon DEF r
<1> HIDE DEF k
<1>5. CallOK(k, server[c], sentRows[c])
  BY <1>2, <1>3, <1>4, ShortSequences DEF CallOK
<1> QED BY <1>2, <1>3, <1>5, KeptHistory, Zenon DEF S!Refuse

(* An accepted one has all that it asks for before it.                     *)
LEMMA AcceptCall ==
  ASSUME CallsOK, RestOK, NEW c \in Calls, S!Accept(c)
  PROVE  CallsOK' /\ RestOK'
<1>1. PICK route \in Routes : \E wish \in S!Wishes(route), step \in {"upload", "build", "send"} :
        /\ call' = [call EXCEPT ![c] =
             [S!Idle EXCEPT !.route = route, !.wish = wish, !.todo = wish, !.step = step]]
        /\ step = "upload" => route \in S!Uploads
  BY DEF S!Accept
<1>2. PICK wish \in S!Wishes(route), step \in {"upload", "build", "send"} :
        /\ call' = [call EXCEPT ![c] =
             [S!Idle EXCEPT !.route = route, !.wish = wish, !.todo = wish, !.step = step]]
        /\ step = "upload" => route \in S!Uploads
  BY <1>1
<1> DEFINE k == [S!Idle EXCEPT !.route = route, !.wish = wish, !.todo = wish, !.step = step]
<1>3. wish \in Seq(S!Things) /\ wish # <<>>
  BY WishesAreSequences
<1>4. /\ k \in S!Requests /\ k.step = step /\ k.answer = 0
      /\ k.wish = wish /\ k.todo = wish /\ k.route = route
  BY <1>3, ZenonT(40) DEF S!Requests, S!Idle, S!Steps, S!Answers, S!RowFates
<1>5. CallOK(call[c], server[c], sentRows[c]) /\ call[c].step = "idle"
  BY DEF CallsOK, S!Accept
<1>6. call' = [call EXCEPT ![c] = k]
  BY <1>2, Zenon DEF k
<1>7. step = "upload" => route \in S!MessageRoutes
  BY <1>2 DEF S!Uploads, S!MessageRoutes, S!Texts
<1> HIDE DEF k
<1>8. CallOK(k, server[c], sentRows[c])
  BY <1>3, <1>4, <1>5, <1>7, ShortSequences DEF CallOK
<1> QED BY <1>5, <1>6, <1>8, KeptHistory, Zenon DEF S!Accept

(* Before anything is asked of the server, nothing was done.               *)
LEMMA UploadCall ==
  ASSUME CallsOK, RestOK, NEW c \in Calls, S!Upload(c)
  PROVE  CallsOK' /\ RestOK'
<1>1. PICK next \in {"send", "error"} : call' = [call EXCEPT ![c] = [call[c] EXCEPT !.step = next]]
  BY Zenon DEF S!Upload
<1> DEFINE k == [call[c] EXCEPT !.step = next]
<1>2. CallOK(call[c], server[c], sentRows[c]) /\ call[c].step = "upload"
  BY Zenon DEF CallsOK, S!Upload
<1>3. call[c] \in S!Requests /\ next \in S!Steps
  BY <1>2 DEF CallOK, S!Steps
<1>4. /\ k \in S!Requests /\ k.step = next /\ k.wish = call[c].wish /\ k.todo = call[c].todo
      /\ k.route = call[c].route /\ k.answer = call[c].answer
  BY <1>3, StepTo
<1>5. call' = [call EXCEPT ![c] = k]
  BY <1>1
<1> HIDE DEF k
<1>6. CallOK(k, server[c], sentRows[c])
  BY <1>2, <1>4 DEF CallOK
<1> QED BY <1>2, <1>5, <1>6, KeptHistory, Zenon DEF S!Upload

LEMMA BuildVoteCall ==
  ASSUME CallsOK, RestOK, NEW c \in Calls, S!BuildVote(c)
  PROVE  CallsOK' /\ RestOK'
<1>1. CallOK(call[c], server[c], sentRows[c]) /\ call[c].step = "build" /\ call[c] \in S!Requests
  BY ZenonT(40) DEF CallsOK, CallOK, S!BuildVote
<1>2. CASE call' = [call EXCEPT ![c].step = "send"]
  <2> DEFINE k == [call[c] EXCEPT !.step = "send"]
  <2>1. "send" \in S!Steps
    BY DEF S!Steps
  <2>2. /\ k \in S!Requests /\ k.step = "send" /\ k.wish = call[c].wish /\ k.todo = call[c].todo
        /\ k.route = call[c].route /\ k.answer = call[c].answer
    BY <1>1, <2>1, StepTo
  <2>3. call' = [call EXCEPT ![c] = k]
    BY <1>2
  <2> HIDE DEF k
  <2>4. CallOK(k, server[c], sentRows[c])
    BY <1>1, <2>2 DEF CallOK
  <2> QED BY <1>1, <2>3, <2>4, KeptHistory, Zenon DEF S!BuildVote
<1>3. CASE call' = [call EXCEPT ![c] = S!Reply(c, 500)]
  <2> DEFINE k == S!Reply(c, 500)
  <2>2. k \in S!Requests /\ k.step = "ended" /\ k.answer = 500 /\ k.wish = call[c].wish
    BY <1>1, AnswersAre, ReplyOf
  <2>3. call' = [call EXCEPT ![c] = k]
    BY <1>3
  <2> HIDE DEF k
  <2>4. CallOK(k, server[c], sentRows[c])
    BY <1>1, <2>2 DEF CallOK
  <2> QED BY <1>1, <2>3, <2>4, KeptHistory, Zenon DEF S!BuildVote
<1> QED BY <1>2, <1>3, Zenon DEF S!BuildVote

(* The server does the next thing: it is one more of those asked for.      *)
LEMMA SucceedCall ==
  ASSUME CallsOK, RestOK, NEW c \in Calls, S!Succeed(c)
  PROVE  CallsOK' /\ RestOK'
<1> DEFINE todo == call[c].todo
           done == Append(server[c], Head(todo))
           rest == Tail(todo)
<1>1. CallOK(call[c], server[c], sentRows[c]) /\ call[c].step = "send"
  BY Zenon DEF CallsOK, S!Succeed
<1>2. /\ call[c] \in S!Requests /\ server[c] \in Seq(S!Things) /\ todo \in Seq(S!Things)
      /\ call[c].wish = server[c] \o todo /\ todo # <<>>
      /\ call[c].answer = 0 /\ sentRows[c] = <<>>
  BY <1>1 DEF CallOK, S!Requests
<1>3. /\ server' = [server EXCEPT ![c] = done]
      /\ UNCHANGED <<sentRows, audit, ending, restarts>>
      /\ call' = [call EXCEPT ![c] =
           IF rest # <<>> THEN [call[c] EXCEPT !.todo = rest]
           ELSE IF call[c].route \in S!MessageRoutes THEN [call[c] EXCEPT !.todo = rest, !.step = "event"]
           ELSE [S!Reply(c, 200) EXCEPT !.todo = rest]]
  BY DEF S!Succeed
<1> HIDE DEF todo
<1>4. /\ done \in Seq(S!Things) /\ rest \in Seq(S!Things) /\ done # <<>>
      /\ call[c].wish = done \o rest /\ S!IsPrefix(done, call[c].wish)
  <2> DEFINE had == server[c]
  <2> HIDE DEF had
  <2>1. had \in Seq(S!Things) /\ todo \in Seq(S!Things) /\ todo # <<>> /\ call[c].wish = had \o todo
    BY <1>2 DEF had
  <2>2. /\ Append(had, Head(todo)) \in Seq(S!Things) /\ Tail(todo) \in Seq(S!Things)
        /\ had \o todo = Append(had, Head(todo)) \o Tail(todo)
        /\ Append(had, Head(todo)) # <<>>
        /\ S!IsPrefix(Append(had, Head(todo)), had \o todo)
    BY <2>1, OneMore
  <2> QED BY <2>1, <2>2, Zenon DEF had
<1> HIDE DEF done, rest
<1>5. ASSUME NEW k, CallOK(k, done, sentRows[c]), call' = [call EXCEPT ![c] = k]
      PROVE  CallsOK' /\ RestOK'
  <2>1. Becomes(c, k, done, sentRows[c])
    BY <1>3, <1>5 DEF CallsOK, Becomes
  <2> QED BY <1>1, <1>5, <2>1, OneCall, SMT
<1>6. CASE rest # <<>>
  <2> DEFINE k == [call[c] EXCEPT !.todo = rest]
  <2>1. /\ k \in S!Requests /\ k.todo = rest /\ k.step = "send" /\ k.wish = call[c].wish
        /\ k.route = call[c].route /\ k.answer = 0
    BY <1>1, <1>2, <1>4 DEF S!Requests
  <2>2. call' = [call EXCEPT ![c] = k]
    BY <1>3, <1>6
  <2> HIDE DEF k
  <2>3. CallOK(k, done, sentRows[c])
    BY <1>2, <1>4, <1>6, <2>1, ShortSequences DEF CallOK
  <2> QED BY <1>5, <2>2, <2>3, Zenon
<1>7. CASE rest = <<>> /\ call[c].route \in S!MessageRoutes
  <2> DEFINE k == [call[c] EXCEPT !.todo = rest, !.step = "event"]
  <2>1. /\ k \in S!Requests /\ k.step = "event" /\ k.todo = <<>> /\ k.wish = call[c].wish
        /\ k.route = call[c].route /\ k.answer = 0
    <3>1. "event" \in S!Steps
      BY DEF S!Steps
    <3> QED BY <1>2, <1>4, <1>7, <3>1 DEF S!Requests
  <2>2. call' = [call EXCEPT ![c] = k]
    BY <1>3, <1>7
  <2> HIDE DEF k
  <2>3. k.wish = done \o k.todo /\ k.route \in S!MessageRoutes /\ S!IsPrefix(done, k.wish)
    BY <1>4, <1>7, <2>1
  <2>4. Len(sentRows[c]) <= 1 /\ sentRows[c] \in Seq({"events", "errors"})
    BY <1>1, Zenon DEF CallOK
  <2>5. CallOK(k, done, sentRows[c])
    BY <1>2, <1>4, <2>1, <2>3, <2>4 DEF CallOK
  <2> QED BY <1>5, <2>2, <2>5, Zenon
<1>8. CASE rest = <<>> /\ call[c].route \notin S!MessageRoutes
  <2> DEFINE r == S!Reply(c, 200)
             k == [r EXCEPT !.todo = rest]
  <2>1. /\ r \in S!Requests /\ r.step = "ended" /\ r.answer = 200 /\ r.wish = call[c].wish
        /\ r.route = call[c].route
    BY <1>2, AnswersAre, ReplyOf, SMTT(30)
  <2>2. call' = [call EXCEPT ![c] = k]
    BY <1>3, <1>8
  <2> HIDE DEF r
  <2>3. /\ k \in S!Requests /\ k.step = "ended" /\ k.answer = 200 /\ k.wish = call[c].wish
        /\ k.route = call[c].route
    BY <1>4, <2>1 DEF S!Requests
  <2>4. done = call[c].wish
    BY <1>4, <1>8, ShortSequences
  <2> HIDE DEF k
  <2>5. CallOK(k, done, sentRows[c])
    BY <1>2, <1>4, <1>8, <2>3, <2>4, ShortSequences DEF CallOK
  <2> QED BY <1>5, <2>2, <2>5, Zenon
<1> QED BY <1>6, <1>7, <1>8

(* It fails: the thing was done or not, and nothing follows.               *)
LEMMA FailCall ==
  ASSUME CallsOK, RestOK, NEW c \in Calls, S!Fail(c)
  PROVE  CallsOK' /\ RestOK'
<1>1. CallOK(call[c], server[c], sentRows[c]) /\ call[c].step = "send"
  BY Zenon DEF CallsOK, S!Fail
<1>2. /\ call[c] \in S!Requests /\ server[c] \in Seq(S!Things) /\ call[c].todo \in Seq(S!Things)
      /\ call[c].wish = server[c] \o call[c].todo /\ call[c].todo # <<>>
      /\ call[c].answer = 0 /\ sentRows[c] = <<>> /\ S!IsPrefix(server[c], call[c].wish)
  BY <1>1 DEF CallOK, S!Requests
<1>3. PICK done : /\ server' = [server EXCEPT ![c] = done]
                  /\ done \in Seq(S!Things) /\ S!IsPrefix(done, call[c].wish)
  <2>1. CASE server' = server
    <3>1. server' = [server EXCEPT ![c] = server[c]]
      BY <2>1 DEF CallsOK
    <3> QED BY <1>2, <3>1
  <2>2. CASE server' = [server EXCEPT ![c] = Append(server[c], Head(call[c].todo))]
    BY <1>2, <2>2, OneMore, ZenonT(40)
  <2> QED BY <2>1, <2>2 DEF S!Fail
<1>4. ASSUME NEW k, CallOK(k, done, sentRows[c]), call' = [call EXCEPT ![c] = k]
      PROVE  CallsOK' /\ RestOK'
  <2>1. Becomes(c, k, done, sentRows[c])
    BY <1>3, <1>4, ZenonT(40) DEF CallsOK, Becomes, S!Fail
  <2> QED BY <1>1, <1>4, <2>1, OneCall, SMT
<1>5. CASE call[c].route \in S!MessageRoutes
  <2> DEFINE k == [call[c] EXCEPT !.step = "error"]
  <2>1. "error" \in S!Steps
    BY DEF S!Steps
  <2>2. /\ k \in S!Requests /\ k.step = "error" /\ k.wish = call[c].wish
        /\ k.route = call[c].route /\ k.answer = call[c].answer
    BY <1>2, <2>1, StepTo
  <2>3. call' = [call EXCEPT ![c] = k]
    BY <1>5 DEF S!Fail
  <2> HIDE DEF k
  <2>4. CallOK(k, done, sentRows[c])
    BY <1>2, <1>3, <1>5, <2>2, ShortSequences DEF CallOK
  <2> QED BY <1>4, <2>3, <2>4, Zenon
<1>6. CASE call[c].route \notin S!MessageRoutes
  <2> DEFINE k == S!Reply(c, 500)
  <2>1. call[c] \in S!Requests
    BY <1>2
  <2>2. k \in S!Requests /\ k.step = "ended" /\ k.answer = 500 /\ k.wish = call[c].wish
        /\ k.route = call[c].route
    BY <2>1, AnswersAre, ReplyOf
  <2>3. call' = [call EXCEPT ![c] = k]
    BY <1>6 DEF S!Fail
  <2> HIDE DEF k
  <2>4. CallOK(k, done, sentRows[c])
    BY <1>2, <1>3, <1>6, <2>2, ShortSequences DEF CallOK
  <2> QED BY <1>4, <2>3, <2>4, Zenon
<1> QED BY <1>5, <1>6

(* saveSentMessage and saveSentError: one row, or none and a note of it.   *)
LEMMA SaveSentCall ==
  ASSUME CallsOK, RestOK, NEW c \in Calls, S!SaveSent(c)
  PROVE  CallsOK' /\ RestOK'
<1>1. CallOK(call[c], server[c], sentRows[c]) /\ call[c].step = "event"
  BY Zenon DEF CallsOK, S!SaveSent
<1>2. /\ call[c] \in S!Requests /\ server[c] \in Seq(S!Things)
      /\ call[c].wish = server[c] \o call[c].todo /\ call[c].todo = <<>>
      /\ sentRows[c] = <<>> /\ S!IsPrefix(server[c], call[c].wish)
  BY <1>1 DEF CallOK
<1>3. server[c] = call[c].wish
  BY <1>2, ShortSequences
<1>4. PICK fate \in {"saved", "lost"} :
        /\ call' = [call EXCEPT ![c] = [S!Reply(c, 200) EXCEPT !.row = fate]]
        /\ sentRows' = IF fate = "saved" THEN [sentRows EXCEPT ![c] = Append(sentRows[c], "events")]
                       ELSE sentRows
  BY DEF S!SaveSent
<1> DEFINE k == [S!Reply(c, 200) EXCEPT !.row = fate]
           left == IF fate = "saved" THEN <<"events">> ELSE <<>>
<1>5. /\ k \in S!Requests /\ k.step = "ended" /\ k.answer = 200 /\ k.row = fate
      /\ k.wish = call[c].wish /\ k.route = call[c].route
  <2>1. call[c] \in S!Requests /\ fate \in S!RowFates
    BY <1>2, <1>4 DEF S!RowFates
  <2> QED BY <2>1, AnswersAre, ReplyAndRow
<1> HIDE DEF k
<1>8. /\ left \in Seq({"events", "errors"}) /\ Len(left) <= 1
      /\ fate = "lost" \/ left = <<"events">>
  BY <1>4, ShortSequences
<1> HIDE DEF left
<1>6. CallOK(k, server[c], left)
  BY <1>2, <1>3, <1>4, <1>5, <1>8 DEF CallOK
<1>7. Becomes(c, k, server[c], left)
  <2>1. call' = [call EXCEPT ![c] = k]
    BY <1>4, Zenon DEF k
  <2>2. server' = [server EXCEPT ![c] = server[c]] /\ UNCHANGED <<audit, ending, restarts>>
    BY DEF CallsOK, S!SaveSent
  <2>3. sentRows' = [sentRows EXCEPT ![c] = left]
    <3>1. CASE fate = "saved"
      <4>1. Append(sentRows[c], "events") = <<"events">>
        BY <1>2, ShortSequences
      <4> QED BY <1>4, <3>1, <4>1 DEF left
    <3>2. CASE fate # "saved"
      BY <1>2, <1>4, <3>2 DEF CallsOK, left
    <3> QED BY <3>1, <3>2
  <2> QED BY <2>1, <2>2, <2>3, SMT DEF Becomes
<1> QED BY <1>1, <1>6, <1>7, OneCall, SMT

LEMMA SaveErrorCall ==
  ASSUME CallsOK, RestOK, NEW c \in Calls, S!SaveError(c)
  PROVE  CallsOK' /\ RestOK'
<1>1. CallOK(call[c], server[c], sentRows[c]) /\ call[c].step = "error"
  BY Zenon DEF CallsOK, S!SaveError
<1>2. /\ call[c] \in S!Requests /\ server[c] \in Seq(S!Things)
      /\ sentRows[c] = <<>> /\ S!IsPrefix(server[c], call[c].wish)
  BY <1>1 DEF CallOK
<1> DEFINE code == IF call[c].route = "raw" THEN 400 ELSE 500
<1>3. PICK fate \in {"saved", "lost"} :
        /\ call' = [call EXCEPT ![c] = [S!Reply(c, code) EXCEPT !.row = fate]]
        /\ sentRows' = IF fate = "saved" THEN [sentRows EXCEPT ![c] = Append(sentRows[c], "errors")]
                       ELSE sentRows
  BY DEF S!SaveError
<1>4. code \in {400, 500} /\ (code = 400 => call[c].route = "raw") /\ code \in S!Answers
  BY AnswersAre
<1> HIDE DEF code
<1> DEFINE k == [S!Reply(c, code) EXCEPT !.row = fate]
           left == IF fate = "saved" THEN <<"errors">> ELSE <<>>
<1>5. /\ k \in S!Requests /\ k.step = "ended" /\ k.answer = code /\ k.row = fate
      /\ k.wish = call[c].wish /\ k.route = call[c].route
  <2>1. call[c] \in S!Requests /\ fate \in S!RowFates
    BY <1>2, <1>3 DEF S!RowFates
  <2> QED BY <1>4, <2>1, ReplyAndRow
<1> HIDE DEF k
<1>8. /\ left \in Seq({"events", "errors"}) /\ Len(left) <= 1
      /\ fate = "lost" \/ left = <<"errors">>
  BY <1>3, ShortSequences
<1> HIDE DEF left
<1>6. CallOK(k, server[c], left)
  BY <1>2, <1>3, <1>4, <1>5, <1>8 DEF CallOK
<1>7. Becomes(c, k, server[c], left)
  <2>1. call' = [call EXCEPT ![c] = k]
    BY <1>3, Zenon DEF k
  <2>2. server' = [server EXCEPT ![c] = server[c]] /\ UNCHANGED <<audit, ending, restarts>>
    BY DEF CallsOK, S!SaveError
  <2>3. sentRows' = [sentRows EXCEPT ![c] = left]
    <3>1. CASE fate = "saved"
      <4>1. Append(sentRows[c], "errors") = <<"errors">>
        BY <1>2, ShortSequences
      <4> QED BY <1>3, <3>1, <4>1 DEF left
    <3>2. CASE fate # "saved"
      BY <1>2, <1>3, <3>2 DEF CallsOK, left
    <3> QED BY <3>1, <3>2
  <2> QED BY <2>1, <2>2, <2>3, SMT DEF Becomes
<1> QED BY <1>1, <1>6, <1>7, OneCall, SMT

(* The audit log is about requests that ended.                             *)
LEMMA AuditCall ==
  ASSUME CallsOK, RestOK, NEW c \in Calls, S!Audit(c)
  PROVE  CallsOK' /\ RestOK'
<1>1. UNCHANGED <<call, server, sentRows>>
  BY DEF S!Audit
<1>2. CallsOK'
  BY <1>1, Zenon DEF CallsOK
<1>3. RestOK'
  BY <1>1 DEF S!Audit, RestOK
<1> QED BY <1>2, <1>3

(* A death cuts what is under way off, before its answer and its row.      *)
LEMMA RestartCalls ==
  ASSUME CallsOK, RestOK, S!Restart
  PROVE  CallsOK' /\ RestOK'
<1>1. /\ call' = [c \in Calls |-> IF call[c].step \in {"idle", "ended"} THEN call[c]
                                  ELSE [call[c] EXCEPT !.step = "cut"]]
      /\ UNCHANGED <<server, sentRows, audit>>
      /\ restarts' = restarts + 1 /\ restarts < MaxRestarts /\ ending' = FALSE
  BY DEF S!Restart
<1>2. ASSUME NEW c \in Calls
      PROVE  /\ CallOK(call'[c], server[c], sentRows[c])
             /\ call[c].step = "ended" => call'[c] = call[c]
  <2>1. CallOK(call[c], server[c], sentRows[c])
    BY Zenon DEF CallsOK
  <2>2. CASE call[c].step \in {"idle", "ended"}
    <3>1. call'[c] = call[c]
      BY <1>1, <2>2
    <3> QED BY <2>1, <3>1, Zenon
  <2>3. CASE call[c].step \notin {"idle", "ended"}
    <3> DEFINE k == [call[c] EXCEPT !.step = "cut"]
    <3>1. call'[c] = k /\ call[c].step # "ended"
      BY <1>1, <2>3
    <3>2. call[c] \in S!Requests /\ "cut" \in S!Steps
      BY <2>1 DEF CallOK, S!Steps
    <3>3. /\ k \in S!Requests /\ k.step = "cut" /\ k.wish = call[c].wish
          /\ k.route = call[c].route /\ k.answer = call[c].answer
      BY <3>2, StepTo
    <3> HIDE DEF k
    <3>4. CallOK(k, server[c], sentRows[c])
      BY <2>1, <2>3, <3>3 DEF CallOK
    <3> QED BY <3>1, <3>4, Zenon
  <2> QED BY <2>2, <2>3
<1>3. CallsOK'
  BY <1>1, <1>2 DEF CallsOK
<1>4. RestOK'
  <2>1. restarts' \in 0 .. MaxRestarts
    BY <1>1, SendingAssumption DEF RestOK, SendingAssumption
  <2>2. audit \subseteq {c \in Calls : call'[c].step = "ended" /\ call'[c].answer # 401}
    BY <1>2 DEF RestOK
  <2> QED BY <1>1, <2>1, <2>2 DEF RestOK
<1> QED BY <1>3, <1>4

LEMMA InitSending == S!Init => SendingInv
<1> SUFFICES ASSUME S!Init PROVE CallsOK /\ RestOK
  BY CallByCall
<1>1. /\ call = [c \in Calls |-> S!Idle] /\ server = [c \in Calls |-> <<>>]
      /\ sentRows = [c \in Calls |-> <<>>]
      /\ audit = {} /\ ending = FALSE /\ restarts = 0
  BY DEF S!Init
<1>2. CallOK(S!Idle, <<>>, <<>>)
  <2>1. /\ S!Idle \in S!Requests /\ S!Idle.step = "idle" /\ S!Idle.answer = 0
        /\ S!Idle.wish = <<>> /\ S!Idle.todo = <<>>
    BY ShortSequences DEF S!Idle, S!Requests, S!Steps, S!Answers, S!RowFates
  <2> QED BY <2>1, ShortSequences DEF CallOK
<1>3. CallsOK
  BY <1>1, <1>2 DEF CallsOK
<1>4. RestOK
  <2>1. restarts \in 0 .. MaxRestarts
    BY <1>1, SendingAssumption DEF SendingAssumption
  <2> QED BY <1>1, <2>1 DEF RestOK
<1> QED BY <1>3, <1>4

(* Every step of the requests keeps what is known of them.                 *)
LEMMA NextSending == SendingInv /\ [S!Next]_sendVars => SendingInv'
<1> SUFFICES ASSUME CallsOK, RestOK, [S!Next]_sendVars PROVE CallsOK' /\ RestOK'
  <2>1. SendingInv <=> CallsOK /\ RestOK
    BY CallByCall
  <2>2. SendingInv' <=> CallsOK' /\ RestOK'
    BY CallByCall, PTL
  <2> QED BY <2>1, <2>2
<1>1. ASSUME NEW c \in Calls, S!Serve(c) PROVE CallsOK' /\ RestOK'
  BY <1>1, RefuseCall, AcceptCall, UploadCall, BuildVoteCall, SucceedCall, FailCall,
     SaveSentCall, SaveErrorCall, AuditCall, Zenon DEF S!Serve
<1>2. CASE S!ShutDown
  <2>1. UNCHANGED <<call, server, sentRows, audit, restarts>> /\ ending' = TRUE
    BY <1>2 DEF S!ShutDown
  <2> QED BY <2>1 DEF CallsOK, RestOK
<1>3. CASE UNCHANGED sendVars
  <2>1. UNCHANGED <<call, server, sentRows, audit, ending, restarts>>
    BY <1>3 DEF sendVars
  <2> QED BY <2>1 DEF CallsOK, RestOK
<1> QED BY <1>1, <1>2, <1>3, RestartCalls, Zenon DEF S!Next

LEMMA SendingInvHolds == MessagingSpec => []SendingInv
<1>1. MessagingInit => SendingInv
  BY InitSending DEF MessagingInit
<1>2. SendingInv /\ [MessagingNext]_allVars => SendingInv'
  <2>1. [MessagingNext]_allVars => [S!Next]_sendVars
    BY DEF MessagingNext, allVars, sendVars
  <2> QED BY <2>1, NextSending
<1> QED BY <1>1, <1>2, PTL DEF MessagingSpec

(* postSend*, patchGroup, sendMessage: what a request was answered tells   *)
(* what the server did for it and which row it left, whatever fails and    *)
(* whenever the process dies, for any number of requests to any routes.    *)
THEOREM AnswersTellFates == MessagingSpec => []AnswerTellsFate
<1>1. SendingInv => AnswerTellsFate
  BY DEF SendingInv, AnswerTellsFate
<1> QED BY <1>1, SendingInvHolds, PTL

(***************************************************************************)
(* Auto-reply rules.                                                       *)
(***************************************************************************)

(* What every state of the rules and their evaluations satisfies.          *)
RulesInv == R!TypeOK /\ R!ScanInv /\ R!CountInv

(* The cardinality of the rules' module is that of FiniteSets.             *)
LEMMA SameCardinality == \A T : R!Cardinality(T) = Cardinality(T)
BY DEF R!Cardinality, Cardinality

(* The query gives each enabled rule once, by priority.                    *)
LEMMA OrderedRules ==
  ASSUME NEW table \in R!Tables, NEW order \in R!Ordered(table)
  PROVE  /\ order \in Seq(Rules)
         /\ \A p \in DOMAIN order : table[order[p]] # R!Gone /\ table[order[p]].enabled
         /\ \A r \in Rules : table[r] # R!Gone /\ table[r].enabled =>
              \E p \in DOMAIN order : order[p] = r
         /\ \A p, q \in DOMAIN order : order[p] = order[q] => p = q
         /\ \A p, q \in DOMAIN order : p < q =>
              table[order[p]].priority <= table[order[q]].priority
<1> DEFINE enabled == {r \in Rules : table[r] # R!Gone /\ table[r].enabled}
           n == Cardinality(enabled)
<1>1. IsFiniteSet(enabled) /\ n \in Nat
  BY RulesAssumption, FS_Subset, FS_CardinalityType DEF RulesAssumption
<1>2. /\ order \in [1 .. n -> enabled] /\ \A i, j \in 1 .. n : i # j => order[i] # order[j]
      /\ \A i, j \in DOMAIN order : i < j => table[order[i]].priority <= table[order[j]].priority
  <2>1. order \in R!SetToSeqs(enabled)
    BY Zenon DEF R!Ordered
  <2>2. \A i, j \in DOMAIN order : i < j => table[order[i]].priority <= table[order[j]].priority
    BY Zenon DEF R!Ordered
  <2> HIDE DEF enabled
  <2>3. order \in [1 .. n -> enabled] /\ \A i, j \in 1 .. n : i # j => order[i] # order[j]
    BY <2>1, SameCardinality DEF R!SetToSeqs
  <2> QED BY <2>2, <2>3, Zenon
<1> HIDE DEF n
<1>3. order \in Injection(1 .. n, enabled)
  BY <1>2, Zenon DEF Injection, IsInjective
<1>4. Cardinality(1 .. n) = n
  BY <1>1, FS_Interval
<1>5. order \in Surjection(1 .. n, enabled)
  BY <1>1, <1>3, <1>4, FS_Injection DEF n
<1>6. \A r \in enabled : \E p \in 1 .. n : order[p] = r
  BY <1>5 DEF Surjection
<1>7. DOMAIN order = 1 .. n /\ order \in Seq(Rules)
  BY <1>1, <1>2
<1> QED BY <1>2, <1>6, <1>7

(* What an evaluation's record may become.                                 *)
LEMMA Going ==
  ASSUME NEW e \in R!Evaluations, NEW step \in R!Stages, NEW next \in Nat \ {0}
  PROVE  LET k == [e EXCEPT !.step = step, !.next = next]
         IN /\ k \in R!Evaluations /\ k.step = step /\ k.next = next
            /\ k.list = e.list /\ k.table = e.table /\ k.message = e.message
            /\ k.executed = e.executed /\ k.loaded = e.loaded
BY DEF R!Evaluations

Doing(e, r) == [e EXCEPT !.step = "load", !.executed = Append(e.executed, r)]

LEMMA Executing ==
  ASSUME NEW e \in R!Evaluations, NEW r \in Rules
  PROVE  LET k == Doing(e, r)
         IN /\ k \in R!Evaluations /\ k.step = "load" /\ k.next = e.next
            /\ k.list = e.list /\ k.table = e.table /\ k.message = e.message
            /\ k.executed = Append(e.executed, r) /\ k.loaded = e.loaded
<1>1. Append(e.executed, r) \in Seq(Rules)
  BY DEF R!Evaluations
<1>2. "load" \in R!Stages
  BY DEF R!Stages
<1> QED BY <1>1, <1>2 DEF R!Evaluations, Doing

LEMMA Loading ==
  ASSUME NEW e \in R!Evaluations, NEW step \in R!Stages, NEW n \in Nat
  PROVE  LET k == [e EXCEPT !.step = step, !.loaded = n]
         IN /\ k \in R!Evaluations /\ k.step = step /\ k.next = e.next
            /\ k.list = e.list /\ k.table = e.table /\ k.message = e.message
            /\ k.executed = e.executed /\ k.loaded = n
BY DEF R!Evaluations

LEMMA Stepping ==
  ASSUME NEW e \in R!Evaluations, NEW step \in R!Stages
  PROVE  LET k == [e EXCEPT !.step = step]
         IN /\ k \in R!Evaluations /\ k.step = step /\ k.next = e.next
            /\ k.list = e.list /\ k.table = e.table /\ k.message = e.message
            /\ k.executed = e.executed /\ k.loaded = e.loaded
BY DEF R!Evaluations

LEMMA Nexting ==
  ASSUME NEW e \in R!Evaluations, NEW next \in Nat \ {0}
  PROVE  LET k == [e EXCEPT !.next = next]
         IN /\ k \in R!Evaluations /\ k.step = e.step /\ k.next = next
            /\ k.list = e.list /\ k.table = e.table /\ k.message = e.message
            /\ k.executed = e.executed /\ k.loaded = e.loaded
BY DEF R!Evaluations

(***************************************************************************)
(* Where an evaluation is.                                                 *)
(***************************************************************************)

LEMMA BeginsInOrder ==
  ASSUME NEW e \in R!Evaluations, NEW at, e.step = "scan", e.next = 1, e.executed = <<>>,
         e.list \in R!Ordered(e.table)
  PROVE  R!InOrder(e, at)
<1>1. Len(e.list) \in Nat /\ DOMAIN e.list = 1 .. Len(e.list) /\ DOMAIN e.executed = {}
  BY DEF R!Evaluations
<1>2. R!Passed(e) = {}
  BY <1>1 DEF R!Passed
<1> QED BY <1>1, <1>2 DEF R!InOrder

(* A rule that does not match is passed.                                   *)
LEMMA SkipsInOrder ==
  ASSUME NEW e \in R!Evaluations, NEW k \in R!Evaluations, NEW at, R!InOrder(e, at),
         e.step = "scan", e.next <= Len(e.list),
         ~R!MatchesRule(e.table[e.list[e.next]], e.message, at),
         k.step = "scan", k.next = e.next + 1, k.list = e.list, k.table = e.table,
         k.message = e.message, k.executed = e.executed
  PROVE  R!InOrder(k, at)
<1>1. Len(e.list) \in Nat /\ DOMAIN e.list = 1 .. Len(e.list) /\ e.next \in Nat \ {0}
  BY DEF R!Evaluations
<1>2. R!Passed(k) = R!Passed(e) \cup {e.next}
  BY <1>1 DEF R!Passed
<1>3. k.next <= Len(k.list) + 1
  BY <1>1
<1> QED BY <1>2, <1>3, <1>1 DEF R!InOrder

(* One that matches is executed after the others.                          *)
LEMMA ExecutesInOrder ==
  ASSUME NEW e \in R!Evaluations, NEW k \in R!Evaluations, NEW at, R!InOrder(e, at),
         e.step = "scan", e.next <= Len(e.list),
         R!MatchesRule(e.table[e.list[e.next]], e.message, at),
         k.step = "load", k.next = e.next, k.list = e.list, k.table = e.table,
         k.message = e.message, k.executed = Append(e.executed, e.list[e.next])
  PROVE  R!InOrder(k, at)
<1> DEFINE n == Len(e.executed)
<1>1. /\ Len(e.list) \in Nat /\ DOMAIN e.list = 1 .. Len(e.list) /\ e.next \in Nat \ {0}
      /\ n \in Nat /\ DOMAIN e.executed = 1 .. n
      /\ Len(k.executed) = n + 1 /\ DOMAIN k.executed = 1 .. n + 1
      /\ \A i \in 1 .. n : k.executed[i] = e.executed[i]
      /\ k.executed[n + 1] = e.list[e.next]
      /\ k.executed # <<>> /\ R!Last(k.executed) = e.list[e.next]
  BY DEF R!Evaluations, R!Last
<1>2. R!Passed(k) = R!Passed(e) \cup {e.next} /\ \A p \in R!Passed(e) : p < e.next
  BY <1>1 DEF R!Passed
<1> HIDE DEF n
<1>3. \A p, q \in DOMAIN e.list : e.list[p] = e.list[q] => p = q
  BY OrderedRules DEF R!Evaluations, R!InOrder
<1>4. \A i \in DOMAIN k.executed : \E p \in R!Passed(k) :
        k.list[p] = k.executed[i] /\ R!MatchesRule(k.table[k.list[p]], k.message, at)
  <2> SUFFICES ASSUME NEW i \in DOMAIN k.executed
               PROVE  \E p \in R!Passed(k) : k.list[p] = k.executed[i]
                        /\ R!MatchesRule(k.table[k.list[p]], k.message, at)
    OBVIOUS
  <2>1. CASE i = n + 1
    BY <1>1, <1>2, <2>1
  <2>2. CASE i # n + 1
    <3>1. i \in 1 .. n /\ k.executed[i] = e.executed[i] /\ i \in DOMAIN e.executed
      BY <1>1, <2>2
    <3>2. PICK p \in R!Passed(e) :
            e.list[p] = e.executed[i] /\ R!MatchesRule(e.table[e.list[p]], e.message, at)
      BY <3>1, Zenon DEF R!InOrder
    <3> QED BY <1>2, <3>1, <3>2
  <2> QED BY <2>1, <2>2
<1>5. \A p \in R!Passed(k) : R!MatchesRule(k.table[k.list[p]], k.message, at) =>
        \E i \in DOMAIN k.executed : k.executed[i] = k.list[p]
  <2> SUFFICES ASSUME NEW p \in R!Passed(k), R!MatchesRule(k.table[k.list[p]], k.message, at)
               PROVE  \E i \in DOMAIN k.executed : k.executed[i] = k.list[p]
    OBVIOUS
  <2>1. CASE p = e.next
    BY <1>1, <2>1
  <2>2. CASE p # e.next
    <3>1. PICK i \in 1 .. n : e.executed[i] = e.list[p]
      BY <1>1, <1>2, <2>2, ZenonT(40) DEF R!InOrder
    <3>2. i \in DOMAIN k.executed
      BY <1>1
    <3>3. k.executed[i] = e.executed[i] /\ k.list[p] = e.list[p]
      BY <1>1
    <3> QED BY <3>1, <3>2, <3>3
  <2> QED BY <2>1, <2>2
<1>6. \A i, j \in DOMAIN k.executed : \A p, q \in DOMAIN k.list :
        i < j /\ k.list[p] = k.executed[i] /\ k.list[q] = k.executed[j] => p < q
  <2> SUFFICES ASSUME NEW i \in DOMAIN k.executed, NEW j \in DOMAIN k.executed, i < j,
                      NEW p \in DOMAIN k.list, NEW q \in DOMAIN k.list,
                      k.list[p] = k.executed[i], k.list[q] = k.executed[j]
               PROVE  p < q
    OBVIOUS
  <2>1. CASE j = n + 1
    <3>1. i \in 1 .. n /\ e.list[p] = e.executed[i]
      BY <1>1, <2>1
    <3>2. PICK b \in R!Passed(e) : e.list[b] = e.executed[i]
      BY <1>1, <3>1 DEF R!InOrder
    <3>3. b \in DOMAIN e.list /\ b < e.next
      BY <1>2 DEF R!Passed
    <3>4. p = b /\ q = e.next
      BY <1>1, <1>3, <2>1, <3>1, <3>2, <3>3
    <3> QED BY <3>3, <3>4
  <2>2. CASE j # n + 1
    <3>1. i \in 1 .. n /\ j \in 1 .. n /\ e.list[p] = e.executed[i] /\ e.list[q] = e.executed[j]
          /\ p \in DOMAIN e.list /\ q \in DOMAIN e.list
      BY <1>1, <2>2
    <3>2. i \in DOMAIN e.executed /\ j \in DOMAIN e.executed
      BY <1>1, <3>1
    <3> QED BY <3>1, <3>2, Zenon DEF R!InOrder
  <2> QED BY <2>1, <2>2
<1>7. \A i \in DOMAIN k.executed : k.table[k.executed[i]].stop => i = Len(k.executed)
  <2>1. \A i \in 1 .. n : ~e.table[e.executed[i]].stop
    BY <1>1 DEF R!InOrder
  <2> QED BY <1>1, <2>1
<1>8. k.list \in R!Ordered(k.table) /\ k.next <= Len(k.list) + 1
  BY DEF R!InOrder
<1> QED BY <1>1, <1>4, <1>5, <1>6, <1>7, <1>8 DEF R!InOrder

(* A rule that is being counted is still the last executed.                *)
LEMMA CountsInOrder ==
  ASSUME NEW e \in R!Evaluations, NEW k \in R!Evaluations, NEW at, R!InOrder(e, at),
         e.step = "load", k.step = "save", k.next = e.next, k.list = e.list,
         k.table = e.table, k.message = e.message, k.executed = e.executed
  PROVE  R!InOrder(k, at)
<1>1. R!Passed(k) = R!Passed(e)
  BY DEF R!Passed
<1> QED BY <1>1 DEF R!InOrder

(* After the count the evaluation has passed the rule, or is at its end.   *)
LEMMA GoesOnInOrder ==
  ASSUME NEW e \in R!Evaluations, NEW k \in R!Evaluations, NEW at, R!InOrder(e, at),
         e.step \in {"load", "save"}, k.list = e.list,
         k.table = e.table, k.message = e.message, k.executed = e.executed,
         IF e.table[e.list[e.next]].stop THEN k.step = "end" /\ k.next = e.next
         ELSE k.step = "scan" /\ k.next = e.next + 1
  PROVE  R!InOrder(k, at)
<1>1. Len(e.list) \in Nat /\ DOMAIN e.list = 1 .. Len(e.list) /\ e.next \in Nat \ {0}
      /\ Len(e.executed) \in Nat /\ DOMAIN e.executed = 1 .. Len(e.executed)
  BY DEF R!Evaluations
<1>2. R!Passed(k) = R!Passed(e)
  BY <1>1 DEF R!Passed
<1>3. CASE e.table[e.list[e.next]].stop
  BY <1>1, <1>2, <1>3 DEF R!InOrder
<1>4. CASE ~e.table[e.list[e.next]].stop
  <2>1. e.next <= Len(e.list) /\ k.next <= Len(k.list) + 1
    BY <1>1, <1>4 DEF R!InOrder
  <2>2. e.executed # <<>> /\ R!Last(e.executed) = e.list[e.next]
    BY <2>1 DEF R!InOrder
  <2>3. e.executed[Len(e.executed)] = e.list[e.next]
    BY <2>2 DEF R!Last
  <2>4. \A i \in DOMAIN e.executed : ~e.table[e.executed[i]].stop
    BY <1>4, <2>3 DEF R!InOrder
  <2> QED BY <1>1, <1>2, <1>4, <2>1, <2>4 DEF R!InOrder
<1> QED BY <1>3, <1>4

(* An evaluation that has passed all rules ends.                           *)
LEMMA LeavesInOrder ==
  ASSUME NEW e \in R!Evaluations, NEW k \in R!Evaluations, NEW at, R!InOrder(e, at),
         e.step = "scan", ~(e.next <= Len(e.list)), k.step = "end", k.next = e.next,
         k.list = e.list, k.table = e.table, k.message = e.message, k.executed = e.executed
  PROVE  R!InOrder(k, at)
<1>1. Len(e.list) \in Nat /\ DOMAIN e.list = 1 .. Len(e.list) /\ e.next \in Nat \ {0}
  BY DEF R!Evaluations
<1>2. R!Passed(k) = R!Passed(e)
  BY <1>1 DEF R!Passed
<1> QED BY <1>1, <1>2 DEF R!InOrder

(***************************************************************************)
(* What an evaluation has done at its end.                                 *)
(***************************************************************************)

(* The hours from one to another, by comparison and around the clock.      *)
LEMMA HoursAround ==
  ASSUME NEW from \in 0 .. 23, NEW to \in 0 .. 23, NEW at \in 0 .. 23
  PROVE  at \in R!Around(from, to) <=>
           IF from <= to THEN ~(at < from \/ at > to) ELSE ~(at < from /\ at > to)
<1> DEFINE reach == (to - from) % 24
           way   == IF from <= at THEN at - from ELSE at - from + 24
<1>1. reach = IF from <= to THEN to - from ELSE to - from + 24
  BY SMT
<1>2. \A k \in 0 .. 23 : (from + k) % 24 = at <=> k = way
  BY SMT
<1>3. reach \in 0 .. 23 /\ way \in 0 .. 23
  BY <1>1, SMT
<1>4. way <= reach <=> IF from <= to THEN ~(at < from \/ at > to) ELSE ~(at < from /\ at > to)
  BY <1>1, SMT
<1>5. at \in R!Around(from, to) <=> \E k \in 0 .. reach : (from + k) % 24 = at
  BY Zenon DEF R!Around
<1> HIDE DEF reach, way
<1>6. (\E k \in 0 .. reach : (from + k) % 24 = at) <=> way <= reach
  <2>1. ASSUME NEW k \in 0 .. reach, (from + k) % 24 = at PROVE way <= reach
    <3>1. k \in 0 .. 23 /\ k <= reach
      BY <1>3
    <3> QED BY <1>2, <2>1, <3>1, Zenon
  <2>2. ASSUME way <= reach PROVE \E k \in 0 .. reach : (from + k) % 24 = at
    <3>1. way \in 0 .. reach
      BY <1>3, <2>2
    <3> QED BY <1>2, <1>3, <3>1, Zenon
  <2> QED BY <2>1, <2>2
<1> QED BY <1>4, <1>5, <1>6, Zenon

(* The code's way to look at a rule is what the documents say it asks for. *)
LEMMA MatchingIsWanted ==
  ASSUME NEW rule \in R!Rows, NEW message \in Messages, hour \in 0 .. 23
  PROVE  R!MatchesRule(rule, message, hour) <=> R!Wants(rule, message)
<1>1. R!InWindow(rule.hourFrom, rule.hourTo, hour) <=>
        rule.hourFrom = -1 \/ rule.hourTo = -1 \/ hour \in R!Around(rule.hourFrom, rule.hourTo)
  <2>1. rule.hourFrom \in -1 .. 23 /\ rule.hourTo \in -1 .. 23
    BY DEF R!Rows
  <2>2. CASE rule.hourFrom = -1 \/ rule.hourTo = -1
    BY <2>1, <2>2 DEF R!InWindow
  <2>3. CASE rule.hourFrom # -1 /\ rule.hourTo # -1
    <3>1. rule.hourFrom \in 0 .. 23 /\ rule.hourTo \in 0 .. 23
      BY <2>1, <2>3
    <3>2. rule.hourFrom >= 0 /\ rule.hourTo >= 0
      BY <3>1
    <3>3. R!InWindow(rule.hourFrom, rule.hourTo, hour) <=>
            IF rule.hourFrom <= rule.hourTo THEN ~(hour < rule.hourFrom \/ hour > rule.hourTo)
            ELSE ~(hour < rule.hourFrom /\ hour > rule.hourTo)
      BY <3>2, Zenon DEF R!InWindow
    <3> QED BY <2>3, <3>1, <3>3, HoursAround, Zenon
  <2> QED BY <2>2, <2>3
<1>2. R!FromMatches(rule.from, message.me) <=>
        rule.from = "all" \/ rule.from \in IF message.me THEN {"me"} ELSE {"others", ""}
  <2>1. rule.from \in {"all", "others", "me", ""}
    BY DEF R!Rows
  <2>2. message.me \in BOOLEAN
    BY RulesAssumption DEF RulesAssumption
  <2> QED BY <2>1, <2>2 DEF R!FromMatches
<1> HIDE DEF R!Rows
<1>3. /\ rule.chat \in {"", message.chat} <=> (rule.chat # "" => rule.chat = message.chat)
      /\ rule.sender \in {"", message.sender} <=> (rule.sender # "" => rule.sender = message.sender)
      /\ rule.text \in {""} \cup message.matched <=> (rule.text # "" => rule.text \in message.matched)
  BY Zenon
<1> QED BY <1>1, <1>2, <1>3, Zenon DEF R!MatchesRule, R!Wants

LEMMA EndsInOrder == R!TypeOK /\ R!ScanInv => R!RulesInOrder
<1> SUFFICES ASSUME R!TypeOK, R!ScanInv, NEW g \in Evaluators, eval[g].step = "end"
             PROVE  LET e == eval[g]
                        wanted == {r \in Rules : e.table[r] # R!Gone /\ e.table[r].enabled
                                                 /\ R!Wants(e.table[r], e.message)}
                    IN /\ R!ToSet(e.executed) \subseteq wanted /\ R!IsInjective(e.executed)
                       /\ \A i, j \in DOMAIN e.executed : i < j =>
                            /\ e.table[e.executed[i]].priority <= e.table[e.executed[j]].priority
                            /\ ~e.table[e.executed[i]].stop
                       /\ \A r \in wanted \ R!ToSet(e.executed) :
                            /\ e.executed # <<>> /\ e.table[R!Last(e.executed)].stop
                            /\ e.table[R!Last(e.executed)].priority <= e.table[r].priority
  BY Zenon DEF R!RulesInOrder
<1> DEFINE e == eval[g]
           wanted == {r \in Rules : e.table[r] # R!Gone /\ e.table[r].enabled
                                    /\ R!Wants(e.table[r], e.message)}
<1>1. e \in R!Evaluations /\ R!InOrder(e, hour) /\ e.step = "end" /\ hour \in 0 .. 23
  <2>1. R!Idle.step # "end"
    BY DEF R!Idle
  <2> QED BY <2>1, RulesAssumption DEF R!TypeOK, R!ScanInv, RulesAssumption
<1> HIDE DEF e
<1>2. /\ e.table \in R!Tables /\ e.message \in Messages /\ e.list \in R!Ordered(e.table)
      /\ Len(e.list) \in Nat /\ DOMAIN e.list = 1 .. Len(e.list) /\ e.next \in Nat \ {0}
      /\ Len(e.executed) \in Nat /\ DOMAIN e.executed = 1 .. Len(e.executed)
      /\ e.executed \in Seq(Rules)
  BY <1>1 DEF R!Evaluations, R!InOrder
<1>3. /\ e.list \in Seq(Rules)
      /\ \A p \in DOMAIN e.list : e.table[e.list[p]] # R!Gone /\ e.table[e.list[p]].enabled
      /\ \A r \in Rules : e.table[r] # R!Gone /\ e.table[r].enabled =>
           \E p \in DOMAIN e.list : e.list[p] = r
      /\ \A p, q \in DOMAIN e.list : e.list[p] = e.list[q] => p = q
      /\ \A p, q \in DOMAIN e.list : p < q =>
           e.table[e.list[p]].priority <= e.table[e.list[q]].priority
  BY <1>2, OrderedRules
<1>4. \A r \in Rules : e.table[r] # R!Gone =>
        (R!MatchesRule(e.table[r], e.message, hour) <=> R!Wants(e.table[r], e.message))
  <2> SUFFICES ASSUME NEW r \in Rules, e.table[r] # R!Gone
               PROVE  R!MatchesRule(e.table[r], e.message, hour) <=> R!Wants(e.table[r], e.message)
    OBVIOUS
  <2>1. e.table[r] \in R!Rows
    BY <1>2 DEF R!Tables
  <2> QED BY <1>1, <1>2, <2>1, MatchingIsWanted
<1>5. \A i \in DOMAIN e.executed : \E p \in R!Passed(e) :
        e.list[p] = e.executed[i] /\ R!MatchesRule(e.table[e.list[p]], e.message, hour)
  BY <1>1, Zenon DEF R!InOrder
<1>6. \A p \in R!Passed(e) : p \in DOMAIN e.list /\ e.list[p] \in Rules
  BY <1>2, <1>3 DEF R!Passed
<1>7. R!ToSet(e.executed) \subseteq wanted
  <2> SUFFICES ASSUME NEW i \in DOMAIN e.executed PROVE e.executed[i] \in wanted
    BY DEF R!ToSet
  <2>1. PICK p \in R!Passed(e) :
          e.list[p] = e.executed[i] /\ R!MatchesRule(e.table[e.list[p]], e.message, hour)
    BY <1>5
  <2> QED BY <1>3, <1>4, <1>6, <2>1
<1>8. \A i, j \in DOMAIN e.executed : i < j =>
        /\ e.executed[i] # e.executed[j]
        /\ e.table[e.executed[i]].priority <= e.table[e.executed[j]].priority
        /\ ~e.table[e.executed[i]].stop
  <2> SUFFICES ASSUME NEW i \in DOMAIN e.executed, NEW j \in DOMAIN e.executed, i < j
               PROVE  /\ e.executed[i] # e.executed[j]
                      /\ e.table[e.executed[i]].priority <= e.table[e.executed[j]].priority
                      /\ ~e.table[e.executed[i]].stop
    OBVIOUS
  <2>1. PICK p \in DOMAIN e.list : e.list[p] = e.executed[i]
    BY <1>5, <1>6
  <2>2. PICK q \in DOMAIN e.list : e.list[q] = e.executed[j]
    BY <1>5, <1>6
  <2>3. p < q
    BY <1>1, <2>1, <2>2, Zenon DEF R!InOrder
  <2>4. i # Len(e.executed)
    BY <1>2
  <2>5. ~e.table[e.executed[i]].stop
    BY <1>1, <2>4, Zenon DEF R!InOrder
  <2>6. p # q
    BY <1>2, <2>3
  <2> QED BY <1>3, <2>1, <2>2, <2>3, <2>5, <2>6, Zenon
<1>9. \A r \in wanted \ R!ToSet(e.executed) :
        /\ e.executed # <<>> /\ e.table[R!Last(e.executed)].stop
        /\ e.table[R!Last(e.executed)].priority <= e.table[r].priority
  <2> SUFFICES ASSUME NEW r \in wanted, r \notin R!ToSet(e.executed)
               PROVE  /\ e.executed # <<>> /\ e.table[R!Last(e.executed)].stop
                      /\ e.table[R!Last(e.executed)].priority <= e.table[r].priority
    OBVIOUS
  <2>1. PICK p \in DOMAIN e.list : e.list[p] = r
    BY <1>3
  <2>2. R!MatchesRule(e.table[e.list[p]], e.message, hour)
    BY <1>4, <2>1
  <2>3. p \notin R!Passed(e)
    <3>1. \A i \in DOMAIN e.executed : e.executed[i] # e.list[p]
      BY <2>1 DEF R!ToSet
    <3> QED BY <1>1, <2>2, <3>1, Zenon DEF R!InOrder
  <2>4. e.next < p /\ e.next \in DOMAIN e.list
    BY <1>1, <1>2, <2>3 DEF R!Passed
  <2>5. e.next <= Len(e.list)
    BY <1>2, <2>4
  <2>6. /\ e.executed # <<>> /\ R!Last(e.executed) = e.list[e.next]
        /\ e.table[e.list[e.next]].stop
    BY <1>1, <2>5 DEF R!InOrder
  <2> QED BY <1>3, <2>1, <2>4, <2>6
<1>10. R!IsInjective(e.executed)
  BY <1>2, <1>8 DEF R!IsInjective
<1> HIDE DEF wanted
<1> QED BY <1>7, <1>8, <1>9, <1>10 DEF e, wanted

(***************************************************************************)
(* Counting.                                                               *)
(***************************************************************************)

(* An evaluation has executed a rule and not counted it yet; it has loaded *)
(* the rule to count it.                                                   *)
Owes(e, r)  == e.step \in {"load", "save"} /\ e.list[e.next] = r
Saves(e, r) == e # R!Idle /\ e.step = "save" /\ e.list[e.next] = r

LEMMA DueSets ==
  ASSUME NEW r, eval \in [Evaluators -> {R!Idle} \cup R!Evaluations]
  PROVE  /\ R!Due(r) = {g \in Evaluators : Owes(eval[g], r)}
         /\ R!Counting(r) = {g \in Evaluators : Saves(eval[g], r)}
         /\ R!Counting(r) \subseteq R!Due(r) /\ R!Due(r) \subseteq Evaluators
         /\ IsFiniteSet(R!Due(r)) /\ Cardinality(R!Due(r)) \in Nat
         /\ R!Cardinality(R!Due(r)) = Cardinality(R!Due(r))
<1>1. R!Due(r) = {g \in Evaluators : Owes(eval[g], r)}
  BY Zenon DEF R!Due, R!Current, Owes
<1>2. R!Counting(r) = {g \in Evaluators : Saves(eval[g], r)}
  BY Zenon DEF R!Counting, R!Current, Saves
<1>3. R!Counting(r) \subseteq R!Due(r) /\ R!Due(r) \subseteq Evaluators
  BY <1>1, <1>2 DEF Owes, Saves
<1>4. IsFiniteSet(R!Due(r)) /\ Cardinality(R!Due(r)) \in Nat
  BY <1>3, RulesAssumption, FS_Subset, FS_CardinalityType DEF RulesAssumption
<1> QED BY <1>1, <1>2, <1>3, <1>4, SameCardinality

(* The part of the invariant that is about one rule: how many have still   *)
(* to count it, and which of them have loaded it.                          *)
CountOK(row, n, due, savers, loaded, sure) ==
  /\ Cardinality(due) <= n
  /\ row # R!Gone => row.count + Cardinality(due) <= n
  /\ \A g \in savers :
       /\ loaded[g] + Cardinality(due) <= n
       /\ sure => savers = {g} /\ (row # R!Gone => loaded[g] = row.count)
  /\ row # R!Gone /\ sure => row.count + Cardinality(due) = n

Loaded(r) == [g \in R!Counting(r) |-> eval[g].loaded]

RuleOK(r) == CountOK(rules[r], ran[r], R!Due(r), R!Counting(r), Loaded(r), r \notin uncertain)

LEMMA RuleByRule == R!TypeOK => (R!CountInv <=> \A r \in Rules : RuleOK(r))
<1> SUFFICES ASSUME R!TypeOK PROVE R!CountInv <=> \A r \in Rules : RuleOK(r)
  OBVIOUS
<1>1. \A r \in Rules : R!Cardinality(R!Due(r)) = Cardinality(R!Due(r))
  BY SameCardinality
<1> QED BY <1>1, Zenon DEF R!CountInv, RuleOK, CountOK, Loaded, R!Exists

(* One evaluation moves.                                                   *)
LEMMA Moved ==
  ASSUME R!TypeOK, NEW g \in Evaluators, NEW k \in R!Evaluations,
         eval' = [eval EXCEPT ![g] = k], NEW r
  PROVE  /\ R!Due(r)' = IF Owes(k, r) THEN R!Due(r) \cup {g} ELSE R!Due(r) \ {g}
         /\ R!Counting(r)' = IF Saves(k, r) THEN R!Counting(r) \cup {g} ELSE R!Counting(r) \ {g}
         /\ \A h \in R!Counting(r) \ {g} : eval'[h].loaded = eval[h].loaded
         /\ eval'[g] = k
         /\ eval' \in [Evaluators -> {R!Idle} \cup R!Evaluations]
<1>1. eval \in [Evaluators -> {R!Idle} \cup R!Evaluations]
  BY Zenon DEF R!TypeOK
<1>2. eval'[g] = k /\ \A h \in Evaluators \ {g} : eval'[h] = eval[h]
  BY <1>1
<1>3. eval' \in [Evaluators -> {R!Idle} \cup R!Evaluations]
  BY <1>1
<1>4. R!Due(r) = {h \in Evaluators : Owes(eval[h], r)}
      /\ R!Counting(r) = {h \in Evaluators : Saves(eval[h], r)}
  BY <1>1, DueSets
<1>5. R!Due(r)' = {h \in Evaluators : Owes(eval'[h], r)}
  BY Zenon DEF R!Due, R!Current, Owes
<1>6. R!Counting(r)' = {h \in Evaluators : Saves(eval'[h], r)}
  BY Zenon DEF R!Counting, R!Current, Saves
<1>7. R!Due(r)' = IF Owes(k, r) THEN R!Due(r) \cup {g} ELSE R!Due(r) \ {g}
  BY <1>2, <1>4, <1>5
<1>8. R!Counting(r)' = IF Saves(k, r) THEN R!Counting(r) \cup {g} ELSE R!Counting(r) \ {g}
  BY <1>2, <1>4, <1>6
<1>9. \A h \in R!Counting(r) \ {g} : eval'[h].loaded = eval[h].loaded
  BY <1>2, <1>4
<1> QED BY <1>2, <1>3, <1>7, <1>8, <1>9

(* Nothing about a rule's count changes, or the rule is new.               *)
LEMMA CountStays ==
  ASSUME R!TypeOK, NEW r \in Rules, RuleOK(r),
         R!Due(r)' = R!Due(r), R!Counting(r)' = R!Counting(r),
         \A g \in R!Counting(r) : eval'[g].loaded = eval[g].loaded,
         ran'[r] = ran[r], r \notin uncertain' => r \notin uncertain,
         \/ rules'[r] = R!Gone
         \/ rules[r] # R!Gone /\ rules'[r].count = rules[r].count
         \/ ran[r] = 0 /\ rules'[r].count = 0
  PROVE  RuleOK(r)'
<1> DEFINE d == Cardinality(R!Due(r))
<1>1. /\ d \in Nat /\ IsFiniteSet(R!Due(r)) /\ R!Counting(r) \subseteq R!Due(r)
      /\ ran[r] \in Nat
  BY DueSets, SMT DEF R!TypeOK
<1>2. Cardinality(R!Due(r)') = d
  BY Zenon
<1>3. \A g \in R!Counting(r) : Loaded(r)'[g] = Loaded(r)[g]
  BY DEF Loaded
<1>4. d <= ran[r] /\ (rules[r] # R!Gone => rules[r].count + d <= ran[r])
      /\ \A g \in R!Counting(r) :
           /\ Loaded(r)[g] + d <= ran[r]
           /\ r \notin uncertain => R!Counting(r) = {g}
                /\ (rules[r] # R!Gone => Loaded(r)[g] = rules[r].count)
  BY Zenon DEF RuleOK, CountOK
<1>5. rules[r] # R!Gone /\ r \notin uncertain => rules[r].count + d = ran[r]
  BY Zenon DEF RuleOK, CountOK
<1>6. CASE rules'[r] = R!Gone
  BY <1>1, <1>2, <1>3, <1>4, <1>6 DEF RuleOK, CountOK
<1>7. CASE rules[r] # R!Gone /\ rules'[r].count = rules[r].count
  BY <1>1, <1>2, <1>3, <1>4, <1>5, <1>7 DEF RuleOK, CountOK
<1>8. CASE ran[r] = 0 /\ rules'[r].count = 0
  <2>1. d = 0
    BY <1>1, <1>4, <1>8
  <2>2. R!Due(r) = {} /\ R!Counting(r) = {}
    BY <1>1, <2>1, FS_EmptySet
  <2> QED BY <1>2, <1>8, <2>1, <2>2 DEF RuleOK, CountOK
<1> QED BY <1>6, <1>7, <1>8

(* A step of an evaluation that is about another rule.                     *)
LEMMA OtherRule ==
  ASSUME R!TypeOK, NEW g \in Evaluators, NEW k \in R!Evaluations,
         eval' = [eval EXCEPT ![g] = k], NEW r \in Rules, RuleOK(r),
         ~Owes(eval[g], r), ~Owes(k, r),
         ran'[r] = ran[r], r \notin uncertain' => r \notin uncertain, rules'[r] = rules[r]
  PROVE  RuleOK(r)'
<1>1. eval \in [Evaluators -> {R!Idle} \cup R!Evaluations]
  BY Zenon DEF R!TypeOK
<1>2. ~Saves(k, r) /\ g \notin R!Due(r) /\ g \notin R!Counting(r)
  BY <1>1, DueSets DEF Owes, Saves
<1>3. /\ R!Due(r)' = R!Due(r) \ {g} /\ R!Counting(r)' = R!Counting(r) \ {g}
      /\ \A h \in R!Counting(r) \ {g} : eval'[h].loaded = eval[h].loaded
  BY <1>2, Moved
<1>4. /\ R!Due(r)' = R!Due(r) /\ R!Counting(r)' = R!Counting(r)
      /\ \A h \in R!Counting(r) : eval'[h].loaded = eval[h].loaded
  BY <1>2, <1>3
<1>5. \/ rules'[r] = R!Gone
      \/ rules[r] # R!Gone /\ rules'[r].count = rules[r].count
  OBVIOUS
<1> QED BY <1>4, <1>5, CountStays, Zenon

(* An evaluation that has counted its rule, or given up to.                *)
LEMMA Counted ==
  ASSUME R!TypeOK, NEW g \in Evaluators, NEW k \in R!Evaluations,
         eval' = [eval EXCEPT ![g] = k], NEW r \in Rules, RuleOK(r),
         g \in R!Due(r), k.step \in {"scan", "end"}, ran'[r] = ran[r],
         \/ r \in uncertain' /\ rules'[r] = rules[r]
         \/ /\ g \in R!Counting(r) /\ (r \notin uncertain' => r \notin uncertain)
            /\ rules'[r] = R!Gone \/ rules'[r].count = eval[g].loaded + 1
            /\ rules[r] = R!Gone => rules'[r] = R!Gone
  PROVE  RuleOK(r)'
<1> DEFINE d == Cardinality(R!Due(r))
<1>1. /\ d \in Nat /\ IsFiniteSet(R!Due(r)) /\ R!Counting(r) \subseteq R!Due(r)
      /\ ran[r] \in Nat
      /\ eval \in [Evaluators -> {R!Idle} \cup R!Evaluations] /\ rules \in R!Tables
  BY DueSets, SMT DEF R!TypeOK
<1>2. ~Owes(k, r) /\ ~Saves(k, r)
  BY DEF Owes, Saves
<1>3. /\ R!Due(r)' = R!Due(r) \ {g} /\ R!Counting(r)' = R!Counting(r) \ {g}
      /\ \A h \in R!Counting(r) \ {g} : eval'[h].loaded = eval[h].loaded
  BY <1>2, Moved
<1>4. Cardinality(R!Due(r)') = d - 1
  BY <1>1, <1>3, FS_RemoveElement
<1>5. \A h \in R!Counting(r)' : Loaded(r)'[h] = Loaded(r)[h]
  BY <1>3 DEF Loaded
<1>6. d <= ran[r] /\ (rules[r] # R!Gone => rules[r].count + d <= ran[r])
      /\ \A h \in R!Counting(r) :
           /\ Loaded(r)[h] + d <= ran[r]
           /\ r \notin uncertain => R!Counting(r) = {h}
                /\ (rules[r] # R!Gone => Loaded(r)[h] = rules[r].count)
  BY Zenon DEF RuleOK, CountOK
<1>7. rules[r] # R!Gone /\ r \notin uncertain => rules[r].count + d = ran[r]
  BY Zenon DEF RuleOK, CountOK
<1>8. \A h \in R!Counting(r) : Loaded(r)[h] = eval[h].loaded /\ Loaded(r)[h] \in Nat
  <2>1. \A h \in R!Counting(r) : eval[h] \in R!Evaluations
    BY <1>1, DueSets DEF Saves
  <2> QED BY <2>1 DEF Loaded, R!Evaluations
<1>9. rules[r] # R!Gone => rules[r].count \in Nat
  BY <1>1 DEF R!Tables, R!Rows
<1> HIDE DEF d
<1>10. CASE r \in uncertain' /\ rules'[r] = rules[r]
  <2>1. d - 1 <= ran[r] /\ (rules'[r] # R!Gone => rules'[r].count + (d - 1) <= ran[r])
    BY <1>1, <1>6, <1>9, <1>10
  <2>2. \A h \in R!Counting(r)' : Loaded(r)'[h] + (d - 1) <= ran[r]
    BY <1>1, <1>3, <1>5, <1>6, <1>8
  <2> QED BY <1>4, <1>10, <2>1, <2>2, Zenon DEF RuleOK, CountOK
<1>11. CASE /\ g \in R!Counting(r) /\ (r \notin uncertain' => r \notin uncertain)
            /\ rules'[r] = R!Gone \/ rules'[r].count = eval[g].loaded + 1
            /\ rules[r] = R!Gone => rules'[r] = R!Gone
  <2>1. r \notin uncertain' => R!Counting(r)' = {}
    BY <1>3, <1>6, <1>11
  <2>2. Loaded(r)[g] = eval[g].loaded /\ eval[g].loaded \in Nat /\ eval[g].loaded + d <= ran[r]
    BY <1>6, <1>8, <1>11
  <2>3. rules'[r] # R!Gone => rules'[r].count = eval[g].loaded + 1
    BY <1>11
  <2>4. rules'[r] # R!Gone => rules'[r].count + (d - 1) <= ran[r]
    BY <1>1, <2>2, <2>3
  <2>5. rules'[r] # R!Gone /\ r \notin uncertain' => rules'[r].count + (d - 1) = ran[r]
    BY <1>1, <1>6, <1>7, <1>9, <1>11, <2>2, <2>3
  <2>6. \A h \in R!Counting(r)' : Loaded(r)'[h] + (d - 1) <= ran[r]
    BY <1>1, <1>3, <1>5, <1>6, <1>8
  <2>7. d - 1 <= ran[r]
    BY <1>1, <1>6
  <2> QED BY <1>4, <2>1, <2>4, <2>5, <2>6, <2>7, Zenon DEF RuleOK, CountOK
<1> QED BY <1>10, <1>11

(* An evaluation executes a rule: one more is due.                         *)
LEMMA Executed ==
  ASSUME R!TypeOK, NEW g \in Evaluators, NEW k \in R!Evaluations,
         eval' = [eval EXCEPT ![g] = k], NEW r \in Rules, RuleOK(r),
         ~Owes(eval[g], r), Owes(k, r), ~Saves(k, r),
         ran'[r] = ran[r] + 1, uncertain' = uncertain, rules' = rules
  PROVE  RuleOK(r)'
<1> DEFINE d == Cardinality(R!Due(r))
<1>1. /\ d \in Nat /\ IsFiniteSet(R!Due(r)) /\ g \notin R!Due(r) /\ g \notin R!Counting(r)
      /\ ran[r] \in Nat /\ rules \in R!Tables
      /\ eval \in [Evaluators -> {R!Idle} \cup R!Evaluations]
  BY DueSets, SMT DEF R!TypeOK
<1>2. /\ R!Due(r)' = R!Due(r) \cup {g} /\ R!Counting(r)' = R!Counting(r)
      /\ \A h \in R!Counting(r) : eval'[h].loaded = eval[h].loaded
  <2>1. /\ R!Due(r)' = R!Due(r) \cup {g} /\ R!Counting(r)' = R!Counting(r) \ {g}
        /\ \A h \in R!Counting(r) \ {g} : eval'[h].loaded = eval[h].loaded
    BY Moved
  <2>2. R!Counting(r) \ {g} = R!Counting(r)
    BY <1>1
  <2> QED BY <2>1, <2>2
<1>3. Cardinality(R!Due(r)') = d + 1
  BY <1>1, <1>2, FS_AddElement
<1>4. \A h \in R!Counting(r) : Loaded(r)'[h] = Loaded(r)[h]
  BY <1>2 DEF Loaded
<1>5. \A h \in R!Counting(r) : Loaded(r)[h] \in Nat
  <2>1. \A h \in R!Counting(r) : eval[h] \in R!Evaluations
    BY <1>1, DueSets DEF Saves
  <2> QED BY <2>1 DEF Loaded, R!Evaluations
<1>6. rules[r] # R!Gone => rules[r].count \in Nat
  BY <1>1 DEF R!Tables, R!Rows
<1>7. d <= ran[r] /\ (rules[r] # R!Gone => rules[r].count + d <= ran[r])
      /\ \A h \in R!Counting(r) :
           /\ Loaded(r)[h] + d <= ran[r]
           /\ r \notin uncertain => R!Counting(r) = {h}
                /\ (rules[r] # R!Gone => Loaded(r)[h] = rules[r].count)
  BY Zenon DEF RuleOK, CountOK
<1>8. rules[r] # R!Gone /\ r \notin uncertain => rules[r].count + d = ran[r]
  BY Zenon DEF RuleOK, CountOK
<1> HIDE DEF d
<1>9. /\ d + 1 <= ran[r] + 1 /\ (rules[r] # R!Gone => rules[r].count + (d + 1) <= ran[r] + 1)
      /\ \A h \in R!Counting(r) : Loaded(r)[h] + (d + 1) <= ran[r] + 1
      /\ rules[r] # R!Gone /\ r \notin uncertain => rules[r].count + (d + 1) = ran[r] + 1
  BY <1>1, <1>5, <1>6, <1>7, <1>8
<1>10. /\ rules'[r] = rules[r] /\ ran'[r] = ran[r] + 1
       /\ Cardinality(R!Due(r)') = d + 1 /\ R!Counting(r)' = R!Counting(r)
       /\ \A h \in R!Counting(r) : Loaded(r)'[h] = Loaded(r)[h]
       /\ r \notin uncertain' => r \notin uncertain
  BY <1>2, <1>3, <1>4
<1> QED BY <1>7, <1>9, <1>10 DEF RuleOK, CountOK

(* It loads the rule to count it.                                          *)
LEMMA LoadedToCount ==
  ASSUME R!TypeOK, NEW g \in Evaluators, NEW k \in R!Evaluations,
         eval' = [eval EXCEPT ![g] = k], NEW r \in Rules, RuleOK(r),
         Owes(eval[g], r), ~Saves(eval[g], r), Owes(k, r), Saves(k, r),
         rules[r] # R!Gone, k.loaded = rules[r].count,
         ran' = ran, rules' = rules,
         r \notin uncertain' => r \notin uncertain /\ R!Counting(r) = {}
  PROVE  RuleOK(r)'
<1> DEFINE d == Cardinality(R!Due(r))
<1>1. /\ g \in R!Due(r) /\ g \notin R!Counting(r)
      /\ eval \in [Evaluators -> {R!Idle} \cup R!Evaluations]
  BY DueSets, SMT DEF R!TypeOK
<1>2. /\ R!Due(r)' = R!Due(r) \cup {g} /\ R!Counting(r)' = R!Counting(r) \cup {g}
      /\ \A h \in R!Counting(r) \ {g} : eval'[h].loaded = eval[h].loaded
      /\ eval'[g] = k
  BY Moved
<1>3. R!Due(r)' = R!Due(r)
  BY <1>1, <1>2
<1>4. /\ \A h \in R!Counting(r) : Loaded(r)'[h] = Loaded(r)[h]
      /\ Loaded(r)'[g] = rules[r].count
  BY <1>1, <1>2 DEF Loaded
<1>5. d <= ran[r] /\ rules[r].count + d <= ran[r]
      /\ (\A h \in R!Counting(r) : Loaded(r)[h] + d <= ran[r])
      /\ (r \notin uncertain => rules[r].count + d = ran[r])
  BY Zenon DEF RuleOK, CountOK
<1>6. Cardinality(R!Due(r)') = d
  BY <1>3, Zenon
<1> HIDE DEF d
<1>7. \A h \in R!Counting(r)' : Loaded(r)'[h] + d <= ran[r]
  BY <1>2, <1>4, <1>5
<1>8. r \notin uncertain' => R!Counting(r)' = {g} /\ Loaded(r)'[g] = rules'[r].count
  BY <1>2, <1>4
<1>9. r \notin uncertain' => rules'[r].count + d = ran[r]
  BY <1>5
<1>10. d <= ran[r] /\ rules'[r].count + d <= ran[r]
  BY <1>5
<1>11. \A h \in R!Counting(r)' : r \notin uncertain' => R!Counting(r)' = {h} /\ Loaded(r)'[h] = rules'[r].count
  BY <1>8
<1> QED BY <1>6, <1>7, <1>9, <1>10, <1>11, Zenon DEF RuleOK, CountOK


(***************************************************************************)
(* Each step keeps the invariant.                                          *)
(***************************************************************************)

LEMMA RuleByRuleNext == R!TypeOK' => (R!CountInv' <=> \A r \in Rules : RuleOK(r)')
<1>1. (R!TypeOK => (R!CountInv <=> \A r \in Rules : RuleOK(r)))'
  BY RuleByRule, PTL
<1> QED BY <1>1

(* What the invariant says of one evaluation and one rule.                 *)
LEMMA Knowing ==
  ASSUME RulesInv
  PROVE  /\ R!TypeOK /\ rules \in R!Tables /\ ran \in [Rules -> Nat] /\ uncertain \subseteq Rules
         /\ hour \in Hours /\ shuttingDown \in BOOLEAN /\ ruleEdits \in 0 .. MaxRuleEdits
         /\ eval \in [Evaluators -> {R!Idle} \cup R!Evaluations]
         /\ \A r \in Rules : RuleOK(r)
         /\ \A g \in Evaluators : eval[g] # R!Idle =>
              eval[g] \in R!Evaluations /\ R!InOrder(eval[g], hour)
<1>1. R!TypeOK /\ R!ScanInv /\ R!CountInv
  BY DEF RulesInv
<1>2. \A r \in Rules : RuleOK(r)
  BY <1>1, RuleByRule
<1>3. eval \in [Evaluators -> {R!Idle} \cup R!Evaluations]
  BY <1>1, Zenon DEF R!TypeOK
<1> QED BY <1>1, <1>2, <1>3, Zenon DEF R!TypeOK, R!ScanInv

(* An evaluation becomes k.                                                *)
LEMMA EvaluationMoves ==
  ASSUME RulesInv, NEW g \in Evaluators, NEW k \in R!Evaluations, R!InOrder(k, hour),
         eval' = [eval EXCEPT ![g] = k], hour' = hour,
         rules' \in R!Tables, ran' \in [Rules -> Nat], uncertain' \subseteq Rules,
         shuttingDown' = shuttingDown, ruleEdits' = ruleEdits,
         \A r \in Rules : RuleOK(r)'
  PROVE  RulesInv'
<1>1. R!TypeOK'
  <2>1. eval' \in [Evaluators -> {R!Idle} \cup R!Evaluations]
    BY Knowing
  <2> QED BY <2>1, Knowing, Zenon DEF R!TypeOK
<1>2. R!ScanInv'
  <2>1. \A h \in Evaluators : eval'[h] = IF h = g THEN k ELSE eval[h]
    BY Knowing
  <2>2. \A h \in Evaluators : eval'[h] # R!Idle => R!InOrder(eval'[h], hour)
    BY <2>1, Knowing, Zenon
  <2> QED BY <2>2, Zenon DEF R!ScanInv
<1> QED BY <1>1, <1>2, RuleByRuleNext, Zenon DEF RulesInv

(* An evaluation with a current rule.                                      *)
LEMMA AtRule ==
  ASSUME NEW e \in R!Evaluations, R!InOrder(e, hour),
         e.step \in {"load", "save"} \/ (e.step = "scan" /\ e.next <= Len(e.list))
  PROVE  /\ e.list[e.next] \in Rules /\ e.next \in Nat \ {0} /\ e.table \in R!Tables
         /\ e.next + 1 \in Nat \ {0} /\ e # R!Idle
<1>1. e.next <= Len(e.list) /\ e.next \in Nat \ {0} /\ e.table \in R!Tables
  BY DEF R!Evaluations, R!InOrder
<1>2. e.list \in Seq(Rules)
  BY DEF R!Evaluations
<1>3. e # R!Idle
  <2>1. R!Idle.step = "idle"
    BY DEF R!Idle
  <2> QED BY <2>1
<1> QED BY <1>1, <1>2, <1>3

LEMMA BeginStep ==
  ASSUME RulesInv, NEW g \in Evaluators, R!Begin(g)
  PROVE  RulesInv'
<1>1. PICK message \in Messages :
        /\ \E order \in R!Ordered(rules) : eval' = [eval EXCEPT ![g] =
             [step |-> "scan", message |-> message, list |-> order, next |-> 1,
              table |-> rules, executed |-> <<>>, loaded |-> 0]]
  BY Zenon DEF R!Begin
<1>2. PICK order \in R!Ordered(rules) : eval' = [eval EXCEPT ![g] =
             [step |-> "scan", message |-> message, list |-> order, next |-> 1,
              table |-> rules, executed |-> <<>>, loaded |-> 0]]
  BY <1>1
<1> DEFINE k == [step |-> "scan", message |-> message, list |-> order, next |-> 1,
                 table |-> rules, executed |-> <<>>, loaded |-> 0]
<1>3. k \in R!Evaluations
  <2>1. order \in Seq(Rules) /\ rules \in R!Tables
    BY Knowing, OrderedRules
  <2> QED BY <2>1 DEF R!Evaluations, R!Stages
<1>4. k.step = "scan" /\ k.next = 1 /\ k.executed = <<>> /\ k.list = order /\ k.table = rules
  OBVIOUS
<1>5. eval[g] = R!Idle /\ UNCHANGED <<rules, hour, shuttingDown, ran, uncertain, ruleEdits>>
  BY DEF R!Begin
<1>6. eval' = [eval EXCEPT ![g] = k]
  BY <1>2
<1> HIDE DEF k
<1>7. R!InOrder(k, hour)
  BY <1>3, <1>4, BeginsInOrder
<1>8. \A r \in Rules : RuleOK(r)'
  <2> SUFFICES ASSUME NEW r \in Rules PROVE RuleOK(r)'
    OBVIOUS
  <2>1. ~Owes(k, r)
    BY <1>4 DEF Owes
  <2>2. ~Owes(eval[g], r)
    <3>1. R!Idle.step = "idle"
      BY DEF R!Idle
    <3> QED BY <1>5, <3>1 DEF Owes
  <2> QED BY <1>3, <1>5, <1>6, <2>1, <2>2, Knowing, OtherRule
<1> QED BY <1>3, <1>5, <1>6, <1>7, <1>8, Knowing, EvaluationMoves, Zenon

LEMMA SkipStep ==
  ASSUME RulesInv, NEW g \in Evaluators, R!Skip(g)
  PROVE  RulesInv'
<1> DEFINE e == eval[g]
           k == [e EXCEPT !.next = e.next + 1]
<1>1. /\ e.step = "scan" /\ e.next <= Len(e.list)
      /\ ~R!MatchesRule(e.table[e.list[e.next]], e.message, hour)
      /\ UNCHANGED <<rules, hour, shuttingDown, ran, uncertain, ruleEdits>>
  BY DEF R!Skip, R!Ahead, R!Rule, R!Current
<1>2. eval' = [eval EXCEPT ![g] = k]
  BY DEF R!Skip
<1>3. e \in R!Evaluations /\ R!InOrder(e, hour)
  <2>1. R!Idle.step = "idle"
    BY DEF R!Idle
  <2> QED BY <1>1, <2>1, Knowing
<1> HIDE DEF e
<1>4. e.next + 1 \in Nat \ {0}
  BY <1>1, <1>3, AtRule
<1>5. /\ k \in R!Evaluations /\ k.step = e.step /\ k.next = e.next + 1 /\ k.list = e.list
      /\ k.table = e.table /\ k.message = e.message /\ k.executed = e.executed
  BY <1>3, <1>4, Nexting
<1> HIDE DEF k
<1>6. R!InOrder(k, hour)
  BY <1>1, <1>3, <1>5, SkipsInOrder
<1>7. \A r \in Rules : RuleOK(r)'
  <2> SUFFICES ASSUME NEW r \in Rules PROVE RuleOK(r)'
    OBVIOUS
  <2>1. ~Owes(k, r) /\ ~Owes(e, r)
    BY <1>1, <1>5 DEF Owes
  <2> QED BY <1>1, <1>2, <1>5, <2>1, Knowing, OtherRule DEF e
<1> QED BY <1>1, <1>2, <1>5, <1>6, <1>7, Knowing, EvaluationMoves, Zenon

LEMMA ExecuteStep ==
  ASSUME RulesInv, NEW g \in Evaluators, R!Execute(g)
  PROVE  RulesInv'
<1> DEFINE e == eval[g]
           now == e.list[e.next]
           k == Doing(e, now)
<1>1. /\ e.step = "scan" /\ e.next <= Len(e.list)
      /\ R!MatchesRule(e.table[now], e.message, hour)
      /\ UNCHANGED <<rules, hour, shuttingDown, uncertain, ruleEdits>>
  BY DEF R!Execute, R!Ahead, R!Rule, R!Current
<1>2. eval' = [eval EXCEPT ![g] = k] /\ ran' = [ran EXCEPT ![now] = ran[now] + 1]
  BY DEF R!Execute, R!Current, Doing
<1>3. e \in R!Evaluations /\ R!InOrder(e, hour)
  <2>1. R!Idle.step = "idle"
    BY DEF R!Idle
  <2> QED BY <1>1, <2>1, Knowing
<1> HIDE DEF e
<1>4. now \in Rules /\ now = e.list[e.next]
  BY <1>1, <1>3, AtRule
<1> HIDE DEF now
<1>5. /\ k \in R!Evaluations /\ k.step = "load" /\ k.next = e.next /\ k.list = e.list
      /\ k.table = e.table /\ k.message = e.message /\ k.executed = Append(e.executed, now)
  BY <1>3, <1>4, Executing
<1> HIDE DEF k
<1>6. R!InOrder(k, hour)
  BY <1>1, <1>3, <1>4, <1>5, ExecutesInOrder
<1>7. ran' \in [Rules -> Nat] /\ \A r \in Rules : ran'[r] = IF r = now THEN ran[r] + 1 ELSE ran[r]
  BY <1>2, <1>4, Knowing
<1>8. \A r \in Rules : RuleOK(r)'
  <2> SUFFICES ASSUME NEW r \in Rules PROVE RuleOK(r)'
    OBVIOUS
  <2>1. ~Owes(e, r)
    BY <1>1 DEF Owes
  <2>2. CASE r = now
    <3>1. Owes(k, r) /\ ~Saves(k, r)
      BY <1>4, <1>5, <2>2 DEF Owes, Saves
    <3>2. ran'[r] = ran[r] + 1 /\ uncertain' = uncertain /\ rules' = rules
      BY <1>1, <1>7, <2>2
    <3> QED BY <1>2, <1>5, <2>1, <3>1, <3>2, Knowing, Executed DEF e
  <2>3. CASE r # now
    <3>1. ~Owes(k, r)
      BY <1>4, <1>5, <2>3 DEF Owes
    <3>2. ran'[r] = ran[r] /\ (r \notin uncertain' => r \notin uncertain) /\ rules'[r] = rules[r]
      BY <1>1, <1>7, <2>3
    <3> QED BY <1>2, <1>5, <2>1, <3>1, <3>2, Knowing, OtherRule DEF e
  <2> QED BY <2>2, <2>3
<1> QED BY <1>1, <1>2, <1>5, <1>6, <1>7, <1>8, Knowing, EvaluationMoves, Zenon

GoneOn(e) == IF e.table[e.list[e.next]].stop THEN [e EXCEPT !.step = "end"]
             ELSE [e EXCEPT !.step = "scan", !.next = e.next + 1]

(* An evaluation goes on after a rule.                                     *)
LEMMA GoesOn ==
  ASSUME NEW e \in R!Evaluations, R!InOrder(e, hour), e.step \in {"load", "save"}
  PROVE  /\ GoneOn(e) \in R!Evaluations /\ R!InOrder(GoneOn(e), hour)
         /\ GoneOn(e).step \in {"scan", "end"}
<1> DEFINE k == GoneOn(e)
<1>1. e.next + 1 \in Nat \ {0}
  BY AtRule
<1>2. "end" \in R!Stages /\ "scan" \in R!Stages
  BY DEF R!Stages
<1>3. CASE e.table[e.list[e.next]].stop
  <2>1. /\ k \in R!Evaluations /\ k.step = "end" /\ k.next = e.next /\ k.list = e.list
        /\ k.table = e.table /\ k.message = e.message /\ k.executed = e.executed
    BY <1>2, <1>3 DEF R!Evaluations, GoneOn
  <2> HIDE DEF k
  <2>2. R!InOrder(k, hour)
    BY <1>3, <2>1, GoesOnInOrder
  <2> QED BY <2>1, <2>2 DEF k
<1>4. CASE ~e.table[e.list[e.next]].stop
  <2>1. /\ k \in R!Evaluations /\ k.step = "scan" /\ k.next = e.next + 1 /\ k.list = e.list
        /\ k.table = e.table /\ k.message = e.message /\ k.executed = e.executed
    BY <1>1, <1>2, <1>4 DEF R!Evaluations, GoneOn
  <2> HIDE DEF k
  <2>2. R!InOrder(k, hour)
    BY <1>4, <2>1, GoesOnInOrder
  <2> QED BY <2>1, <2>2 DEF k
<1> QED BY <1>3, <1>4

LEMMA CountLoadStep ==
  ASSUME RulesInv, NEW g \in Evaluators, R!CountLoad(g)
  PROVE  RulesInv'
<1> DEFINE e == eval[g]
           now == e.list[e.next]
<1>1. /\ e # R!Idle /\ e.step = "load"
      /\ UNCHANGED <<rules, hour, shuttingDown, ran, ruleEdits>>
  BY DEF R!CountLoad
<1>2. \/ /\ uncertain' = uncertain \cup {now}
         /\ eval' = [eval EXCEPT ![g] = GoneOn(e)]
      \/ /\ rules[now] # R!Gone
         /\ eval' = [eval EXCEPT ![g] = [e EXCEPT !.step = "save", !.loaded = rules[now].count]]
         /\ uncertain' = IF R!Counting(now) = {} THEN uncertain ELSE uncertain \cup {now}
  BY Zenon DEF R!CountLoad, R!GoOn, R!Rule, R!Current, R!Exists, GoneOn
<1>3. e \in R!Evaluations /\ R!InOrder(e, hour)
  BY <1>1, Knowing
<1> HIDE DEF e
<1>4. now \in Rules /\ now = e.list[e.next]
  BY <1>1, <1>3, AtRule
<1> HIDE DEF now
<1>5. \A r \in Rules : Owes(e, r) <=> r = now
  BY <1>1, <1>4 DEF Owes
<1>6. rules' = rules /\ ran' = ran /\ hour' = hour
  BY <1>1
<1>7. CASE /\ uncertain' = uncertain \cup {now}
           /\ eval' = [eval EXCEPT ![g] = GoneOn(e)]
  <2> DEFINE k == GoneOn(e)
  <2>1. k \in R!Evaluations /\ R!InOrder(k, hour) /\ k.step \in {"scan", "end"}
    BY <1>1, <1>3, GoesOn
  <2>2. eval' = [eval EXCEPT ![g] = k]
    BY <1>7
  <2> HIDE DEF k
  <2>3. \A r \in Rules : RuleOK(r)'
    <3> SUFFICES ASSUME NEW r \in Rules PROVE RuleOK(r)'
      OBVIOUS
    <3>1. CASE r = now
      <4>1. g \in R!Due(r)
        BY <1>5, <3>1, Knowing, DueSets DEF e
      <4>2. r \in uncertain' /\ rules'[r] = rules[r] /\ ran'[r] = ran[r]
        BY <1>6, <1>7, <3>1
      <4> QED BY <2>1, <2>2, <4>1, <4>2, Knowing, Counted
    <3>2. CASE r # now
      <4>1. ~Owes(e, r) /\ ~Owes(k, r)
        BY <1>5, <2>1, <3>2 DEF Owes
      <4>2. rules'[r] = rules[r] /\ ran'[r] = ran[r] /\ (r \notin uncertain' => r \notin uncertain)
        BY <1>6, <1>7
      <4> QED BY <2>1, <2>2, <4>1, <4>2, Knowing, OtherRule DEF e
    <3> QED BY <3>1, <3>2
  <2>4. uncertain' \subseteq Rules
    BY <1>4, <1>7, Knowing
  <2> QED BY <1>1, <1>6, <2>1, <2>2, <2>3, <2>4, Knowing, EvaluationMoves, Zenon
<1>8. CASE /\ rules[now] # R!Gone
           /\ eval' = [eval EXCEPT ![g] = [e EXCEPT !.step = "save", !.loaded = rules[now].count]]
           /\ uncertain' = IF R!Counting(now) = {} THEN uncertain ELSE uncertain \cup {now}
  <2> DEFINE k == [e EXCEPT !.step = "save", !.loaded = rules[now].count]
  <2>1. /\ k \in R!Evaluations /\ k.step = "save" /\ k.next = e.next /\ k.list = e.list
        /\ k.table = e.table /\ k.message = e.message /\ k.executed = e.executed
        /\ k.loaded = rules[now].count
    <3>1. rules[now].count \in Nat
      BY <1>4, <1>8, Knowing DEF R!Tables, R!Rows
    <3>2. "save" \in R!Stages
      BY DEF R!Stages
    <3> QED BY <1>3, <3>1, <3>2 DEF R!Evaluations
  <2>2. eval' = [eval EXCEPT ![g] = k]
    BY <1>8
  <2> HIDE DEF k
  <2>3. R!InOrder(k, hour)
    BY <1>1, <1>3, <2>1, CountsInOrder
  <2>4. k # R!Idle
    BY <2>1 DEF R!Idle
  <2>5. \A r \in Rules : RuleOK(r)'
    <3> SUFFICES ASSUME NEW r \in Rules PROVE RuleOK(r)'
      OBVIOUS
    <3>1. CASE r = now
      <4>1. Owes(e, r) /\ ~Saves(e, r)
        BY <1>1, <1>5, <3>1 DEF Saves
      <4>2. Owes(k, r) /\ Saves(k, r)
        BY <1>4, <2>1, <2>4, <3>1 DEF Owes, Saves
      <4>3. /\ rules[r] # R!Gone /\ k.loaded = rules[r].count
            /\ (r \notin uncertain' => r \notin uncertain /\ R!Counting(r) = {})
        BY <1>8, <2>1, <3>1
      <4> QED BY <1>6, <2>1, <2>2, <4>1, <4>2, <4>3, Knowing, LoadedToCount DEF e
    <3>2. CASE r # now
      <4>1. ~Owes(e, r) /\ ~Owes(k, r)
        BY <1>4, <1>5, <2>1, <3>2 DEF Owes
      <4>2. rules'[r] = rules[r] /\ ran'[r] = ran[r] /\ (r \notin uncertain' => r \notin uncertain)
        BY <1>6, <1>8
      <4> QED BY <2>1, <2>2, <4>1, <4>2, Knowing, OtherRule DEF e
    <3> QED BY <3>1, <3>2
  <2>6. uncertain' \subseteq Rules
    BY <1>4, <1>8, Knowing
  <2> QED BY <1>1, <1>6, <2>1, <2>2, <2>3, <2>5, <2>6, Knowing, EvaluationMoves, Zenon
<1> QED BY <1>2, <1>7, <1>8

LEMMA CountSaveStep ==
  ASSUME RulesInv, NEW g \in Evaluators, R!CountSave(g)
  PROVE  RulesInv'
<1> DEFINE e == eval[g]
           now == e.list[e.next]
           k == GoneOn(e)
<1>1. /\ e # R!Idle /\ e.step = "save" /\ eval' = [eval EXCEPT ![g] = k]
      /\ UNCHANGED <<hour, shuttingDown, ran, ruleEdits>>
  BY DEF R!CountSave, R!GoOn, R!Rule, R!Current, GoneOn
<1>2. \/ /\ rules' = IF rules[now] # R!Gone THEN [rules EXCEPT ![now].count = e.loaded + 1]
                     ELSE rules
         /\ uncertain' = uncertain
      \/ uncertain' = uncertain \cup {now} /\ rules' = rules
  BY DEF R!CountSave, R!Current, R!Exists
<1>3. e \in R!Evaluations /\ R!InOrder(e, hour)
  BY <1>1, Knowing
<1> HIDE DEF e
<1>4. now \in Rules /\ now = e.list[e.next]
  BY <1>1, <1>3, AtRule
<1> HIDE DEF now
<1>5. \A r \in Rules : Owes(e, r) <=> r = now
  BY <1>1, <1>4 DEF Owes
<1>6. k \in R!Evaluations /\ R!InOrder(k, hour) /\ k.step \in {"scan", "end"}
  BY <1>1, <1>3, GoesOn
<1>7. eval' = [eval EXCEPT ![g] = k]
  BY <1>1
<1> HIDE DEF k
<1>8. /\ rules' \in R!Tables /\ uncertain' \subseteq Rules
      /\ \A r \in Rules : r # now => rules'[r] = rules[r]
      /\ \A r \in Rules : r \notin uncertain' => r \notin uncertain
      /\ \/ now \in uncertain' /\ rules'[now] = rules[now]
         \/ /\ rules[now] # R!Gone => rules'[now].count = e.loaded + 1
            /\ rules[now] = R!Gone => rules'[now] = R!Gone
  <2>1. CASE uncertain' = uncertain \cup {now} /\ rules' = rules
    BY <1>4, <2>1, Knowing
  <2>2. CASE rules[now] = R!Gone /\ rules' = rules /\ uncertain' = uncertain
    BY <2>2, Knowing
  <2>3. CASE /\ rules[now] # R!Gone /\ uncertain' = uncertain
             /\ rules' = [rules EXCEPT ![now].count = e.loaded + 1]
    <3>1. e.loaded + 1 \in Nat
      BY <1>3 DEF R!Evaluations
    <3>2. rules[now] \in R!Rows
      BY <1>4, <2>3, Knowing DEF R!Tables
    <3> DEFINE row == [rules[now] EXCEPT !.count = e.loaded + 1]
    <3>3. row \in R!Rows /\ row.count = e.loaded + 1
      BY <3>1, <3>2 DEF R!Rows
    <3>4. rules' = [rules EXCEPT ![now] = row]
      BY <2>3
    <3> HIDE DEF row
    <3> QED BY <1>4, <2>3, <3>3, <3>4, Knowing DEF R!Tables
  <2> QED BY <1>2, <2>1, <2>2, <2>3
<1>9. \A r \in Rules : RuleOK(r)'
  <2> SUFFICES ASSUME NEW r \in Rules PROVE RuleOK(r)'
    OBVIOUS
  <2>1. CASE r = now
    <3>1. g \in R!Due(r) /\ g \in R!Counting(r)
      BY <1>1, <1>4, <1>5, <2>1, Knowing, DueSets DEF e, Saves
    <3>2. \/ r \in uncertain' /\ rules'[r] = rules[r]
          \/ /\ g \in R!Counting(r) /\ (r \notin uncertain' => r \notin uncertain)
             /\ rules'[r] = R!Gone \/ rules'[r].count = eval[g].loaded + 1
             /\ rules[r] = R!Gone => rules'[r] = R!Gone
      BY <1>8, <2>1, <3>1 DEF e
    <3>3. ran'[r] = ran[r]
      BY <1>1
    <3> QED BY <1>6, <1>7, <3>1, <3>2, <3>3, Knowing, Counted
  <2>2. CASE r # now
    <3>1. ~Owes(e, r) /\ ~Owes(k, r)
      BY <1>5, <1>6, <2>2 DEF Owes
    <3>2. rules'[r] = rules[r] /\ ran'[r] = ran[r] /\ (r \notin uncertain' => r \notin uncertain)
      BY <1>1, <1>8, <2>2
    <3> QED BY <1>6, <1>7, <3>1, <3>2, Knowing, OtherRule DEF e
  <2> QED BY <2>1, <2>2
<1>10. ran' \in [Rules -> Nat]
  BY <1>1, Knowing
<1> QED BY <1>1, <1>6, <1>7, <1>8, <1>9, <1>10, EvaluationMoves, Zenon

LEMMA LeaveStep ==
  ASSUME RulesInv, NEW g \in Evaluators, R!Leave(g)
  PROVE  RulesInv'
<1> DEFINE e == eval[g]
           k == [e EXCEPT !.step = "end"]
<1>1. /\ e # R!Idle /\ e.step = "scan" /\ ~(e.next <= Len(e.list))
      /\ UNCHANGED <<rules, hour, shuttingDown, ran, uncertain, ruleEdits>>
  BY DEF R!Leave, R!Ahead
<1>2. eval' = [eval EXCEPT ![g] = k]
  BY DEF R!Leave
<1>3. e \in R!Evaluations /\ R!InOrder(e, hour)
  BY <1>1, Knowing
<1> HIDE DEF e
<1>4. /\ k \in R!Evaluations /\ k.step = "end" /\ k.next = e.next /\ k.list = e.list
      /\ k.table = e.table /\ k.message = e.message /\ k.executed = e.executed
  BY <1>3 DEF R!Evaluations, R!Stages
<1> HIDE DEF k
<1>5. R!InOrder(k, hour)
  BY <1>1, <1>3, <1>4, LeavesInOrder
<1>6. \A r \in Rules : RuleOK(r)'
  <2> SUFFICES ASSUME NEW r \in Rules PROVE RuleOK(r)'
    OBVIOUS
  <2>1. ~Owes(k, r) /\ ~Owes(e, r)
    BY <1>1, <1>4 DEF Owes
  <2> QED BY <1>1, <1>2, <1>4, <2>1, Knowing, OtherRule DEF e
<1> QED BY <1>1, <1>2, <1>4, <1>5, <1>6, Knowing, EvaluationMoves, Zenon

(* A request changes the rules and nothing else.                           *)
LEMMA Edited ==
  ASSUME RulesInv, rules' \in R!Tables, R!Count \/ UNCHANGED ruleEdits,
         UNCHANGED <<eval, hour, ran, uncertain>>, shuttingDown' \in BOOLEAN,
         \A r \in Rules : \/ rules'[r] = R!Gone
                          \/ rules[r] # R!Gone /\ rules'[r].count = rules[r].count
                          \/ ran[r] = 0 /\ rules'[r].count = 0
  PROVE  RulesInv'
<1>1. ruleEdits' \in 0 .. MaxRuleEdits
  BY Knowing, RulesAssumption DEF R!Count, RulesAssumption
<1>2. R!TypeOK'
  BY <1>1, Knowing, Zenon DEF R!TypeOK
<1>3. R!ScanInv'
  BY Knowing, Zenon DEF R!ScanInv
<1>4. \A r \in Rules : RuleOK(r)'
  <2> SUFFICES ASSUME NEW r \in Rules PROVE RuleOK(r)'
    OBVIOUS
  <2>1. R!Due(r)' = R!Due(r)
    BY Zenon DEF R!Due, R!Current
  <2>2. R!Counting(r)' = R!Counting(r)
    BY Zenon DEF R!Counting, R!Current
  <2>3. /\ \A g \in R!Counting(r) : eval'[g].loaded = eval[g].loaded
        /\ ran'[r] = ran[r] /\ (r \notin uncertain' => r \notin uncertain)
        /\ \/ rules'[r] = R!Gone
           \/ rules[r] # R!Gone /\ rules'[r].count = rules[r].count
           \/ ran[r] = 0 /\ rules'[r].count = 0
    OBVIOUS
  <2> QED BY <2>1, <2>2, <2>3, Knowing, CountStays, Zenon
<1> QED BY <1>2, <1>3, <1>4, RuleByRuleNext, Zenon DEF RulesInv

(* A row takes the place of another.                                       *)
LEMMA Replacing ==
  ASSUME RulesInv, NEW r \in Rules, NEW row \in {R!Gone} \cup R!Rows,
         rules' = [rules EXCEPT ![r] = row],
         \/ row = R!Gone
         \/ rules[r] # R!Gone /\ row.count = rules[r].count
         \/ ran[r] = 0 /\ row.count = 0
  PROVE  /\ rules' \in R!Tables
         /\ \A q \in Rules : \/ rules'[q] = R!Gone
                             \/ rules[q] # R!Gone /\ rules'[q].count = rules[q].count
                             \/ ran[q] = 0 /\ rules'[q].count = 0
<1>1. rules \in [Rules -> {R!Gone} \cup R!Rows]
  BY Knowing DEF R!Tables
<1> QED BY <1>1 DEF R!Tables

LEMMA PostRuleStep ==
  ASSUME RulesInv, NEW r \in Rules, R!Post(r)
  PROVE  RulesInv'
<1>1. PICK form \in Forms : rules' = [rules EXCEPT ![r] =
        [form EXCEPT !.from = IF form.from = "" THEN "others" ELSE form.from]]
  BY DEF R!Post
<1> DEFINE row == [form EXCEPT !.from = IF form.from = "" THEN "others" ELSE form.from]
<1>2. row \in R!Rows /\ row.count = 0 /\ ran[r] = 0
  <2>1. form \in R!Rows /\ form.count = 0
    BY RulesAssumption DEF RulesAssumption
  <2>2. row \in R!Rows /\ row.count = form.count
    BY <2>1 DEF R!Rows
  <2> QED BY <2>1, <2>2 DEF R!Post
<1>3. rules' = [rules EXCEPT ![r] = row]
  BY <1>1
<1> HIDE DEF row
<1> QED BY <1>2, <1>3, Replacing, Edited, Knowing, Zenon DEF R!Post

LEMMA PatchStep ==
  ASSUME RulesInv, NEW r \in Rules, R!Patch(r)
  PROVE  RulesInv'
<1>1. PICK form \in Forms : rules' = [rules EXCEPT ![r] = [form EXCEPT !.count = rules[r].count]]
  BY DEF R!Patch
<1> DEFINE row == [form EXCEPT !.count = rules[r].count]
<1>2. rules[r] # R!Gone
  BY DEF R!Patch, R!Exists
<1>3. row \in R!Rows /\ row.count = rules[r].count
  <2>1. form \in R!Rows /\ rules[r] \in R!Rows
    BY <1>2, RulesAssumption, Knowing DEF RulesAssumption, R!Tables
  <2> QED BY <2>1 DEF R!Rows
<1>4. rules' = [rules EXCEPT ![r] = row]
  BY <1>1
<1> HIDE DEF row
<1> QED BY <1>2, <1>3, <1>4, Replacing, Edited, Knowing, Zenon DEF R!Patch

LEMMA ToggleStep ==
  ASSUME RulesInv, NEW r \in Rules, R!Toggle(r)
  PROVE  RulesInv'
<1> DEFINE row == [rules[r] EXCEPT !.enabled = ~rules[r].enabled]
<1>1. rules' = [rules EXCEPT ![r] = row]
  BY DEF R!Toggle
<1>2. rules[r] # R!Gone
  BY DEF R!Toggle, R!Exists
<1>3. row \in R!Rows /\ row.count = rules[r].count
  <2>1. rules[r] \in R!Rows
    BY <1>2, Knowing DEF R!Tables
  <2> QED BY <2>1 DEF R!Rows
<1> HIDE DEF row
<1> QED BY <1>1, <1>2, <1>3, Replacing, Edited, Knowing, Zenon DEF R!Toggle

LEMMA DeleteStep ==
  ASSUME RulesInv, NEW r \in Rules, R!Delete(r)
  PROVE  RulesInv'
<1>1. rules' = [rules EXCEPT ![r] = R!Gone]
  BY DEF R!Delete
<1> QED BY <1>1, Replacing, Edited, Knowing, Zenon DEF R!Delete

LEMMA ShutDownStep ==
  ASSUME RulesInv, R!ShutDown \/ UNCHANGED ruleVars
  PROVE  RulesInv'
<1>1. rules' = rules /\ shuttingDown' \in BOOLEAN /\ UNCHANGED ruleEdits
      /\ UNCHANGED <<eval, hour, ran, uncertain>>
  BY Knowing DEF R!ShutDown, ruleVars
<1>2. \A r \in Rules : \/ rules'[r] = R!Gone
                       \/ rules[r] # R!Gone /\ rules'[r].count = rules[r].count
  BY <1>1
<1> QED BY <1>1, <1>2, Knowing, Edited, Zenon

(***************************************************************************)
(* The invariant holds.                                                    *)
(***************************************************************************)

LEMMA InitRules == R!Init => RulesInv
<1> SUFFICES ASSUME R!Init PROVE RulesInv
  OBVIOUS
<1>1. R!TypeOK
  <2>1. eval \in [Evaluators -> {R!Idle} \cup R!Evaluations]
    BY DEF R!Init
  <2>2. rules \in R!Tables
    BY RulesAssumption DEF R!Init, R!Tables, RulesAssumption
  <2>3. ran \in [Rules -> Nat] /\ ruleEdits \in 0 .. MaxRuleEdits /\ uncertain \subseteq Rules
    BY RulesAssumption DEF R!Init, RulesAssumption
  <2> QED BY <2>1, <2>2, <2>3, Zenon DEF R!Init, R!TypeOK
<1>2. \A g \in Evaluators : eval[g] = R!Idle
  BY DEF R!Init
<1>3. R!ScanInv
  BY <1>2, Zenon DEF R!ScanInv
<1>4. \A r \in Rules : RuleOK(r)
  <2> SUFFICES ASSUME NEW r \in Rules PROVE RuleOK(r)
    OBVIOUS
  <2>1. eval \in [Evaluators -> {R!Idle} \cup R!Evaluations]
    BY <1>1, Zenon DEF R!TypeOK
  <2>2. R!Idle.step = "idle"
    BY DEF R!Idle
  <2>3. \A g \in Evaluators : ~Owes(eval[g], r) /\ ~Saves(eval[g], r)
    BY <1>2, <2>2 DEF Owes, Saves
  <2>4. R!Due(r) = {} /\ R!Counting(r) = {}
    BY <2>1, <2>3, DueSets
  <2>5. Cardinality(R!Due(r)) = 0
    BY <2>4, FS_EmptySet
  <2>6. rules[r] # R!Gone => rules[r].count = 0
    BY RulesAssumption DEF R!Init, RulesAssumption
  <2>7. ran[r] = 0
    BY DEF R!Init
  <2> QED BY <2>4, <2>5, <2>6, <2>7 DEF RuleOK, CountOK
<1> QED BY <1>1, <1>3, <1>4, RuleByRule DEF RulesInv

LEMMA NextRules == RulesInv /\ (R!Next \/ UNCHANGED ruleVars) => RulesInv'
BY BeginStep, SkipStep, ExecuteStep, CountLoadStep, CountSaveStep, LeaveStep, PostRuleStep, PatchStep,
   ToggleStep, DeleteStep, ShutDownStep, Zenon DEF R!Next, R!Evaluate

LEMMA RulesInvHolds == MessagingSpec => []RulesInv
<1>1. MessagingInit => RulesInv
  BY InitRules, Zenon DEF MessagingInit
<1>2. RulesInv /\ [MessagingNext]_allVars => RulesInv'
  <2>1. [MessagingNext]_allVars => R!Next \/ UNCHANGED ruleVars
    BY Zenon DEF MessagingNext, allVars
  <2> QED BY <2>1, NextRules, Zenon
<1> QED BY <1>1, <1>2, PTL DEF MessagingSpec

(* A message executes the rules that want it, once each, by priority, up   *)
(* to the first that stops, however many rules there are and whatever      *)
(* requests make of them meanwhile.                                        *)
THEOREM RulesAreInOrder == MessagingSpec => []RulesInOrder
<1>1. RulesInv => RulesInOrder
  BY EndsInOrder, Zenon DEF RulesInv, RulesInOrder
<1> QED BY <1>1, RulesInvHolds, PTL

(* A rule's count is how often it was executed, for any number of messages *)
(* at a time, but for the cases the code leaves open; and never more.      *)
THEOREM CountsAreExecutions == MessagingSpec => []CountsExecutions
<1>1. RulesInv => CountsExecutions
  <2> SUFFICES ASSUME RulesInv, NEW r \in Rules, rules[r] # R!Gone
               PROVE  /\ rules[r].count <= ran[r]
                      /\ r \notin uncertain => rules[r].count + R!Cardinality(R!Due(r)) = ran[r]
    BY Zenon DEF CountsExecutions, R!CountsExecutions, R!Exists
  <2>1. RuleOK(r) /\ rules[r] \in R!Rows /\ ran[r] \in Nat
    BY Knowing DEF R!Tables
  <2>2. /\ rules[r].count + Cardinality(R!Due(r)) <= ran[r]
        /\ r \notin uncertain => rules[r].count + Cardinality(R!Due(r)) = ran[r]
    BY <2>1, Zenon DEF RuleOK, CountOK
  <2>3. Cardinality(R!Due(r)) \in Nat /\ R!Cardinality(R!Due(r)) = Cardinality(R!Due(r))
    BY Knowing, DueSets
  <2>4. rules[r].count \in Nat
    BY <2>1 DEF R!Rows
  <2> QED BY <2>1, <2>2, <2>3, <2>4
<1> QED BY <1>1, RulesInvHolds, PTL

(***************************************************************************)
(* The conversation view.                                                  *)
(***************************************************************************)

(* What every state of the rows and the page satisfies.                    *)
ViewInv == V!TypeOK /\ V!PagesInv

LEMMA ViewCardinality == \A T : V!Cardinality(T) = Cardinality(T)
BY DEF V!Cardinality, Cardinality, V!IsFiniteSet, IsFiniteSet

(* A page is prepended to what is shown: O are the rows of the chat, D     *)
(* those that are displayed, "moment" is the cursor of the request.        *)
Prepends(O, D, at, moment, page, older, shown, new) ==
  /\ O \in SUBSET Nat /\ D \in SUBSET O /\ page \in SUBSET O /\ moment \in Nat
  /\ \A i \in O : at[i] \in Nat
  /\ \A i, j \in O : i < j => at[i] <= at[j]
  /\ \A i, j \in O : at[i] = at[j] => i = j
  /\ \A i \in page : at[i] < moment
  /\ \A i \in page : \A j \in O \ page : at[j] < moment => at[j] <= at[i]
  /\ older \in Seq(Nat) /\ {older[i] : i \in DOMAIN older} = page \cap D
  /\ \A i, j \in DOMAIN older : i < j => older[i] # older[j] /\ at[older[i]] <= at[older[j]]
  /\ shown \in Seq(Nat) /\ {shown[i] : i \in DOMAIN shown} = {i \in D : moment <= at[i]}
  /\ \A i, j \in DOMAIN shown : i < j => shown[i] < shown[j]
  /\ new = older \o shown

(* The whole is in order, complete when the page is the last one, and      *)
(* otherwise what was stored since the page's first row.                   *)
Whole(O, D, at, moment, page, older, new) ==
  /\ \A i, j \in DOMAIN new : i < j => new[i] < new[j]
  /\ page = {i \in O : at[i] < moment} => {new[i] : i \in DOMAIN new} = D
  /\ older # <<>> => {new[i] : i \in DOMAIN new} = {i \in D : at[older[1]] <= at[i]}

LEMMA OnePageMore ==
  ASSUME NEW O, NEW D, NEW at, NEW moment, NEW page, NEW older, NEW shown, NEW new,
         Prepends(O, D, at, moment, page, older, shown, new)
  PROVE  Whole(O, D, at, moment, page, older, new)
<1> SUFFICES
      ASSUME O \in SUBSET Nat, D \in SUBSET O, page \in SUBSET O, moment \in Nat,
             \A i \in O : at[i] \in Nat,
             \A i, j \in O : i < j => at[i] <= at[j],
             \A i, j \in O : at[i] = at[j] => i = j,
             \A i \in page : at[i] < moment,
             \A i \in page : \A j \in O \ page : at[j] < moment => at[j] <= at[i],
             older \in Seq(Nat), {older[i] : i \in DOMAIN older} = page \cap D,
             \A i, j \in DOMAIN older : i < j => older[i] # older[j] /\ at[older[i]] <= at[older[j]],
             shown \in Seq(Nat), {shown[i] : i \in DOMAIN shown} = {i \in D : moment <= at[i]},
             \A i, j \in DOMAIN shown : i < j => shown[i] < shown[j],
             new = older \o shown
      PROVE  /\ \A i, j \in DOMAIN new : i < j => new[i] < new[j]
             /\ page = {i \in O : at[i] < moment} => {new[i] : i \in DOMAIN new} = D
             /\ older # <<>> =>
                  {new[i] : i \in DOMAIN new} = {i \in D : at[older[1]] <= at[i]}
  BY DEF Prepends, Whole
<1>1. /\ \A i, j \in O : at[i] < at[j] => i < j
  <2> SUFFICES ASSUME NEW i \in O, NEW j \in O, at[i] < at[j] PROVE i < j
    OBVIOUS
  <2>1. at[i] \in Nat /\ at[j] \in Nat /\ i \in Nat /\ j \in Nat
    OBVIOUS
  <2>2. ~(j < i)
    BY <2>1
  <2>3. i # j
    BY <2>1
  <2> QED BY <2>1, <2>2, <2>3
<1>2. /\ new \in Seq(Nat) /\ Len(new) = Len(older) + Len(shown)
      /\ DOMAIN new = 1 .. Len(older) + Len(shown)
      /\ \A i \in 1 .. Len(older) : new[i] = older[i]
      /\ \A i \in 1 .. Len(shown) : new[Len(older) + i] = shown[i]
      /\ Len(older) \in Nat /\ Len(shown) \in Nat
      /\ DOMAIN older = 1 .. Len(older) /\ DOMAIN shown = 1 .. Len(shown)
  BY ConcatProperties
<1> DEFINE n == Len(older)
<1>3. \A i \in 1 .. n : older[i] \in page /\ older[i] \in D /\ older[i] \in O
  <2>1. \A i \in DOMAIN older : older[i] \in {older[k] : k \in DOMAIN older}
    OBVIOUS
  <2> QED BY <1>2, <2>1
<1>4. \A i \in 1 .. Len(shown) : shown[i] \in D /\ shown[i] \in O /\ moment <= at[shown[i]]
  <2>1. \A i \in DOMAIN shown : shown[i] \in {shown[k] : k \in DOMAIN shown}
    OBVIOUS
  <2> QED BY <1>2, <2>1
<1>5. \A i, j \in 1 .. n : i < j => older[i] < older[j]
  <2> SUFFICES ASSUME NEW i \in 1 .. n, NEW j \in 1 .. n, i < j PROVE older[i] < older[j]
    OBVIOUS
  <2>1. older[i] # older[j] /\ at[older[i]] <= at[older[j]] /\ older[i] \in O /\ older[j] \in O
    BY <1>2, <1>3
  <2>2. at[older[i]] # at[older[j]] /\ at[older[i]] \in Nat /\ at[older[j]] \in Nat
    BY <2>1
  <2>a. PICK a, b : a = at[older[i]] /\ b = at[older[j]]
    OBVIOUS
  <2>3. a < b
    BY <2>1, <2>2, <2>a, SMTT(30)
  <2> QED BY <1>1, <2>1, <2>3, <2>a
<1>6. \A i \in 1 .. n : \A j \in 1 .. Len(shown) : older[i] < shown[j]
  <2> SUFFICES ASSUME NEW i \in 1 .. n, NEW j \in 1 .. Len(shown) PROVE older[i] < shown[j]
    OBVIOUS
  <2>1. older[i] \in page /\ older[i] \in O /\ shown[j] \in O /\ moment <= at[shown[j]]
    BY <1>3, <1>4
  <2>2. at[older[i]] < moment /\ at[older[i]] \in Nat /\ at[shown[j]] \in Nat
    BY <2>1
  <2>a. PICK a, b : a = at[older[i]] /\ b = at[shown[j]]
    OBVIOUS
  <2>3. a < moment /\ moment <= b /\ a \in Nat /\ b \in Nat /\ moment \in Nat
    BY <2>1, <2>2, <2>a, Zenon
  <2>4. \A x, y, z \in Nat : x < y /\ y <= z => x < z
    OBVIOUS
  <2>5. a < b
    BY <2>3, <2>4
  <2> QED BY <1>1, <2>1, <2>5, <2>a
<1>7. \A i, j \in DOMAIN new : i < j => new[i] < new[j]
  <2> SUFFICES ASSUME NEW i \in DOMAIN new, NEW j \in DOMAIN new, i < j PROVE new[i] < new[j]
    OBVIOUS
  <2>1. CASE j <= n
    BY <1>2, <1>5, <2>1
  <2>2. CASE i <= n /\ n < j
    <3>1. PICK k \in 1 .. Len(shown) : j = n + k
      <4>1. j - n \in 1 .. Len(shown) /\ j = n + (j - n)
        BY <1>2, <2>2
      <4> QED BY <4>1
    <3> QED BY <1>2, <1>6, <2>2, <3>1
  <2>3. CASE n < i
    <3>1. PICK k \in 1 .. Len(shown), l \in 1 .. Len(shown) : i = n + k /\ j = n + l
      <4>1. j - n \in 1 .. Len(shown) /\ j = n + (j - n) /\ i - n \in 1 .. Len(shown) /\ i = n + (i - n)
        BY <1>2, <2>3
      <4> QED BY <4>1
    <3>2. k < l /\ new[i] = shown[k] /\ new[j] = shown[l]
      BY <1>2, <3>1
    <3>3. k \in DOMAIN shown /\ l \in DOMAIN shown
      BY <1>2
    <3> QED BY <3>2, <3>3
  <2> QED BY <1>2, <2>1, <2>2, <2>3
<1>8. {new[i] : i \in DOMAIN new} = (page \cap D) \cup {i \in D : moment <= at[i]}
  <2>1. \A i \in DOMAIN new : new[i] \in (page \cap D) \cup {k \in D : moment <= at[k]}
    <3> SUFFICES ASSUME NEW i \in DOMAIN new
                 PROVE  new[i] \in (page \cap D) \cup {k \in D : moment <= at[k]}
      OBVIOUS
    <3>1. CASE i <= n
      BY <1>2, <1>3, <3>1
    <3>2. CASE n < i
      <4>1. i - n \in 1 .. Len(shown) /\ i = n + (i - n)
        BY <1>2, <3>2
      <4>2. new[i] = shown[i - n]
        BY <1>2, <4>1
      <4> QED BY <1>4, <4>1, <4>2
    <3> QED BY <1>2, <3>1, <3>2
  <2>2. \A k \in page \cap D : \E i \in DOMAIN new : new[i] = k
    <3> SUFFICES ASSUME NEW k \in page \cap D PROVE \E i \in DOMAIN new : new[i] = k
      OBVIOUS
    <3>1. PICK i \in DOMAIN older : older[i] = k
      OBVIOUS
    <3>2. i \in DOMAIN new /\ new[i] = k
      BY <1>2, <3>1
    <3> QED BY <3>2
  <2>3. \A k \in D : moment <= at[k] => \E i \in DOMAIN new : new[i] = k
    <3> SUFFICES ASSUME NEW k \in D, moment <= at[k] PROVE \E i \in DOMAIN new : new[i] = k
      OBVIOUS
    <3>1. PICK i \in DOMAIN shown : shown[i] = k
      OBVIOUS
    <3>2. n + i \in DOMAIN new /\ new[n + i] = k
      BY <1>2, <3>1
    <3> QED BY <3>2
  <2>x. PICK X : X = (page \cap D) \cup {k \in D : moment <= at[k]}
    OBVIOUS
  <2>4. {new[i] : i \in DOMAIN new} \subseteq X
    BY <2>1, <2>x
  <2>5. \A x \in X : x \in page \cap D \/ (x \in D /\ moment <= at[x])
    BY <2>x
  <2>6. \A x \in X : \E i \in DOMAIN new : new[i] = x
    BY <2>2, <2>3, <2>5, Zenon
  <2>7. ASSUME NEW x \in X PROVE x \in {new[i] : i \in DOMAIN new}
    <3>1. PICK i \in DOMAIN new : new[i] = x
      BY <2>6
    <3> QED BY <3>1
  <2> QED BY <2>4, <2>7, <2>x
<1>9. ASSUME page = {i \in O : at[i] < moment} PROVE {new[i] : i \in DOMAIN new} = D
  <2>1. \A i \in D : i \in page \/ moment <= at[i]
    BY <1>9
  <2> QED BY <1>8, <2>1
<1>10. ASSUME older # <<>> PROVE {new[i] : i \in DOMAIN new} = {i \in D : at[older[1]] <= at[i]}
  <2>m. PICK m : m = older[1]
    OBVIOUS
  <2>1. m \in page /\ m \in O /\ m \in D /\ at[m] \in Nat /\ at[m] < moment
    <3>1. 1 \in 1 .. n
      BY <1>2, <1>10
    <3> QED BY <1>3, <2>m, <3>1
  <2>2. \A k \in page \cap D : at[m] <= at[k]
    <3> SUFFICES ASSUME NEW k \in page \cap D PROVE at[m] <= at[k]
      OBVIOUS
    <3>1. PICK i \in 1 .. n : older[i] = k
      BY <1>2
    <3>2. CASE i = 1
      BY <2>1, <2>m, <3>1, <3>2
    <3>3. CASE i # 1
      <4>1. 1 \in 1 .. n /\ 1 < i
        BY <1>2, <3>3
      <4> QED BY <1>2, <2>m, <3>1, <4>1
    <3> QED BY <3>2, <3>3
  <2>3. \A k \in D : moment <= at[k] => at[m] <= at[k]
    BY <2>1, SMTT(30)
  <2>4. \A k \in D : at[m] <= at[k] => k \in page \/ moment <= at[k]
    <3> SUFFICES ASSUME NEW k \in D, at[m] <= at[k], k \notin page, ~(moment <= at[k])
                 PROVE  FALSE
      OBVIOUS
    <3>1. k \in O \ page /\ at[k] \in Nat /\ at[k] < moment
      OBVIOUS
    <3>2. at[k] <= at[m]
      BY <2>1, <3>1
    <3>3. at[k] = at[m]
      BY <2>1, <3>1, <3>2
    <3> QED BY <2>1, <3>1, <3>3
  <2>5. (page \cap D) \cup {i \in D : moment <= at[i]} = {i \in D : at[m] <= at[i]}
    BY <2>2, <2>3, <2>4
  <2> QED BY <1>8, <2>5, <2>m
<1> QED BY <1>7, <1>9, <1>10

(***************************************************************************)
(* What the server answers.                                                *)
(***************************************************************************)

(* The answer's messages are what is displayed of the rows of a page, the  *)
(* newest of "mine", newest first, and its cursor is the last one's time.  *)
IsPage(page, answer, mine) ==
  /\ page \subseteq mine
  /\ \A i \in page : \A j \in mine \ page : messageRows[j].created <= messageRows[i].created
  /\ answer.messages \in Seq(mine)
  /\ {answer.messages[i] : i \in DOMAIN answer.messages} = V!Displayed(page)
  /\ \A i, j \in DOMAIN answer.messages : i < j =>
       /\ answer.messages[i] # answer.messages[j]
       /\ messageRows[answer.messages[j]].created <= messageRows[answer.messages[i]].created
  /\ answer.hasMore \in BOOLEAN /\ (~answer.hasMore => page = mine)
  /\ answer.before = IF answer.messages = <<>> THEN V!NoCursor
                     ELSE messageRows[answer.messages[Len(answer.messages)]].created

LEMMA PageAnswered ==
  ASSUME V!TypeOK, NEW chat, NEW moment, NEW answer \in V!Pages(chat, moment)
  PROVE  \E page : IsPage(page, answer, V!Before(chat, moment))
<1> PICK mine : mine = V!Before(chat, moment)
  OBVIOUS
<1>1. mine \subseteq DOMAIN messageRows /\ IsFiniteSet(mine)
  <2>1. mine \subseteq DOMAIN messageRows
    BY DEF V!Before
  <2>2. DOMAIN messageRows = 1 .. Len(messageRows) /\ Len(messageRows) \in Nat
    BY DEF V!TypeOK
  <2>3. IsFiniteSet(DOMAIN messageRows)
    BY <2>2, FS_Interval
  <2> QED BY <2>1, <2>3, FS_Subset
<1>2. PICK page \in V!Newest(mine) : \E found \in V!NewestFirst(V!Displayed(page)) :
        answer = V!Answer(mine, found)
  BY DEF V!Pages, V!Answers
<1>3. PICK found \in V!NewestFirst(V!Displayed(page)) : answer = V!Answer(mine, found)
  BY <1>2
<1>4. page \subseteq mine /\ IsFiniteSet(page) /\ Cardinality(page) = V!Min2(PageSize, Cardinality(mine))
      /\ \A i \in page : \A j \in mine \ page :
           messageRows[j].created <= messageRows[i].created
  <2>1. page \subseteq mine /\ V!Cardinality(page) = V!Min2(PageSize, V!Cardinality(mine))
        /\ \A i \in page : \A j \in mine \ page :
             messageRows[j].created <= messageRows[i].created
    BY <1>2 DEF V!Newest
  <2> QED BY <1>1, <2>1, FS_Subset, ViewCardinality
<1>s. PICK mark : mark = V!Displayed(page)
  OBVIOUS
<1>n. PICK n : n = Cardinality(mark)
  OBVIOUS
<1>5. mark \subseteq page /\ IsFiniteSet(mark) /\ n \in Nat
  <2>1. mark \subseteq page
    BY <1>s DEF V!Displayed
  <2> QED BY <1>4, <2>1, <1>n, FS_Subset, FS_CardinalityType
<1>6. found \in [1 .. n -> mark] /\ (\A i, j \in 1 .. n : i # j => found[i] # found[j])
      /\ \A i, j \in DOMAIN found : i < j =>
           messageRows[found[j]].created <= messageRows[found[i]].created
  <2>1. found \in V!SetToSeqs(mark) /\ \A i, j \in DOMAIN found : i < j =>
           messageRows[found[j]].created <= messageRows[found[i]].created
    BY <1>3, <1>s DEF V!NewestFirst
  <2> QED BY <2>1, <1>n, ViewCardinality DEF V!SetToSeqs
<1>7. found \in Seq(mine) /\ DOMAIN found = 1 .. n /\ Len(found) = n
  BY <1>4, <1>5, <1>6
<1>8. {found[i] : i \in DOMAIN found} = mark
  <2>1. found \in Injection(1 .. n, mark)
    BY <1>6 DEF Injection, IsInjective
  <2>2. Cardinality(1 .. n) = n
    BY <1>5, FS_Interval
  <2>3. found \in Surjection(1 .. n, mark)
    BY <1>5, <1>n, <2>1, <2>2, FS_Injection
  <2>4. \A x \in mark : \E i \in 1 .. n : found[i] = x
    BY <2>3 DEF Surjection
  <2> QED BY <1>6, <2>4
<1>9. answer.messages = found /\ answer.hasMore = (V!Cardinality(mine) > PageSize)
      /\ answer.before = IF found = <<>> THEN V!NoCursor ELSE messageRows[found[Len(found)]].created
  BY <1>3 DEF V!Answer, V!Last
<1>10. ASSUME ~answer.hasMore PROVE page = mine
  <2>1. Cardinality(mine) \in Nat /\ ~(Cardinality(mine) > PageSize) /\ PageSize \in Nat
    BY <1>1, <1>9, <1>10, FS_CardinalityType, ViewCardinality, ViewAssumption
  <2>2. Cardinality(page) = Cardinality(mine)
    BY <1>4, <2>1 DEF V!Min2
  <2> QED BY <1>1, <1>4, <2>2, FS_Subset
<1>11. answer.hasMore \in BOOLEAN
  BY <1>9
<1>12. \A i, j \in DOMAIN found : i < j => /\ found[i] # found[j]
          /\ messageRows[found[j]].created <= messageRows[found[i]].created
  BY <1>5, <1>6, <1>7
<1> QED BY <1>4, <1>7, <1>8, <1>9, <1>10, <1>11, <1>12, <1>s DEF IsPage

(***************************************************************************)
(* What is shown.                                                          *)
(***************************************************************************)

LEMMA AView == \A w \in V!Views : w # V!None
BY DEF V!Views, V!None

LEMMA KnowingView ==
  ASSUME ViewInv, view # V!None
  PROVE  /\ view \in V!Views /\ view.known <= Len(messageRows) /\ view.known \in Nat
         /\ {view.messages[i] : i \in DOMAIN view.messages} \subseteq DOMAIN messageRows
         /\ messageRows \in Seq(V!Rows) /\ DOMAIN messageRows = 1 .. Len(messageRows)
         /\ Len(messageRows) \in Nat
BY DEF ViewInv, V!TypeOK, V!Views, V!ToSet

(* Rows that are added change nothing of what was there.                   *)
LEMMA OpenedStays ==
  ASSUME ViewInv, view # V!None, UNCHANGED view,
         Len(messageRows') \in Nat, Len(messageRows) <= Len(messageRows'),
         \A i \in 1 .. Len(messageRows) : messageRows'[i] = messageRows[i]
  PROVE  /\ V!Opened' = V!Opened
         /\ V!Displayed(V!Opened)' = V!Displayed(V!Opened)
         /\ \A i \in V!Opened : messageRows'[i] = messageRows[i]
<1>1. view.known \in Nat /\ view.known <= Len(messageRows) /\ Len(messageRows) \in Nat
  BY KnowingView
<1>2. \A i \in 1 .. view.known : messageRows'[i] = messageRows[i]
  BY <1>1
<1>3. V!Opened' = V!Opened /\ V!Opened \subseteq 1 .. view.known
  BY <1>2 DEF V!Opened
<1>4. V!Displayed(V!Opened)' = V!Displayed(V!Opened)
  BY <1>2, <1>3 DEF V!Displayed
<1> QED BY <1>2, <1>3, <1>4

(* So that the page shows what it should as before.                        *)
LEMMA LoadedStays ==
  ASSUME ViewInv, view # V!None, UNCHANGED view, V!Loaded,
         V!Opened' = V!Opened, V!Displayed(V!Opened)' = V!Displayed(V!Opened),
         \A i \in V!Opened : messageRows'[i] = messageRows[i],
         \/ load' \in {load, V!None}
         \/ load' = V!Asking(view.chat, view.before) /\ view.hasMore /\ view.before # V!NoCursor
  PROVE  V!Loaded'
<1> DEFINE O == V!Opened
           D == V!Displayed(V!Opened)
<1>0. D \subseteq O
  BY DEF V!Displayed
<1>1. V!Apart' <=> V!Apart
  BY DEF V!Apart
<1>2. V!Since(view.before)' = V!Since(view.before)
  BY <1>0 DEF V!Since
<1>3. load' # V!None => /\ load' = V!Asking(view.chat, view.before)
                       /\ view.hasMore /\ view.before # V!NoCursor
  BY DEF V!Loaded
<1>4. V!Asking(view.chat, view.before)' = V!Asking(view.chat, view.before)
      /\ V!NoCursor' = V!NoCursor
  BY DEF V!Asking, V!NoCursor
<1>5. view.hasMore /\ view.before # V!NoCursor =>
        \E i \in D' : messageRows'[i].created = view.before
  BY <1>0 DEF V!Loaded
<1>6. V!Apart =>
        /\ \A i, j \in DOMAIN view.messages : i < j => view.messages[i] < view.messages[j]
        /\ ~view.hasMore => V!ToSet(view.messages) = D'
        /\ view.hasMore /\ view.before # V!NoCursor =>
             V!ToSet(view.messages) = V!Since(view.before)'
  BY <1>2 DEF V!Loaded
<1> HIDE DEF O, D
<1> QED BY <1>1, <1>3, <1>4, <1>5, <1>6 DEF V!Loaded, V!ToSet, D

(***************************************************************************)
(* Each step.                                                              *)
(***************************************************************************)

LEMMA InitView == V!Init => ViewInv
BY ViewAssumption DEF V!Init, ViewInv, V!TypeOK, V!PagesInv, V!InTime, V!Rows, V!None

LEMMA IdleView == ViewInv /\ UNCHANGED viewVars => ViewInv'
<1> SUFFICES ASSUME ViewInv, UNCHANGED viewVars PROVE ViewInv'
  OBVIOUS
<1>1. messageRows' = messageRows /\ lidMap' = lidMap /\ view' = view /\ load' = load
  BY DEF viewVars
<1>2. V!TypeOK'
  BY <1>1 DEF ViewInv, V!TypeOK, V!Views, V!Loads, V!Rows, V!Address, V!None, V!NoCursor, V!ToSet
<1>3. V!InTime'
  BY <1>1 DEF ViewInv, V!PagesInv, V!InTime
<1>n. V!None' = V!None
  BY DEF V!None
<1>4. (V!Loaded <=> V!Loaded') /\ (V!Unloaded <=> V!Unloaded')
  BY <1>1 DEF V!Loaded, V!Unloaded, V!Asking, V!NoCursor, V!None, V!Displayed, V!Opened, V!Apart,
              V!ToSet, V!Since
<1> QED BY <1>1, <1>2, <1>3, <1>4, <1>n DEF ViewInv, V!PagesInv

LEMMA Normal == \A a \in V!Address : V!Normalize(a) \in V!Address
BY DEF V!Normalize, V!Address, V!Numbered

LEMMA SaveStep ==
  ASSUME ViewInv, V!Save
  PROVE  ViewInv'
<1>1. PICK a \in V!Address, content \in Contents, now \in 0 .. MaxTime :
        /\ \A i \in DOMAIN messageRows : messageRows[i].created <= now
        /\ messageRows' = Append(messageRows, [chat |-> V!Normalize(a), created |-> now,
                                               content |-> content])
  BY DEF V!Save
<1>r. PICK row : row = [chat |-> V!Normalize(a), created |-> now, content |-> content]
  OBVIOUS
<1>2. row \in V!Rows /\ row.created = now
  BY <1>r, Normal DEF V!Rows
<1>3. /\ messageRows \in Seq(V!Rows) /\ messageRows' = Append(messageRows, row)
      /\ Len(messageRows) < MaxRows /\ UNCHANGED <<lidMap, view, load>>
  BY <1>1, <1>r DEF V!Save, ViewInv, V!TypeOK
<1>4. /\ messageRows' \in Seq(V!Rows) /\ Len(messageRows') = Len(messageRows) + 1
      /\ DOMAIN messageRows = 1 .. Len(messageRows) /\ Len(messageRows) \in Nat
      /\ DOMAIN messageRows' = 1 .. Len(messageRows) + 1
      /\ \A i \in 1 .. Len(messageRows) : messageRows'[i] = messageRows[i]
      /\ messageRows'[Len(messageRows) + 1] = row
  BY <1>2, <1>3
<1>5. V!TypeOK'
  <2>1. messageRows' \in Seq(V!Rows) /\ Len(messageRows') <= MaxRows /\ V!Rows' = V!Rows
    BY <1>3, <1>4, ViewAssumption DEF V!Rows, V!Address
  <2>2. (load = V!None \/ load \in V!Loads)' /\ lidMap' \subseteq Contacts
    BY <1>3 DEF ViewInv, V!TypeOK, V!Loads, V!None, V!Address, V!NoCursor
  <2>3. (view = V!None)' \/ /\ (view \in V!Views /\ view.known <= Len(messageRows))'
                            /\ (V!ToSet(view.messages) \subseteq DOMAIN messageRows)'
    <3>1. CASE view = V!None
      BY <1>3, <3>1 DEF V!None
    <3>2. CASE view # V!None
      <4>1. view \in V!Views' /\ view.known <= Len(messageRows')
        BY <1>4, <3>2, KnowingView DEF V!Views, V!Address, V!NoCursor
      <4>2. {view.messages[i] : i \in DOMAIN view.messages} \subseteq DOMAIN messageRows'
        BY <1>4, <3>2, KnowingView
      <4> QED BY <1>3, <4>1, <4>2 DEF V!ToSet
    <3> QED BY <3>1, <3>2
  <2> QED BY <2>1, <2>2, <2>3 DEF V!TypeOK
<1>6. V!InTime'
  <2> SUFFICES ASSUME NEW i \in DOMAIN messageRows', NEW j \in DOMAIN messageRows', i < j
               PROVE  messageRows'[i].created <= messageRows'[j].created
    BY DEF V!InTime
  <2>1. CASE j = Len(messageRows) + 1
    <3>1. i \in 1 .. Len(messageRows) /\ messageRows[i].created <= now
      BY <1>1, <1>4, <2>1
    <3> QED BY <1>2, <1>4, <2>1, <3>1
  <2>2. CASE j # Len(messageRows) + 1
    <3>1. i \in 1 .. Len(messageRows) /\ j \in 1 .. Len(messageRows)
      BY <1>4, <2>2
    <3>2. messageRows[i].created <= messageRows[j].created
      BY <1>4, <3>1 DEF ViewInv, V!PagesInv, V!InTime
    <3> QED BY <1>4, <3>1, <3>2
  <2> QED BY <2>1, <2>2
<1>7. ASSUME view # V!None, view.steady, view.loaded PROVE V!Loaded'
  <2>1. V!Loaded
    BY <1>7 DEF ViewInv, V!PagesInv
  <2>2. /\ V!Opened' = V!Opened /\ V!Displayed(V!Opened)' = V!Displayed(V!Opened)
        /\ \A i \in V!Opened : messageRows'[i] = messageRows[i]
    <3>1. Len(messageRows') \in Nat /\ Len(messageRows) <= Len(messageRows') /\ view' = view
      BY <1>3, <1>4
    <3> QED BY <1>4, <1>7, <3>1, OpenedStays
  <2> QED BY <1>3, <1>7, <2>1, <2>2, LoadedStays
<1>8. ASSUME view # V!None, view.steady, ~view.loaded PROVE V!Unloaded'
  BY <1>3, <1>8 DEF ViewInv, V!PagesInv, V!Unloaded, V!Asking, V!NoCursor, V!None
<1>9. (view # V!None /\ view.steady => IF view.loaded THEN V!Loaded ELSE V!Unloaded)'
  BY <1>3, <1>7, <1>8 DEF V!None
<1>10. (load # V!None => view # V!None)'
  BY <1>3 DEF ViewInv, V!PagesInv, V!None
<1> QED BY <1>5, <1>6, <1>9, <1>10 DEF ViewInv, V!PagesInv

(* Neither what is known of numbers nor an error touches what is shown.    *)
LEMMA LearnOrFailStep ==
  ASSUME ViewInv, V!Learn \/ V!Fail
  PROVE  ViewInv'
<1>1. /\ UNCHANGED <<messageRows, view>> /\ lidMap' \subseteq Contacts
      /\ load' \in {load, V!None}
  BY DEF V!Learn, V!Fail, ViewInv, V!TypeOK
<1>2. V!TypeOK'
  BY <1>1 DEF ViewInv, V!TypeOK, V!Views, V!Loads, V!Rows, V!Address, V!None, V!NoCursor, V!ToSet
<1>3. V!InTime'
  BY <1>1 DEF ViewInv, V!PagesInv, V!InTime
<1>4. ASSUME view # V!None, view.steady, view.loaded PROVE V!Loaded'
  <2>1. V!Loaded
    BY <1>4 DEF ViewInv, V!PagesInv
  <2>2. /\ V!Opened' = V!Opened /\ V!Displayed(V!Opened)' = V!Displayed(V!Opened)
        /\ \A i \in V!Opened : messageRows'[i] = messageRows[i]
    BY <1>1 DEF V!Opened, V!Displayed
  <2> QED BY <1>1, <1>4, <2>1, <2>2, LoadedStays
<1>5. ASSUME view # V!None, view.steady, ~view.loaded PROVE V!Unloaded'
  BY <1>1, <1>5 DEF ViewInv, V!PagesInv, V!Unloaded, V!Asking, V!NoCursor, V!None
<1>6. (view # V!None /\ view.steady => IF view.loaded THEN V!Loaded ELSE V!Unloaded)'
  BY <1>1, <1>4, <1>5 DEF V!None
<1>7. (load # V!None => view # V!None)'
  BY <1>1 DEF ViewInv, V!PagesInv, V!None
<1> QED BY <1>2, <1>3, <1>6, <1>7 DEF ViewInv, V!PagesInv

LEMMA MigrateStep ==
  ASSUME ViewInv, V!Migrate
  PROVE  ViewInv'
<1>1. /\ messageRows' = [i \in DOMAIN messageRows |->
                          [messageRows[i] EXCEPT !.chat = V!Normalize(messageRows[i].chat)]]
      /\ view' = IF view = V!None THEN V!None ELSE [view EXCEPT !.steady = FALSE]
      /\ UNCHANGED <<lidMap, load>>
  BY DEF V!Migrate
<1>2. messageRows \in Seq(V!Rows) /\ DOMAIN messageRows = 1 .. Len(messageRows)
      /\ Len(messageRows) \in Nat
  BY DEF ViewInv, V!TypeOK
<1>3. \A i \in DOMAIN messageRows : /\ messageRows'[i] \in V!Rows
                                    /\ messageRows'[i].created = messageRows[i].created
  <2> SUFFICES ASSUME NEW i \in DOMAIN messageRows
               PROVE  messageRows'[i] \in V!Rows /\ messageRows'[i].created = messageRows[i].created
    OBVIOUS
  <2>1. messageRows[i] \in V!Rows
    BY <1>2
  <2>2. messageRows'[i] = [messageRows[i] EXCEPT !.chat = V!Normalize(messageRows[i].chat)]
    BY <1>1
  <2>3. V!Normalize(messageRows[i].chat) \in V!Address
    BY <2>1, Normal DEF V!Rows
  <2> QED BY <2>1, <2>2, <2>3 DEF V!Rows
<1>4. messageRows' \in Seq(V!Rows) /\ DOMAIN messageRows' = DOMAIN messageRows
      /\ Len(messageRows') = Len(messageRows)
  <2>1. DOMAIN messageRows' = 1 .. Len(messageRows)
    BY <1>1, <1>2
  <2>2. messageRows' = [i \in 1 .. Len(messageRows) |-> messageRows'[i]]
    BY <1>1, <1>2
  <2>3. messageRows' \in Seq(V!Rows)
    BY <1>2, <1>3, <2>2
  <2> QED BY <1>2, <2>1, <2>3
<1>5. V!TypeOK'
  <2>1. (messageRows \in Seq(V!Rows))' /\ Len(messageRows') <= MaxRows /\ lidMap' \subseteq Contacts
    BY <1>1, <1>4 DEF V!Rows, V!Address, ViewInv, V!TypeOK
  <2>2. (load = V!None \/ load \in V!Loads)'
    BY <1>1 DEF ViewInv, V!TypeOK, V!Loads, V!None, V!Address, V!NoCursor
  <2>3. CASE view = V!None
    BY <1>1, <2>1, <2>2, <2>3 DEF V!TypeOK, V!None
  <2>4. CASE view # V!None
    <3>1. /\ view' \in V!Views /\ view'.messages = view.messages /\ view'.known = view.known
      BY <1>1, <2>4, KnowingView DEF V!Views
    <3>2. (view \in V!Views)'
      BY <3>1 DEF V!Views, V!Address, V!NoCursor
    <3>3. (view.known <= Len(messageRows))' /\ (V!ToSet(view.messages) \subseteq DOMAIN messageRows)'
      BY <1>4, <2>4, <3>1, KnowingView DEF V!ToSet
    <3> QED BY <2>1, <2>2, <3>2, <3>3 DEF V!TypeOK
  <2> QED BY <2>3, <2>4
<1>6. V!InTime'
  BY <1>3, <1>4 DEF ViewInv, V!PagesInv, V!InTime
<1>8. (load # V!None => view # V!None)'
  <2>1. view # V!None => view' # V!None
    <3>1. view # V!None => view' = [view EXCEPT !.steady = FALSE] /\ view \in V!Views
      BY <1>1, KnowingView
    <3>2. \A w \in V!Views : [w EXCEPT !.steady = FALSE] \in V!Views
      BY DEF V!Views
    <3> QED BY <3>1, <3>2, AView
  <2> QED BY <1>1, <2>1 DEF ViewInv, V!PagesInv, V!None
<1>7. (view = V!None \/ ~view.steady)'
  <2>1. CASE view = V!None
    BY <1>1, <2>1 DEF V!None
  <2>2. CASE view # V!None
    BY <1>1, <2>2, KnowingView DEF V!Views
  <2> QED BY <2>1, <2>2
<1> QED BY <1>5, <1>6, <1>7, <1>8 DEF ViewInv, V!PagesInv

LEMMA SelectStep ==
  ASSUME ViewInv, NEW chat \in V!Address, V!Select(chat)
  PROVE  ViewInv'
<1>v. PICK v : v = [chat |-> chat, messages |-> <<>>, hasMore |-> FALSE, before |-> V!NoCursor,
                    loaded |-> FALSE, known |-> 0, steady |-> load = V!None]
  OBVIOUS
<1>1. /\ view' = v /\ UNCHANGED <<messageRows, lidMap>>
      /\ load' = IF load = V!None THEN V!Asking(chat, V!NoCursor) ELSE load
  BY <1>v DEF V!Select
<1>2. V!NoCursor \in 0 .. V!NoCursor /\ V!NoCursor \in Nat
  BY ViewAssumption DEF V!NoCursor
<1>3. v \in V!Views
  BY <1>v, <1>2 DEF V!Views
<1>4. V!Asking(chat, V!NoCursor) \in V!Loads
  BY <1>2 DEF V!Asking, V!Loads
<1>5. V!TypeOK'
  <2>1. (messageRows \in Seq(V!Rows) /\ Len(messageRows) <= MaxRows /\ lidMap \subseteq Contacts)'
    BY <1>1 DEF ViewInv, V!TypeOK, V!Rows, V!Address
  <2>2. (load = V!None \/ load \in V!Loads)'
    BY <1>1, <1>4 DEF ViewInv, V!TypeOK, V!Loads, V!None, V!Address, V!NoCursor
  <2>3. (view \in V!Views)'
    BY <1>1, <1>3 DEF V!Views, V!Address, V!NoCursor
  <2>4. Len(messageRows') \in Nat
    BY <2>1
  <2>5. (view.known <= Len(messageRows) /\ V!ToSet(view.messages) \subseteq DOMAIN messageRows)'
    BY <1>1, <1>v, <2>4 DEF V!ToSet
  <2> QED BY <2>1, <2>2, <2>3, <2>5 DEF V!TypeOK
<1>6. V!InTime'
  BY <1>1 DEF ViewInv, V!PagesInv, V!InTime
<1>8. (load # V!None => view # V!None)'
  <2>1. view' # V!None
    BY <1>1, <1>3, AView
  <2> QED BY <2>1 DEF V!None
<1>7. (view.steady => ~view.loaded /\ V!Unloaded)'
  BY <1>1, <1>v DEF V!Unloaded, V!Asking, V!NoCursor, V!None
<1> QED BY <1>5, <1>6, <1>7, <1>8 DEF ViewInv, V!PagesInv

LEMMA LoadMoreStep ==
  ASSUME ViewInv, V!LoadMore
  PROVE  ViewInv'
<1>1. /\ view # V!None /\ load = V!None /\ view.hasMore /\ view.before # V!NoCursor
      /\ load' = V!Asking(view.chat, view.before) /\ UNCHANGED <<messageRows, lidMap, view>>
  BY DEF V!LoadMore
<1>2. load' \in V!Loads
  BY <1>1, KnowingView DEF V!Asking, V!Loads, V!Views
<1>3. V!TypeOK'
  BY <1>1, <1>2 DEF ViewInv, V!TypeOK, V!Views, V!Loads, V!Rows, V!Address, V!None, V!NoCursor,
                    V!ToSet
<1>4. V!InTime'
  BY <1>1 DEF ViewInv, V!PagesInv, V!InTime
<1>5. ASSUME view.steady PROVE view.loaded /\ V!Loaded'
  <2>1. view.loaded /\ V!Loaded
    BY <1>1, <1>5 DEF ViewInv, V!PagesInv, V!Unloaded
  <2>2. /\ V!Opened' = V!Opened /\ V!Displayed(V!Opened)' = V!Displayed(V!Opened)
        /\ \A i \in V!Opened : messageRows'[i] = messageRows[i]
    BY <1>1 DEF V!Opened, V!Displayed
  <2> QED BY <1>1, <2>1, <2>2, LoadedStays
<1>6. (view # V!None /\ view.steady => IF view.loaded THEN V!Loaded ELSE V!Unloaded)'
  BY <1>1, <1>5 DEF V!None
<1>7. (load # V!None => view # V!None)'
  BY <1>1 DEF V!None
<1> QED BY <1>3, <1>4, <1>6, <1>7 DEF ViewInv, V!PagesInv

(* The message rows of the chat that were stored when it was opened, or   *)
(* are stored now that it is.                                              *)
Held == IF load.before = V!NoCursor
        THEN {i \in 1 .. Len(messageRows) :
                messageRows[i].chat = load.chat /\ V!ContentFilter(messageRows[i].content)}
        ELSE V!Opened

(* What a page was asked for with is nothing, for the first, or the time   *)
(* of a message that is shown; and what is shown was stored since.         *)
LEMMA AskedFor ==
  ASSUME ViewInv, view # V!None, view.steady, load # V!None,
         NEW O, O = Held
  PROVE  /\ load.chat = view.chat /\ load.before \in Nat /\ O \subseteq 1 .. Len(messageRows)
         /\ V!Before(load.chat, load.before) =
              {i \in O : messageRows[i].created < load.before}
         /\ load.before = V!NoCursor =>
              ~view.loaded /\ \A i \in O : messageRows[i].created < load.before
         /\ load.before # V!NoCursor => view.loaded /\ V!Loaded /\ view.before = load.before
<1>o. O = IF load.before = V!NoCursor
          THEN {i \in 1 .. Len(messageRows) :
                  messageRows[i].chat = load.chat /\ V!ContentFilter(messageRows[i].content)}
          ELSE V!Opened
  BY DEF Held
<1>1. load \in V!Loads /\ view \in V!Views /\ messageRows \in Seq(V!Rows)
      /\ DOMAIN messageRows = 1 .. Len(messageRows) /\ Len(messageRows) \in Nat
      /\ view.known \in Nat /\ view.known <= Len(messageRows)
  BY KnowingView DEF ViewInv, V!TypeOK
<1>2. load.before \in Nat /\ V!NoCursor \in Nat /\ V!NoCursor = MaxTime + 1
  BY <1>1, ViewAssumption DEF V!Loads, V!NoCursor
<1>3. \A i \in DOMAIN messageRows : messageRows[i].created \in Nat
        /\ messageRows[i].created < V!NoCursor
  <2> SUFFICES ASSUME NEW i \in DOMAIN messageRows
               PROVE  messageRows[i].created \in Nat /\ messageRows[i].created < V!NoCursor
    OBVIOUS
  <2>1. messageRows[i].created \in 0 .. MaxTime
    <3>1. messageRows[i] \in V!Rows
      BY <1>1
    <3> QED BY <3>1 DEF V!Rows
  <2> QED BY <1>2, <2>1, ViewAssumption
<1>4. CASE load.before = V!NoCursor
  <2>1. ~view.loaded /\ load.chat = view.chat
    BY <1>4 DEF ViewInv, V!PagesInv, V!Loaded, V!Unloaded, V!Asking
  <2>2. V!Before(load.chat, load.before) = O
    BY <1>1, <1>3, <1>4, <1>o DEF V!Before
  <2>3. O \subseteq 1 .. Len(messageRows) /\ \A i \in O : messageRows[i].created < load.before
    BY <1>1, <1>3, <1>4, <1>o
  <2>4. O = {i \in O : messageRows[i].created < load.before}
    BY <2>3
  <2> QED BY <1>2, <1>4, <2>1, <2>2, <2>3, <2>4
<1>5. CASE load.before # V!NoCursor
  <2>1. view.loaded /\ V!Loaded /\ load = V!Asking(view.chat, view.before) /\ view.hasMore
        /\ view.before # V!NoCursor
    BY <1>5 DEF ViewInv, V!PagesInv, V!Loaded, V!Unloaded, V!Asking
  <2>2. load.chat = view.chat /\ view.before = load.before
    BY <2>1 DEF V!Asking
  <2>3. PICK m \in V!Opened : messageRows[m].created = load.before
    BY <2>1, <2>2 DEF V!Loaded, V!Displayed
  <2>4. m \in 1 .. view.known
    BY <2>3 DEF V!Opened
  <2>5. \A i \in DOMAIN messageRows : messageRows[i].created < load.before => i \in 1 .. view.known
    <3> SUFFICES ASSUME NEW i \in DOMAIN messageRows, messageRows[i].created < load.before,
                        ~(i <= view.known)
                 PROVE  FALSE
      BY <1>1
    <3>1. m < i /\ m \in DOMAIN messageRows
      BY <1>1, <2>4
    <3>2. messageRows[m].created <= messageRows[i].created
      BY <3>1 DEF ViewInv, V!PagesInv, V!InTime
    <3> QED BY <1>2, <1>3, <2>3, <3>2
  <2>6. O = V!Opened /\ O \subseteq 1 .. Len(messageRows)
    BY <1>1, <1>5, <1>o DEF V!Opened
  <2>7. V!Before(load.chat, load.before) = {i \in V!Opened : messageRows[i].created < load.before}
    BY <1>1, <2>2, <2>5 DEF V!Before, V!Opened
  <2> QED BY <1>2, <1>5, <2>1, <2>2, <2>6, <2>7
<1> QED BY <1>4, <1>5

(* The newest come first, and are shown last.                              *)
Turned(older, found, T) ==
  /\ older \in Seq(T) /\ Len(older) = Len(found) /\ DOMAIN older = 1 .. Len(found)
  /\ \A i \in 1 .. Len(found) : older[i] = found[Len(found) - i + 1]
  /\ {older[i] : i \in DOMAIN older} = {found[i] : i \in DOMAIN found}

LEMMA Backwards ==
  ASSUME NEW T, NEW found \in Seq(T)
  PROVE  Turned(V!Reverse(found), found, T)
<1>r. PICK older : older = V!Reverse(found)
  OBVIOUS
<1> PICK n : n = Len(found)
  OBVIOUS
<1>1. n \in Nat /\ DOMAIN found = 1 .. n
  OBVIOUS
<1>2. older = [i \in 1 .. n |-> found[(n - i) + 1]]
  BY <1>r DEF V!Reverse
<1>3. \A i \in 1 .. n : (n - i) + 1 \in 1 .. n /\ (n - ((n - i) + 1)) + 1 = i
  BY <1>1
<1>4. \A i \in 1 .. n : older[i] = found[(n - i) + 1] /\ found[(n - i) + 1] \in T
  BY <1>1, <1>2, <1>3
<1>5. older \in Seq(T) /\ Len(older) = n /\ DOMAIN older = 1 .. n
  BY <1>1, <1>2, <1>4
<1>6. \A i \in DOMAIN older : older[i] \in {found[k] : k \in DOMAIN found}
  <2> SUFFICES ASSUME NEW i \in 1 .. n PROVE older[i] \in {found[k] : k \in DOMAIN found}
    BY <1>5
  <2> QED BY <1>1, <1>3, <1>4
<1>7. \A k \in DOMAIN found : found[k] \in {older[i] : i \in DOMAIN older}
  <2> SUFFICES ASSUME NEW k \in 1 .. n PROVE found[k] \in {older[i] : i \in DOMAIN older}
    BY <1>1
  <2>1. PICK i \in 1 .. n : i = (n - k) + 1 /\ (n - i) + 1 = k
    BY <1>1, <1>3
  <2>2. older[i] = found[k]
    BY <1>4, <2>1
  <2> QED BY <1>5, <2>2
<1>8. {older[i] : i \in DOMAIN older} = {found[i] : i \in DOMAIN found}
  BY <1>6, <1>7
<1>9. \A i \in 1 .. n : older[i] = found[n - i + 1]
  BY <1>1, <1>4
<1>10. Turned(older, found, T)
  BY <1>5, <1>8, <1>9 DEF Turned
<1> QED BY <1>10, <1>r

(* The page after an answer.                                               *)
Received(answer, older, first) ==
  [view EXCEPT
     !.messages = IF first THEN older ELSE older \o view.messages,
     !.hasMore = answer.hasMore, !.before = answer.before, !.loaded = TRUE,
     !.known = IF first THEN Len(messageRows) ELSE view.known]

LEMMA ReceiveTypes ==
  ASSUME ViewInv, view # V!None, load # V!None,
         NEW answer \in V!Pages(load.chat, load.before), NEW older, NEW first \in BOOLEAN,
         older = V!Reverse(answer.messages), NEW v, v = Received(answer, older, first)
  PROVE  /\ v \in V!Views /\ v.known <= Len(messageRows)
         /\ {v.messages[i] : i \in DOMAIN v.messages} \subseteq DOMAIN messageRows
         /\ v.chat = view.chat /\ v.steady = view.steady /\ v.loaded
         /\ v.messages = (IF first THEN older ELSE older \o view.messages)
         /\ v.hasMore = answer.hasMore /\ v.before = answer.before
         /\ v.known = (IF first THEN Len(messageRows) ELSE view.known)
<1> PICK mine : mine = V!Before(load.chat, load.before)
  OBVIOUS
<1>1. /\ answer.messages \in Seq(mine) /\ answer.hasMore \in BOOLEAN
      /\ answer.before = IF answer.messages = <<>> THEN V!NoCursor
                         ELSE messageRows[answer.messages[Len(answer.messages)]].created
  <2>1. V!TypeOK
    BY DEF ViewInv
  <2>2. PICK page : IsPage(page, answer, mine)
    BY <2>1, PageAnswered
  <2> QED BY <2>2 DEF IsPage
<1>2. mine \subseteq DOMAIN messageRows /\ messageRows \in Seq(V!Rows) /\ Len(messageRows) \in Nat
      /\ DOMAIN messageRows \subseteq Nat
  BY KnowingView DEF V!Before
<1>3. view \in V!Views /\ view.known \in Nat /\ view.known <= Len(messageRows)
      /\ {view.messages[i] : i \in DOMAIN view.messages} \subseteq DOMAIN messageRows
  BY KnowingView
<1>4. older \in Seq(mine)
  <2>1. Turned(older, answer.messages, mine)
    BY <1>1, Backwards, Zenon
  <2> QED BY <2>1 DEF Turned
<1>5. answer.before \in 0 .. V!NoCursor
  <2>1. CASE answer.messages = <<>>
    BY <1>1, <2>1, ViewAssumption DEF V!NoCursor
  <2>2. CASE answer.messages # <<>>
    <3>1. answer.messages[Len(answer.messages)] \in mine
      BY <1>1, <2>2
    <3>2. answer.before \in 0 .. MaxTime
      <4> PICK m \in mine : m = answer.messages[Len(answer.messages)]
        BY <3>1
      <4>1. messageRows[m] \in V!Rows /\ answer.before = messageRows[m].created
        BY <1>1, <1>2, <2>2
      <4> QED BY <4>1 DEF V!Rows
    <3> QED BY <3>2, ViewAssumption DEF V!NoCursor
  <2> QED BY <2>1, <2>2
<1>6. PICK shown : shown = (IF first THEN older ELSE older \o view.messages)
  OBVIOUS
<1>7. shown \in Seq(Nat) /\ {shown[i] : i \in DOMAIN shown} \subseteq DOMAIN messageRows
  <2>1. older \in Seq(DOMAIN messageRows)
    BY <1>2, <1>4
  <2>2. view.messages \in Seq(DOMAIN messageRows)
    <3>1. view.messages \in Seq(Nat)
      BY <1>3 DEF V!Views
    <3>2. \A i \in DOMAIN view.messages : view.messages[i] \in DOMAIN messageRows
      BY <1>3
    <3> QED BY <3>1, <3>2
  <2>3. shown \in Seq(DOMAIN messageRows)
    <3>1. older \o view.messages \in Seq(DOMAIN messageRows)
      BY <2>1, <2>2, ConcatProperties
    <3> QED BY <1>6, <2>1, <3>1
  <2> QED BY <1>2, <2>3
<1>8. PICK k : k = (IF first THEN Len(messageRows) ELSE view.known)
  OBVIOUS
<1>9. k \in Nat /\ k <= Len(messageRows)
  BY <1>2, <1>3, <1>8
<1>10. v = [view EXCEPT !.messages = shown, !.hasMore = answer.hasMore, !.before = answer.before,
                        !.loaded = TRUE, !.known = k]
  BY <1>6, <1>8 DEF Received
<1>11. /\ v \in V!Views /\ v.chat = view.chat /\ v.steady = view.steady /\ v.loaded
       /\ v.messages = shown /\ v.hasMore = answer.hasMore /\ v.before = answer.before
       /\ v.known = k
  BY <1>1, <1>3, <1>5, <1>7, <1>9, <1>10 DEF V!Views
<1> QED BY <1>6, <1>7, <1>8, <1>9, <1>11

(* What is shown with an answer, O being the rows of the chat.             *)
Shows(answer, O, shown) ==
  /\ answer.hasMore /\ answer.before # V!NoCursor =>
       \E i \in V!Displayed(O) : messageRows[i].created = answer.before
  /\ (\A i, j \in O : messageRows[i].created = messageRows[j].created => i = j) =>
       /\ \A i, j \in DOMAIN shown : i < j => shown[i] < shown[j]
       /\ ~answer.hasMore => {shown[i] : i \in DOMAIN shown} = V!Displayed(O)
       /\ answer.hasMore /\ answer.before # V!NoCursor =>
            {shown[i] : i \in DOMAIN shown} =
              {i \in V!Displayed(O) : answer.before <= messageRows[i].created}

WithOlder(older) == IF load.before = V!NoCursor THEN older ELSE older \o view.messages

LEMMA Widened ==
  ASSUME NEW T, NEW U, T \subseteq U, NEW s \in Seq(T)
  PROVE  s \in Seq(U)
OBVIOUS

LEMMA ReceivedPage ==
  ASSUME ViewInv, view # V!None, view.steady, load # V!None,
         NEW answer \in V!Pages(load.chat, load.before)
  PROVE  Shows(answer, Held, WithOlder(V!Reverse(answer.messages)))
<1>O. PICK O : O = Held
  OBVIOUS
<1>o. PICK older : older = V!Reverse(answer.messages)
  OBVIOUS
<1>w. PICK shown : shown = IF load.before = V!NoCursor THEN older ELSE older \o view.messages
  OBVIOUS
<1>1. /\ load.chat = view.chat /\ load.before \in Nat /\ O \subseteq 1 .. Len(messageRows)
      /\ V!Before(load.chat, load.before) = {i \in O : messageRows[i].created < load.before}
      /\ load.before = V!NoCursor => \A i \in O : messageRows[i].created < load.before
      /\ load.before # V!NoCursor => view.loaded /\ V!Loaded /\ view.before = load.before
  BY <1>O, AskedFor
<1>m. PICK mine : mine = {i \in O : messageRows[i].created < load.before}
  OBVIOUS
<1>p. PICK page : IsPage(page, answer, mine)
  <2>1. V!TypeOK /\ mine = V!Before(load.chat, load.before)
    BY <1>1, <1>m DEF ViewInv
  <2> QED BY <2>1, PageAnswered
<1>2. /\ page \subseteq mine
      /\ \A i \in page : \A j \in mine \ page :
           messageRows[j].created <= messageRows[i].created
      /\ answer.messages \in Seq(mine)
      /\ {answer.messages[i] : i \in DOMAIN answer.messages} = V!Displayed(page)
      /\ \A i, j \in DOMAIN answer.messages : i < j =>
           /\ answer.messages[i] # answer.messages[j]
           /\ messageRows[answer.messages[j]].created <= messageRows[answer.messages[i]].created
      /\ answer.hasMore \in BOOLEAN /\ (~answer.hasMore => page = mine)
      /\ answer.before = IF answer.messages = <<>> THEN V!NoCursor
           ELSE messageRows[answer.messages[Len(answer.messages)]].created
  BY <1>p DEF IsPage
<1>3. /\ older \in Seq(mine) /\ Len(older) = Len(answer.messages) /\ DOMAIN older = 1 .. Len(older)
      /\ \A i \in 1 .. Len(older) : older[i] = answer.messages[Len(older) - i + 1]
      /\ {older[i] : i \in DOMAIN older} = V!Displayed(page) /\ Len(older) \in Nat
  <2>1. answer.messages \in Seq(mine)
    BY <1>2
  <2>2. Turned(older, answer.messages, mine)
    BY <1>o, <2>1, Backwards, Zenon
  <2>3. Len(answer.messages) \in Nat
    BY <2>1
  <2> QED BY <1>2, <2>2, <2>3, Zenon DEF Turned
<1>d. DOMAIN answer.messages = 1 .. Len(older)
  BY <1>2, <1>3
<1>4. \A i, j \in DOMAIN older : i < j =>
        older[i] # older[j] /\ messageRows[older[i]].created <= messageRows[older[j]].created
  <2> SUFFICES ASSUME NEW i \in 1 .. Len(older), NEW j \in 1 .. Len(older), i < j
               PROVE  older[i] # older[j]
                      /\ messageRows[older[i]].created <= messageRows[older[j]].created
    BY <1>3
  <2>n. PICK n \in Nat : n = Len(older)
    BY <1>3
  <2>1. PICK k, l : k = n - j + 1 /\ l = n - i + 1
    OBVIOUS
  <2>2. k \in 1 .. n /\ l \in 1 .. n /\ k < l
    BY <2>n, <2>1
  <2>3. older[i] = answer.messages[l] /\ older[j] = answer.messages[k]
    BY <1>3, <2>n, <2>1
  <2>4. k \in DOMAIN answer.messages /\ l \in DOMAIN answer.messages
    BY <1>d, <2>n, <2>2
  <2> QED BY <1>2, <2>2, <2>3, <2>4
<1>5. answer.before # V!NoCursor =>
        older # <<>> /\ answer.before = messageRows[older[1]].created /\ older[1] \in V!Displayed(page)
  <2> SUFFICES ASSUME answer.before # V!NoCursor
               PROVE  older # <<>> /\ answer.before = messageRows[older[1]].created
                      /\ older[1] \in V!Displayed(page)
    OBVIOUS
  <2>1. answer.messages # <<>> /\ answer.before = messageRows[answer.messages[Len(answer.messages)]].created
    BY <1>2
  <2>2. Len(answer.messages) > 0
    BY <1>2, <2>1
  <2>3. 1 \in DOMAIN older /\ older[1] = answer.messages[Len(answer.messages)] /\ older # <<>>
    BY <1>3, <2>2
  <2>4. older[1] \in {older[i] : i \in DOMAIN older}
    BY <2>3
  <2> QED BY <1>3, <2>1, <2>3, <2>4
<1>6. V!Displayed(page) = page \cap V!Displayed(O) /\ V!Displayed(O) \subseteq O
      /\ V!Displayed(page) \subseteq V!Displayed(O)
  <2>1. page \subseteq O
    BY <1>2, <1>m
  <2> QED BY <2>1 DEF V!Displayed
<1>7. answer.hasMore /\ answer.before # V!NoCursor =>
        \E i \in V!Displayed(O) : messageRows[i].created = answer.before
  BY <1>5, <1>6
<1>8. ASSUME \A i, j \in O : messageRows[i].created = messageRows[j].created => i = j
      PROVE  /\ \A i, j \in DOMAIN shown : i < j => shown[i] < shown[j]
             /\ ~answer.hasMore => {shown[i] : i \in DOMAIN shown} = V!Displayed(O)
             /\ answer.hasMore /\ answer.before # V!NoCursor =>
                  {shown[i] : i \in DOMAIN shown} =
                     {i \in V!Displayed(O) : answer.before <= messageRows[i].created}
  <2> PICK at : at = [i \in O |-> messageRows[i].created]
    OBVIOUS
  <2>d. PICK D : D = V!Displayed(O)
    OBVIOUS
  <2>1. messageRows \in Seq(V!Rows) /\ DOMAIN messageRows = 1 .. Len(messageRows)
        /\ Len(messageRows) \in Nat
    BY KnowingView
  <2>2. \A i \in O : at[i] = messageRows[i].created /\ at[i] \in Nat /\ i \in DOMAIN messageRows
    <3> SUFFICES ASSUME NEW i \in O
                 PROVE  at[i] = messageRows[i].created /\ at[i] \in Nat /\ i \in DOMAIN messageRows
      OBVIOUS
    <3>1. i \in DOMAIN messageRows /\ messageRows[i] \in V!Rows
      BY <1>1, <2>1
    <3> QED BY <3>1 DEF V!Rows
  <2>3. \A i, j \in O : i < j => at[i] <= at[j]
    BY <2>2 DEF ViewInv, V!PagesInv, V!InTime
  <2>4. \A i, j \in O : at[i] = at[j] => i = j
    BY <1>8, <2>2
  <2>5. mine \subseteq O /\ page \subseteq O /\ (\A i \in page : at[i] < load.before) /\ D \subseteq O
        /\ \A i \in page : \A j \in O \ page : at[j] < load.before => at[j] <= at[i]
    <3>1. mine = {i \in O : at[i] < load.before} /\ page \subseteq mine
      BY <1>2, <1>m, <2>2
    <3>2. mine \subseteq O /\ page \subseteq O /\ \A i \in page : at[i] < load.before
      BY <3>1
    <3>3. \A i \in page : \A j \in mine \ page : at[j] <= at[i]
      BY <1>2, <2>2, <3>2
    <3>4. \A j \in O \ page : at[j] < load.before => j \in mine \ page
      BY <3>1
    <3> QED BY <1>6, <2>d, <3>2, <3>3, <3>4
  <2>6. O \subseteq Nat
    BY <1>1
  <2>7. older \in Seq(Nat) /\ {older[i] : i \in DOMAIN older} = page \cap D
        /\ \A i, j \in DOMAIN older : i < j => older[i] # older[j] /\ at[older[i]] <= at[older[j]]
    <3>1. \A i \in DOMAIN older : older[i] \in O
      <4>1. \A i \in DOMAIN older : older[i] \in mine
        BY <1>3
      <4> QED BY <2>5, <4>1
    <3>2. older \in Seq(Nat)
      <4>1. mine \subseteq Nat
        BY <2>5, <2>6
      <4>2. older \in Seq(mine)
        BY <1>3
      <4> QED BY <4>1, <4>2, Widened, Zenon
    <3>3. \A i, j \in DOMAIN older : i < j => older[i] # older[j] /\ at[older[i]] <= at[older[j]]
      BY <1>4, <2>2, <3>1
    <3> QED BY <1>3, <1>6, <2>d, <3>2, <3>3
  <2>s. PICK before : before = IF load.before = V!NoCursor THEN <<>> ELSE view.messages
    OBVIOUS
  <2>8. before \in Seq(Nat) /\ {before[i] : i \in DOMAIN before} = {i \in D : load.before <= at[i]}
        /\ (\A i, j \in DOMAIN before : i < j => before[i] < before[j])
        /\ shown = older \o before
    <3>1. CASE load.before = V!NoCursor
      <4>1. \A i \in D : ~(load.before <= at[i])
        BY <1>1, <2>2, <2>5, <3>1
      <4>2. before = <<>> /\ older \o <<>> = older
        BY <2>7, <2>s, <3>1
      <4> QED BY <1>w, <3>1, <4>1, <4>2
    <3>2. CASE load.before # V!NoCursor
      <4>1. V!Loaded /\ O = V!Opened /\ view.before = load.before /\ before = view.messages
            /\ view \in V!Views
        BY <1>1, <1>O, <2>s, <3>2, KnowingView DEF Held
      <4>2. V!Apart
        BY <1>8, <4>1 DEF V!Apart
      <4>3. view.hasMore
        <5>1. load = V!Asking(view.chat, view.before) /\ view.hasMore
          BY <4>1 DEF V!Loaded
        <5> QED BY <5>1
      <4>4. (\A i, j \in DOMAIN before : i < j => before[i] < before[j])
            /\ {before[i] : i \in DOMAIN before} = V!Since(load.before)
        BY <3>2, <4>1, <4>2, <4>3 DEF V!Loaded, V!ToSet
      <4>5. V!Since(load.before) = {i \in D : load.before <= at[i]}
        BY <2>2, <2>5, <2>d, <4>1 DEF V!Since
      <4>6. before \in Seq(Nat)
        BY <4>1 DEF V!Views
      <4> QED BY <1>w, <3>2, <4>1, <4>4, <4>5, <4>6
    <3> QED BY <3>1, <3>2
  <2>9. /\ \A i, j \in DOMAIN shown : i < j => shown[i] < shown[j]
        /\ page = {i \in O : at[i] < load.before} => {shown[i] : i \in DOMAIN shown} = D
        /\ older # <<>> => {shown[i] : i \in DOMAIN shown} = {i \in D : at[older[1]] <= at[i]}
    <3>1. Prepends(O, D, at, load.before, page, older, before, shown)
      BY <1>1, <2>2, <2>3, <2>4, <2>5, <2>6, <2>7, <2>8 DEF Prepends
    <3>2. Whole(O, D, at, load.before, page, older, shown)
      BY <3>1, OnePageMore, Zenon
    <3> QED BY <3>2, Zenon DEF Whole
  <2>10. ~answer.hasMore => page = {i \in O : at[i] < load.before}
    BY <1>2, <1>m, <2>2
  <2>11. answer.before # V!NoCursor =>
           {i \in D : at[older[1]] <= at[i]}
             = {i \in D : answer.before <= messageRows[i].created}
    <3> SUFFICES ASSUME answer.before # V!NoCursor
                 PROVE  {i \in D : at[older[1]] <= at[i]}
                          = {i \in D : answer.before <= messageRows[i].created}
      OBVIOUS
    <3>1. older[1] \in O /\ answer.before = at[older[1]]
      BY <1>5, <1>6, <2>2
    <3> QED BY <2>2, <2>5, <3>1
  <2> QED BY <1>5, <2>d, <2>9, <2>10, <2>11
<1>9. Shows(answer, O, shown)
  BY <1>7, <1>8, Zenon DEF Shows
<1> QED BY <1>9, <1>O, <1>o, <1>w, Zenon DEF WithOlder

LEMMA ReceiveStep ==
  ASSUME ViewInv, V!Receive
  PROVE  ViewInv'
<1>1. view # V!None /\ load # V!None /\ load' = V!None /\ UNCHANGED <<messageRows, lidMap>>
  BY DEF V!Receive, ViewInv, V!PagesInv
<1>f. PICK first \in BOOLEAN : first = (load.before = V!NoCursor)
  OBVIOUS
<1>2. PICK answer \in V!Pages(load.chat, load.before) :
        view' = Received(answer, V!Reverse(answer.messages), first)
  BY <1>f DEF V!Receive, Received
<1>o. PICK older : older = V!Reverse(answer.messages)
  OBVIOUS
<1>3. /\ view' \in V!Views /\ view'.known <= Len(messageRows)
      /\ {view'.messages[i] : i \in DOMAIN view'.messages} \subseteq DOMAIN messageRows
      /\ view'.chat = view.chat /\ view'.steady = view.steady /\ view'.loaded
      /\ view'.messages = (IF first THEN older ELSE older \o view.messages)
      /\ view'.hasMore = answer.hasMore /\ view'.before = answer.before
      /\ view'.known = (IF first THEN Len(messageRows) ELSE view.known)
  <2>1. view' = Received(answer, older, first)
    BY <1>2, <1>o
  <2> QED BY <1>1, <1>o, <2>1, ReceiveTypes, SMTT(30)
<1>4. V!TypeOK'
  <2>1. (messageRows \in Seq(V!Rows) /\ Len(messageRows) <= MaxRows /\ lidMap \subseteq Contacts)'
    BY <1>1 DEF ViewInv, V!TypeOK, V!Rows, V!Address
  <2>2. (load = V!None)'
    BY <1>1 DEF V!None
  <2>3. (view \in V!Views)'
    BY <1>3 DEF V!Views, V!Address, V!NoCursor
  <2>4. (view.known <= Len(messageRows) /\ V!ToSet(view.messages) \subseteq DOMAIN messageRows)'
    BY <1>1, <1>3 DEF V!ToSet
  <2> QED BY <2>1, <2>2, <2>3, <2>4 DEF V!TypeOK
<1>5. V!InTime'
  BY <1>1 DEF ViewInv, V!PagesInv, V!InTime
<1>6. ASSUME view.steady PROVE V!Loaded'
  <2>o. PICK O : O = Held
    OBVIOUS
  <2>s. PICK shown : shown = IF load.before = V!NoCursor THEN older ELSE older \o view.messages
    OBVIOUS
  <2>1. load.chat = view.chat
    BY <1>1, <1>6, <2>o, AskedFor
  <2>2. /\ answer.hasMore /\ answer.before # V!NoCursor =>
             \E i \in V!Displayed(O) : messageRows[i].created = answer.before
        /\ (\A i, j \in O : messageRows[i].created = messageRows[j].created => i = j) =>
             /\ \A i, j \in DOMAIN shown : i < j => shown[i] < shown[j]
             /\ ~answer.hasMore => {shown[i] : i \in DOMAIN shown} = V!Displayed(O)
             /\ answer.hasMore /\ answer.before # V!NoCursor =>
                  {shown[i] : i \in DOMAIN shown} =
                    {i \in V!Displayed(O) : answer.before <= messageRows[i].created}
    <3>1. Shows(answer, Held, WithOlder(older))
      BY <1>1, <1>6, <1>o, ReceivedPage, Zenon
    <3>2. Shows(answer, O, shown)
      BY <2>o, <2>s, <3>1, Zenon DEF WithOlder
    <3> QED BY <3>2, Zenon DEF Shows
  <2>3. V!Opened' = O
    <3>1. CASE load.before = V!NoCursor
      <4>1. view'.known = Len(messageRows) /\ view'.chat = load.chat
        BY <1>3, <1>f, <2>1, <3>1
      <4> QED BY <1>1, <2>o, <3>1, <4>1 DEF V!Opened, Held
    <3>2. CASE load.before # V!NoCursor
      <4>1. view'.known = view.known /\ view'.chat = view.chat
        BY <1>3, <1>f, <3>2
      <4> QED BY <1>1, <2>o, <3>2, <4>1 DEF V!Opened, Held
    <3> QED BY <3>1, <3>2
  <2>4. V!Displayed(V!Opened)' = V!Displayed(O)
    BY <1>1, <2>3 DEF V!Displayed
  <2>5. V!Apart' <=> \A i, j \in O : messageRows[i].created = messageRows[j].created => i = j
    BY <1>1, <2>3 DEF V!Apart
  <2>6. V!Since(view.before)' = {i \in V!Displayed(O) : answer.before <= messageRows[i].created}
    BY <1>1, <1>3, <2>4 DEF V!Since
  <2>7. view'.messages = shown /\ V!NoCursor' = V!NoCursor /\ V!ToSet(view.messages)' = {shown[i] : i \in DOMAIN shown}
    <3>1. view'.messages = shown
      BY <1>3, <1>f, <2>s, Zenon
    <3> QED BY <3>1 DEF V!NoCursor, V!ToSet
  <2>8. (load # V!None => /\ load = V!Asking(view.chat, view.before)
                          /\ view.hasMore /\ view.before # V!NoCursor)'
    BY <1>1 DEF V!None
  <2>9. (view.hasMore /\ view.before # V!NoCursor =>
           \E i \in V!Displayed(V!Opened) : messageRows[i].created = view.before)'
    BY <1>1, <1>3, <2>2, <2>4, <2>7
  <2>10. (V!Apart => /\ \A i, j \in DOMAIN view.messages : i < j => view.messages[i] < view.messages[j]
                     /\ ~view.hasMore => V!ToSet(view.messages) = V!Displayed(V!Opened)
                     /\ view.hasMore /\ view.before # V!NoCursor =>
                          V!ToSet(view.messages) = V!Since(view.before))'
    BY <1>3, <2>2, <2>4, <2>5, <2>6, <2>7
  <2> QED BY <2>8, <2>9, <2>10 DEF V!Loaded
<1>7. (view # V!None)' /\ (load = V!None)'
  <2>1. view' # V!None
    BY <1>3, AView
  <2> QED BY <1>1, <2>1 DEF V!None
<1> QED BY <1>3, <1>4, <1>5, <1>6, <1>7 DEF ViewInv, V!PagesInv

LEMMA NextView == ViewInv /\ [V!Next]_viewVars => ViewInv'
<1> SUFFICES ASSUME ViewInv, V!Next \/ UNCHANGED viewVars PROVE ViewInv'
  BY DEF viewVars
<1>1. CASE V!Save
  BY <1>1, SaveStep
<1>2. CASE V!Learn \/ V!Fail
  BY <1>2, LearnOrFailStep
<1>3. CASE V!Migrate
  BY <1>3, MigrateStep
<1>4. CASE \E chat \in V!Address : V!Select(chat)
  BY <1>4, SelectStep
<1>5. CASE V!LoadMore
  BY <1>5, LoadMoreStep
<1>6. CASE V!Receive
  BY <1>6, ReceiveStep
<1>7. CASE UNCHANGED viewVars
  BY <1>7, IdleView
<1> QED BY <1>1, <1>2, <1>3, <1>4, <1>5, <1>6, <1>7 DEF V!Next

(* The list counts the rows of a contact whose rows are all under one      *)
(* address.                                                                *)
LEMMA ListCounts ==
  ASSUME ViewInv, view # V!None, Len(messageRows) = view.known, ~V!Split(view.chat),
         NEW entry \in V!Chats, entry.chat = view.chat
  PROVE  entry.count = V!Cardinality(V!Opened)
<1> DEFINE content == {k \in DOMAIN messageRows : V!ContentFilter(messageRows[k].content)}
           of(c) == {k \in content : V!Normalize(messageRows[k].chat) = c}
<1>1. /\ entry.count = V!Cardinality(of(view.chat))
      /\ \E k \in content : V!Normalize(messageRows[k].chat) = view.chat
  <2>1. PICK c \in {V!Normalize(messageRows[k].chat) : k \in content} :
          entry = [chat |-> c, count |-> V!Cardinality(of(c)),
                   last |-> V!Max({messageRows[k].created : k \in of(c)})]
    BY DEF V!Chats
  <2>2. c = view.chat /\ entry.count = V!Cardinality(of(c))
    BY <2>1
  <2> QED BY <2>1, <2>2
<1>2. messageRows \in Seq(V!Rows) /\ DOMAIN messageRows = 1 .. view.known
  BY KnowingView
<1>3. \A k \in DOMAIN messageRows : messageRows[k].chat \in V!Address
  <2> SUFFICES ASSUME NEW k \in DOMAIN messageRows PROVE messageRows[k].chat \in V!Address
    OBVIOUS
  <2>1. messageRows[k] \in V!Rows
    BY <1>2
  <2> QED BY <2>1 DEF V!Rows
<1>4. V!Normalize(view.chat) = view.chat
  <2>1. PICK a \in V!Address : V!Normalize(a) = view.chat
    BY <1>1, <1>3
  <2> QED BY <2>1 DEF V!Normalize, V!Numbered, V!Address
<1>5. \A a \in V!Address : V!Normalize(a) = view.chat /\ a # view.chat =>
        view.chat.form = "pn" /\ a = [view.chat EXCEPT !.form = "lid"]
  BY DEF V!Normalize, V!Numbered, V!Address
<1>6. \A k \in DOMAIN messageRows :
        V!Normalize(messageRows[k].chat) = view.chat <=> messageRows[k].chat = view.chat
  BY <1>3, <1>4, <1>5 DEF V!Split
<1>7. of(view.chat) = V!Opened
  BY <1>2, <1>6 DEF V!Opened
<1> QED BY <1>1, <1>7

LEMMA ShowsTheWhole == ViewInv => V!WholeConversation
<1> SUFFICES ASSUME ViewInv, view # V!None, view.steady, view.loaded, load = V!None, ~view.hasMore,
                    V!Apart
             PROVE  /\ V!ToSet(view.messages) = V!Displayed(V!Opened)
                    /\ \A i, j \in DOMAIN view.messages :
                         i < j => view.messages[i] < view.messages[j]
                    /\ Len(messageRows) = view.known /\ ~V!Split(view.chat) =>
                         \A entry \in V!Chats :
                           entry.chat = view.chat => entry.count = V!Cardinality(V!Opened)
  BY DEF V!WholeConversation
<1>1. V!Loaded
  BY DEF ViewInv, V!PagesInv
<1>2. Len(messageRows) = view.known /\ ~V!Split(view.chat) =>
        \A entry \in V!Chats :
          entry.chat = view.chat => entry.count = V!Cardinality(V!Opened)
  BY ListCounts
<1> QED BY <1>1, <1>2 DEF V!Loaded

LEMMA ViewInvHolds == MessagingSpec => []ViewInv
<1>1. MessagingInit => ViewInv
  BY InitView DEF MessagingInit
<1>2. ViewInv /\ [MessagingNext]_allVars => ViewInv'
  <2>1. [MessagingNext]_allVars => [V!Next]_viewVars
    BY DEF MessagingNext, allVars, viewVars
  <2> QED BY <2>1, NextView
<1> QED BY <1>1, <1>2, PTL DEF MessagingSpec

(* Who scrolls to the end of a chat has been shown every message that it   *)
(* had when it was opened, once and in order, for any number of contacts   *)
(* and of rows and any page size, whatever is stored meanwhile and         *)
(* whichever loads fail; and the list's count agrees.                      *)
THEOREM ChatsAreShownWhole == MessagingSpec => []WholeConversation
<1>1. ViewInv => WholeConversation
  BY ShowsTheWhole DEF WholeConversation
<1> QED BY <1>1, ViewInvHolds, PTL

(***************************************************************************)
(* The types of all parts.                                                 *)
(***************************************************************************)

LEMMA DeliveriesKept == MessagingSpec => []DeliveryInv
<1>1. MessagingInit => DeliveryInv
  BY InitDelivery, Zenon DEF MessagingInit
<1>2. DeliveryInv /\ [MessagingNext]_allVars => DeliveryInv'
  <2>1. [MessagingNext]_allVars => [Next]_vars
    BY Zenon DEF MessagingNext, allVars
  <2> QED BY <2>1, NextDelivery
<1> QED BY <1>1, <1>2, PTL DEF MessagingSpec

(* Every variable of every part keeps its type: deliveries, lists of       *)
(* webhooks (whose slices lie within their arrays, on slots that were      *)
(* written, however edits race), rules, requests that send, the view.      *)
THEOREM TypesAreKept == MessagingSpec => []TypesOK
<1>1. DeliveryInv /\ ListsInv /\ RulesInv /\ SendingInv /\ ViewInv => TypesOK
  BY Zenon DEF TypesOK, DeliveryInv, ListsInv, RulesInv, SendingInv, ViewInv
<1> QED BY <1>1, DeliveriesKept, ListsInvHolds, RulesInvHolds, SendingInvHolds, ViewInvHolds, PTL
=============================================================================
