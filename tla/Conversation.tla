---------------------------- MODULE Conversation ----------------------------
(***************************************************************************)
(* The conversation view: internal/api/conversation.go, which lists chats  *)
(* and answers pages of one of them out of the collection events, the page *)
(* that asks for them (pb_public/js/sections/conversation.js), and what    *)
(* internal/api/lidmigration.go does to the rows under it.  A contact's    *)
(* messages may be stored under its number or, as long as no number is     *)
(* known for it, under its LID.                                            *)
(***************************************************************************)
EXTENDS Naturals, SequencesExt, FiniteSetsExt

CONSTANTS
  Contacts,
  Contents,    (* What a message may be: its event type and its parts.      *)
  PageSize,    (* limit.                                                    *)
  MaxRows,     (* Bound of the model: rows.                                 *)
  MaxTime      (* Bound of the model: milliseconds.                         *)

VARIABLES
  rows,        (* The rows of events, in the order they were stored.        *)
  lidMap,      (* whatsmeow_lid_map: contacts whose number is known.        *)
  view,        (* The state of the page: cvSelectedChat, cvMessages, ...    *)
  call         (* The request under way (cvMsgLoading), or none.            *)

vars == <<rows, lidMap, view, call>>

None      == [state |-> "none"]
NoCursor  == MaxTime + 1  (* Later than any row.                            *)
Address   == [who : Contacts, form : {"pn", "lid"}]
Numbered(a) == [a EXCEPT !.form = "pn"]

(* normalizeLIDJID, and normalizeLID before a row is stored.               *)
Normalize(a) == IF a.who \in lidMap THEN Numbered(a) ELSE a

Init ==
  /\ rows = <<>>
  /\ lidMap = {}
  /\ view = None
  /\ call = None

(***************************************************************************)
(* What a row shows.                                                       *)
(***************************************************************************)

(* contentFilter leaves out key exchange and sync; it does not know every  *)
(* part that detectMsgType does.                                           *)
Shown == {"text", "reaction", "revoke", "edit", "media", "location"}

ContentFilter(content) == content.typed \/ content.parts \cap Shown # {}

(* detectMsgType tries the parts in this order; a protocol message that is *)
(* neither a deletion nor an edit is skipped, like one with no known part. *)
Order == <<"text", "revoke", "edit", "protocol", "reaction", "media", "location",
           "contact", "poll">>

DetectMsgType(content) ==
  LET known == SelectSeq(Order, LAMBDA part : part \in content.parts)
  IN IF known = <<>> \/ Head(known) = "protocol" THEN "skip" ELSE Head(known)

(***************************************************************************)
(* The server.                                                             *)
(***************************************************************************)

Min2(a, b) == IF a < b THEN a ELSE b

(* The message rows of a chat before a moment.                             *)
Before(chat, moment) ==
  {i \in DOMAIN rows : /\ rows[i].chat = chat /\ ContentFilter(rows[i].content)
                       /\ rows[i].created < moment}

(* The newest of them that a page has room for; rows of one millisecond    *)
(* come in any order.                                                      *)
Newest(mine) ==
  {page \in SUBSET mine :
     /\ Cardinality(page) = Min2(PageSize, Cardinality(mine))
     /\ \A i \in page : \A j \in mine \ page : rows[j].created <= rows[i].created}

Displayed(page) == {i \in page : DetectMsgType(rows[i].content) # "skip"}

NewestFirst(shown) ==
  {list \in SetToSeqs(shown) :
     \A i, j \in DOMAIN list : i < j => rows[list[j]].created <= rows[list[i]].created}

(* One row more than the page has room for tells that there is more; the   *)
(* cursor is that of the last message that is shown.                       *)
Answer(mine, list) ==
  [messages |-> list,
   hasMore  |-> Cardinality(mine) > PageSize,
   before   |-> IF list = <<>> THEN NoCursor ELSE rows[Last(list)].created]

Answers(mine) ==
  {Answer(mine, list) :
     list \in UNION {NewestFirst(Displayed(page)) : page \in Newest(mine)}}

(* Mutant: a page begins with the row the one before ended with.           *)
PagesInclusive(chat, before) == Answers(Before(chat, before + 1))

(* getConversation.                                                        *)
Pages(chat, before) == Answers(Before(chat, before))

(* getConversationChats counts the rows of each chat, and adds up the      *)
(* chats that are one contact.                                             *)
Chats ==
  LET content == {i \in DOMAIN rows : ContentFilter(rows[i].content)}
      of(chat) == {i \in content : Normalize(rows[i].chat) = chat}
  IN {[chat |-> c, count |-> Cardinality(of(c)), last |-> Max({rows[i].created : i \in of(c)})] :
        c \in {Normalize(rows[i].chat) : i \in content}}

(* A message is stored, no earlier than the ones before it.                *)
Save ==
  /\ Len(rows) < MaxRows
  /\ \E a \in Address, content \in Contents, now \in 0 .. MaxTime :
       /\ \A i \in DOMAIN rows : rows[i].created <= now
       /\ rows' = Append(rows, [chat |-> Normalize(a), created |-> now, content |-> content])
  /\ UNCHANGED <<lidMap, view, call>>

(* whatsmeow learns a contact's number.                                    *)
Learn ==
  /\ \E c \in Contacts \ lidMap : lidMap' = lidMap \cup {c}
  /\ UNCHANGED <<rows, view, call>>

(* runLIDMigration, at the start of the program.                           *)
Migrate ==
  /\ rows' = [i \in DOMAIN rows |-> [rows[i] EXCEPT !.chat = Normalize(@)]]
  /\ rows' # rows
  /\ view' = IF view = None THEN None ELSE [view EXCEPT !.steady = FALSE]
  /\ UNCHANGED <<lidMap, call>>

(***************************************************************************)
(* The page.                                                               *)
(***************************************************************************)

Asking(chat, before) == [chat |-> chat, before |-> before]

(* cvSelectChat; cvLoadMessages does nothing while another load runs.      *)
Select(chat) ==
  /\ view' = [chat |-> chat, messages |-> <<>>, hasMore |-> FALSE, before |-> NoCursor,
              loaded |-> FALSE, known |-> 0, steady |-> call = None]
  /\ call' = IF call = None THEN Asking(chat, NoCursor) ELSE call
  /\ UNCHANGED <<rows, lidMap>>

(* cvLoadMore.                                                             *)
LoadMore ==
  /\ view # None /\ call = None /\ view.hasMore /\ view.before # NoCursor
  /\ call' = Asking(view.chat, view.before)
  /\ UNCHANGED <<rows, lidMap, view>>

(* The server's answer goes to whatever chat is selected by now.  What is  *)
(* stored between the query and its arrival is as if stored after it.      *)
Receive ==
  /\ call # None
  /\ \E page \in Pages(call.chat, call.before) :
       LET older == Reverse(page.messages)
           first == call.before = NoCursor
       IN view' = [view EXCEPT
            !.messages = IF first THEN older ELSE older \o @,
            !.hasMore = page.hasMore, !.before = page.before, !.loaded = TRUE,
            !.known = IF first THEN Len(rows) ELSE @]
  /\ call' = None
  /\ UNCHANGED <<rows, lidMap>>

(* An error is shown; what was there stays.                                *)
Fail ==
  /\ call # None /\ call' = None
  /\ UNCHANGED <<rows, lidMap, view>>

Next == \/ Save \/ Learn \/ Migrate
        \/ \E chat \in Address : Select(chat)
        \/ LoadMore \/ Receive \/ Fail

Spec == Init /\ [][Next]_vars

(***************************************************************************)
(* Properties.                                                             *)
(***************************************************************************)

Rows  == [chat : Address, created : 0 .. MaxTime, content : Contents]
Loads == [chat : Address, before : 0 .. NoCursor]
Views == [chat : Address, messages : Seq(Nat), hasMore : BOOLEAN, before : 0 .. NoCursor,
          loaded : BOOLEAN, known : Nat, steady : BOOLEAN]

(* The type invariant: what is shown was stored.                           *)
TypeOK ==
  /\ rows \in Seq(Rows) /\ Len(rows) <= MaxRows /\ lidMap \subseteq Contacts
  /\ call = None \/ call \in Loads
  /\ view = None \/ /\ view \in Views /\ view.known <= Len(rows)
                    /\ ToSet(view.messages) \subseteq DOMAIN rows

(* The message rows of a chat that were stored when it was opened.         *)
Opened == {i \in 1 .. view.known :
            rows[i].chat = view.chat /\ ContentFilter(rows[i].content)}

Apart == \A i, j \in Opened : rows[i].created = rows[j].created => i = j

(* Some of the contact's messages are still under its LID.                 *)
Split(chat) == chat.form = "pn" /\ \E i \in DOMAIN rows : rows[i].chat = [chat EXCEPT !.form = "lid"]

(* Who scrolls to the end of a chat has been shown every message that it   *)
(* had when it was opened, once and in order, whatever is stored meanwhile *)
(* and whichever loads fail; and the list's count agrees with that.  This  *)
(* is for rows with a millisecond each, a chat opened while nothing was    *)
(* loading, and no migration meanwhile.                                    *)
WholeConversation ==
  view # None /\ view.steady /\ view.loaded /\ call = None /\ ~view.hasMore /\ Apart
    => /\ ToSet(view.messages) = Displayed(Opened)
       /\ \A i, j \in DOMAIN view.messages : i < j => view.messages[i] < view.messages[j]
       /\ Len(rows) = view.known /\ ~Split(view.chat) =>
            \A entry \in Chats :
              entry.chat = view.chat => entry.count = Cardinality(Opened)

(* What makes it so: rows are in the order of their times, and the page    *)
(* shows what was stored since its cursor and before the chat was opened.  *)
InTime == \A i, j \in DOMAIN rows : i < j => rows[i].created <= rows[j].created

Since(cursor) == {i \in Displayed(Opened) : cursor <= rows[i].created}

Unloaded == view.messages = <<>> /\ ~view.hasMore /\ call \in {None, Asking(view.chat, NoCursor)}

Loaded ==
  /\ call # None => /\ call = Asking(view.chat, view.before)
                    /\ view.hasMore /\ view.before # NoCursor
  /\ view.hasMore /\ view.before # NoCursor =>
       \E i \in Displayed(Opened) : rows[i].created = view.before
  /\ Apart =>
       /\ \A i, j \in DOMAIN view.messages : i < j => view.messages[i] < view.messages[j]
       /\ ~view.hasMore => ToSet(view.messages) = Displayed(Opened)
       /\ view.hasMore /\ view.before # NoCursor => ToSet(view.messages) = Since(view.before)

PagesInv ==
  /\ InTime
  /\ call # None => view # None
  /\ view # None /\ view.steady => IF view.loaded THEN Loaded ELSE Unloaded
=============================================================================
