--------------------------- MODULE MessagingBounds ---------------------------
(***************************************************************************)
(* Values for the constants of WebhookLists, AutoReply, Conversation and   *)
(* Sending, which MCMessaging and MCWebhookLists check them with.          *)
(***************************************************************************)
EXTENDS Integers, Sequences

(***************************************************************************)
(* WebhookLists: two event webhooks, two text webhooks and a command in    *)
(* the file, one more of each kind to add.                                 *)
(***************************************************************************)

Word(w)       == [key |-> w, url |-> "a"]
Event(p, u)   == [key |-> [name |-> p[1], wild |-> p[2]], url |-> u]
Text(i, f, p) == [key |-> [id |-> i, from |-> f, pattern |-> p], url |-> "a"]

AllMessages == <<<<"Message">>, TRUE>>
Images      == <<<<"Message", "Image">>, FALSE>>

StoredHooks ==
  [cmd   |-> <<Word("order")>>,
   event |-> <<Event(AllMessages, "a"), Event(Images, "a")>>,
   text  |-> <<Text(1, "others", "hi"), Text(2, "all", "hi")>>]

AddedHooks ==
  [cmd   |-> {Word("help")},
   event |-> {Event(Images, "b")},
   text  |-> {Text(3, "all", "bye")}]

DispatchedEvents ==
  [cmd   |-> {"help"},
   event |-> {<<"Message", "Image">>},
   text  |-> {[me |-> FALSE, matched |-> {"hi", "bye"}]}]

(***************************************************************************)
(* AutoReply: rules with each kind of condition and of window.             *)
(***************************************************************************)

PlainRule == [enabled |-> TRUE, priority |-> 1, stop |-> FALSE, from |-> "others",
              chat |-> "", sender |-> "", text |-> "", hourFrom |-> -1, hourTo |-> -1,
              count |-> 0]

RuleForms ==
  {[PlainRule EXCEPT !.from = "", !.priority = 2, !.stop = TRUE, !.sender = "s1", !.hourFrom = 22, !.hourTo = 6],
   [PlainRule EXCEPT !.from = "all", !.chat = "c1", !.text = "hi", !.hourFrom = 6, !.hourTo = 22]}

RuleMessages ==
  {[me |-> FALSE, chat |-> "c1", sender |-> "s1", matched |-> {"hi"}],
   [me |-> TRUE, chat |-> "c1", sender |-> "s1", matched |-> {}]}

(***************************************************************************)
(* Conversation: messages with text, with nothing to show, and of a kind   *)
(* the filter leaves out.                                                  *)
(***************************************************************************)

MessageContents ==
  {[typed |-> FALSE, parts |-> {"text"}],
   [typed |-> TRUE, parts |-> {"protocol"}],
   [typed |-> FALSE, parts |-> {"contact"}]}

(***************************************************************************)
(* Sending: one route of each way through the handlers.                    *)
(***************************************************************************)

SendRoutes == {"message", "image", "vote", "raw", "group"}
=============================================================================
