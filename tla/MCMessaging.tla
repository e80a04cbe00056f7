----------------------------- MODULE MCMessaging -----------------------------
(***************************************************************************)
(* What messages set off and what requests do with them, in one run: the   *)
(* delivery of webhooks, the lists of webhooks, auto-reply rules, requests *)
(* that send, the conversation view.  They share no state: "part" says     *)
(* which of them a behaviour is about, and the variables of the others     *)
(* keep their first values.                                                *)
(***************************************************************************)
EXTENDS WebhookDelivery, MessagingBounds

CONSTANTS
  Editors, Walkers, Stored, Additions, Dispatches, MaxEdits,
                                                     (* For WebhookLists,   *)
  Rules, Forms, Messages, Evaluators, Hours, MaxRuleEdits,
                                                     (* AutoReply,          *)
  Calls, Routes, MaxRestarts,                        (* Sending             *)
  Contacts, Contents, PageSize, MaxRows, MaxTime     (* and Conversation.   *)

VARIABLES
  part,
  memory, list, file, edit, walk, edits,
  rules, eval, hour, shuttingDown, ran, uncertain, ruleEdits,
  call, server, sentRows, audit, ending, restarts,
  messageRows, lidMap, view, load

listVars == <<memory, list, file, edit, walk, edits>>
ruleVars == <<rules, eval, hour, shuttingDown, ran, uncertain, ruleEdits>>
sendVars == <<call, server, sentRows, audit, ending, restarts>>
viewVars == <<messageRows, lidMap, view, load>>
allVars  == <<part, vars, listVars, ruleVars, sendVars, viewVars>>

L == INSTANCE WebhookLists

R == INSTANCE AutoReply WITH MaxEdits <- MaxRuleEdits, edits <- ruleEdits

S == INSTANCE Sending WITH rows <- sentRows, stopping <- ending

V == INSTANCE Conversation WITH rows <- messageRows, call <- load

(* Rules and goroutines are finitely many; a rule has fields as the        *)
(* collection's comments give them, and begins without a count.            *)
ASSUME RulesAssumption ==
  /\ IsFiniteSet(Rules) /\ IsFiniteSet(Evaluators)
  /\ Hours \subseteq 0 .. 23 /\ MaxRuleEdits \in Nat
  /\ Forms \subseteq R!Rows /\ \A form \in Forms : form.count = 0
  /\ \A message \in Messages : message.me \in BOOLEAN

(* A bound is a number.                                                    *)
ASSUME SendingAssumption == MaxRestarts \in Nat

(* A page has room for a message; bounds are numbers.                      *)
ASSUME ViewAssumption == PageSize \in Nat \ {0} /\ MaxRows \in Nat /\ MaxTime \in Nat

(* Hooks are what the types of webhook.go describe; an event is a sequence *)
(* of names.                                                               *)
ASSUME HooksAssumption ==
  /\ Stored = [k \in L!Kinds |-> Stored[k]]
  /\ \A k \in L!Kinds : Stored[k] \in Seq(L!Hook(k)) /\ Additions[k] \subseteq L!Hook(k)
  /\ Dispatches["event"] \subseteq Seq(STRING)
  /\ \A event \in Dispatches["text"] : event.me \in BOOLEAN
  /\ MaxEdits \in Nat

(* The first values of the parts a behaviour is not about.                 *)
MessagingInit ==
  /\ part \in {"delivery", "lists", "rules", "sending", "view"}
  /\ Init /\ L!Init /\ R!Init /\ S!Init /\ V!Init
  /\ part # "delivery" => \A s \in Slots : url[s] = NoUrl
  /\ part # "lists" => \A k \in L!Kinds : memory[k] = <<Stored[k]>>
  /\ part # "rules" => \A r \in Rules : ~R!Exists(r)

MessagingNext ==
  /\ part' = part
  /\ \/ part = "delivery" /\ Next /\ UNCHANGED <<listVars, ruleVars, sendVars, viewVars>>
     \/ part = "lists" /\ L!Next /\ UNCHANGED <<vars, ruleVars, sendVars, viewVars>>
     \/ part = "rules" /\ R!Next /\ UNCHANGED <<vars, listVars, sendVars, viewVars>>
     \/ part = "sending" /\ S!Next /\ UNCHANGED <<vars, listVars, ruleVars, viewVars>>
     \/ part = "view" /\ V!Next /\ UNCHANGED <<vars, listVars, ruleVars, sendVars>>

MessagingSpec == MessagingInit /\ [][MessagingNext]_allVars

(* Every variable of every part keeps its type.                            *)
TypesOK == TypeOK /\ L!TypeOK /\ R!TypeOK /\ S!TypeOK /\ V!TypeOK

(* internal/webhook: an edit of a list that no other edit of the same list *)
(* overlaps leaves the list it was asked for, whatever walks it.           *)
LoneEditTakesEffect == L!LoneEditTakesEffect

(* internal/webhook: a dispatch that no removal from its list overlaps,    *)
(* and no addition that undoes another, calls each webhook that matched    *)
(* when it began, once and in order; of commands, the first.               *)
EachMatchOnce == L!EachMatchOnce

(* EvaluateAutoReplyRules: a message executes the rules that want it, once *)
(* each, by priority, up to the first that stops.                          *)
RulesInOrder == R!RulesInOrder

(* incrementMatchCount: a count is the number of executions, unless two    *)
(* messages counted at a time, saving failed or the program was stopping.  *)
CountsExecutions == R!CountsExecutions

(* postSend*, patchGroup, sendMessage: what a request was answered tells   *)
(* what the server did for it and which row it left.                       *)
AnswerTellsFate == S!AnswerTellsFate

(* getConversation and cvLoadMore: who scrolls to the end of a chat has    *)
(* been shown all of it, once and in order.                                *)
WholeConversation == V!WholeConversation
=============================================================================
