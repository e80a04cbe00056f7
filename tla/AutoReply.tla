------------------------------ MODULE AutoReply ------------------------------
(***************************************************************************)
(* Auto-reply rules: internal/whatsapp/autoreply.go, where every message   *)
(* is held against the rules by a goroutine of its own, and                *)
(* internal/api/autoreply.go, the requests that edit them.                 *)
(***************************************************************************)
EXTENDS Integers, SequencesExt, FiniteSetsExt, Functions

CONSTANTS
  Rules,       (* Record ids of rules.                                      *)
  Forms,       (* What a rule may be, before it was executed.               *)
  Messages,    (* A message: whose, its chat, its sender, its patterns.     *)
  Evaluators,  (* Goroutines; each takes one message.                       *)
  Hours,       (* The hours of the server's clock the model looks at.       *)
  MaxEdits     (* Bound of the model: edits.                                *)

VARIABLES
  rules,         (* The collection auto_reply_rules.                        *)
  eval,          (* What each goroutine is doing.                           *)
  hour,          (* What the clock shows.                                   *)
  shuttingDown,
  ran,           (* History: how often each rule was executed.              *)
  uncertain,     (* History: rules whose count may have missed one.         *)
  edits          (* Edits so far.                                           *)

vars == <<rules, eval, hour, shuttingDown, ran, uncertain, edits>>

Gone == [gone |-> TRUE]
Idle == [step |-> "idle"]
Exists(r) == rules[r] # Gone

Init ==
  /\ rules \in [Rules -> {Gone} \cup Forms]
  /\ eval = [g \in Evaluators |-> Idle]
  /\ hour \in Hours
  /\ shuttingDown = FALSE
  /\ ran = [r \in Rules |-> 0]
  /\ uncertain = {}
  /\ edits = 0

(***************************************************************************)
(* matchesRule.                                                            *)
(***************************************************************************)

FromMatches(from, me) ==
  CASE from = "me" -> me [] from \in {"others", ""} -> ~me [] OTHER -> TRUE

(* Mutant: beyond midnight the window is empty.                            *)
WindowWithoutWrap(from, to, at) ==
  from >= 0 /\ to >= 0 => (from <= at /\ at <= to)

(* -1 at either end is any hour; from > to wraps midnight.                 *)
InWindow(from, to, at) ==
  from >= 0 /\ to >= 0 =>
    IF from <= to THEN ~(at < from \/ at > to) ELSE ~(at < from /\ at > to)

(* A text is the set of the patterns that match it, by prefix, as a whole, *)
(* as a regular expression or as a part; an empty pattern asks for none.   *)
MatchesRule(rule, message, at) ==
  /\ FromMatches(rule.from, message.me)
  /\ rule.chat \in {"", message.chat}
  /\ rule.sender \in {"", message.sender}
  /\ InWindow(rule.hourFrom, rule.hourTo, at)
  /\ rule.text \in {""} \cup message.matched

(***************************************************************************)
(* EvaluateAutoReplyRules.                                                 *)
(***************************************************************************)

(* ORDER BY priority; rules of one priority come in any order.             *)
Ordered(table) ==
  LET enabled == {r \in Rules : table[r] # Gone /\ table[r].enabled}
  IN {list \in SetToSeqs(enabled) :
        \A i, j \in DOMAIN list : i < j => table[list[i]].priority <= table[list[j]].priority}

(* The rules are loaded once.                                              *)
Begin(g) ==
  /\ eval[g] = Idle /\ ~shuttingDown
  /\ \E message \in Messages : \E list \in Ordered(rules) :
       eval' = [eval EXCEPT ![g] =
         [step |-> "scan", message |-> message, list |-> list, next |-> 1,
          table |-> rules, executed |-> <<>>, loaded |-> 0]]
  /\ UNCHANGED <<rules, hour, shuttingDown, ran, uncertain, edits>>

Current(g) == eval[g].list[eval[g].next]
Rule(g)    == eval[g].table[Current(g)]
Ahead(g)   == eval[g].step = "scan" /\ eval[g].next <= Len(eval[g].list)

Skip(g) ==
  /\ Ahead(g) /\ ~MatchesRule(Rule(g), eval[g].message, hour)
  /\ eval' = [eval EXCEPT ![g].next = @ + 1]
  /\ UNCHANGED <<rules, hour, shuttingDown, ran, uncertain, edits>>

(* executeRule: a reply is sent, a webhook called in a goroutine, a        *)
(* command run.  Whatever comes of it, the evaluation goes on.             *)
Execute(g) ==
  /\ Ahead(g) /\ MatchesRule(Rule(g), eval[g].message, hour)
  /\ LET e == eval[g]
     IN eval' = [eval EXCEPT ![g] =
          [e EXCEPT !.step = "load", !.executed = Append(e.executed, Current(g))]]
  /\ ran' = [ran EXCEPT ![Current(g)] = @ + 1]
  /\ UNCHANGED <<rules, hour, shuttingDown, uncertain, edits>>

(* After the count the evaluation ends or takes the next rule.             *)
GoOn(g) ==
  LET e == eval[g]
  IN eval' = [eval EXCEPT ![g] =
       IF Rule(g).stop THEN [e EXCEPT !.step = "end"]
       ELSE [e EXCEPT !.step = "scan", !.next = e.next + 1]]

(* Others are about to count the same rule.                                *)
Counting(r) == {g \in Evaluators : eval[g] # Idle /\ eval[g].step = "save" /\ Current(g) = r}

(* Mutant: a rule that ends the evaluation is not counted.                 *)
LoadUnlessStop(g) ==
  /\ eval[g] # Idle /\ eval[g].step = "load"
  /\ IF shuttingDown \/ ~Exists(Current(g)) \/ Rule(g).stop
     THEN GoOn(g) /\ UNCHANGED uncertain
     ELSE /\ eval' = [eval EXCEPT ![g] =
               [eval[g] EXCEPT !.step = "save", !.loaded = rules[Current(g)].count]]
          /\ uncertain' = IF Counting(Current(g)) = {} THEN uncertain
                          ELSE uncertain \cup {Current(g)}
  /\ UNCHANGED <<rules, hour, shuttingDown, ran, edits>>

(* incrementMatchCount loads the rule, unless the program is stopping or   *)
(* the rule is gone ...                                                    *)
CountLoad(g) ==
  /\ eval[g] # Idle /\ eval[g].step = "load"
  /\ IF shuttingDown \/ ~Exists(Current(g))
     THEN GoOn(g) /\ uncertain' = uncertain \cup {Current(g)}
     ELSE /\ eval' = [eval EXCEPT ![g] =
               [eval[g] EXCEPT !.step = "save", !.loaded = rules[Current(g)].count]]
          /\ uncertain' = IF Counting(Current(g)) = {} THEN uncertain
                          ELSE uncertain \cup {Current(g)}
  /\ UNCHANGED <<rules, hour, shuttingDown, ran, edits>>

(* ... and saves one more, and only that.  Saving may fail.                *)
CountSave(g) ==
  LET r == Current(g)
  IN /\ eval[g] # Idle /\ eval[g].step = "save"
     /\ \/ /\ rules' = IF Exists(r) THEN [rules EXCEPT ![r].count = eval[g].loaded + 1] ELSE rules
           /\ UNCHANGED uncertain
        \/ uncertain' = uncertain \cup {r} /\ UNCHANGED rules
     /\ GoOn(g)
     /\ UNCHANGED <<hour, shuttingDown, ran, edits>>

Leave(g) ==
  /\ eval[g] # Idle /\ eval[g].step = "scan" /\ ~Ahead(g)
  /\ eval' = [eval EXCEPT ![g].step = "end"]
  /\ UNCHANGED <<rules, hour, shuttingDown, ran, uncertain, edits>>

(***************************************************************************)
(* Requests.                                                               *)
(***************************************************************************)

Count == edits < MaxEdits /\ edits' = edits + 1

(* postAutoReplyRule says whom a rule that does not say so is for; the     *)
(* hours of a rule that names none are both 0.                             *)
Post(r) ==
  /\ Count /\ ~Exists(r) /\ ran[r] = 0
  /\ \E form \in Forms : rules' = [rules EXCEPT ![r] =
       [form EXCEPT !.from = IF form.from = "" THEN "others" ELSE form.from]]
  /\ UNCHANGED <<eval, hour, shuttingDown, ran, uncertain>>

(* patchAutoReplyRule sets any field but the count.                        *)
Patch(r) ==
  /\ Count /\ Exists(r)
  /\ \E form \in Forms : rules' = [rules EXCEPT ![r] = [form EXCEPT !.count = rules[r].count]]
  /\ UNCHANGED <<eval, hour, shuttingDown, ran, uncertain>>

Toggle(r) ==
  /\ Count /\ Exists(r)
  /\ rules' = [rules EXCEPT ![r].enabled = ~@]
  /\ UNCHANGED <<eval, hour, shuttingDown, ran, uncertain>>

Delete(r) ==
  /\ Count /\ Exists(r)
  /\ rules' = [rules EXCEPT ![r] = Gone]
  /\ UNCHANGED <<eval, hour, shuttingDown, ran, uncertain>>

ShutDown ==
  /\ ~shuttingDown /\ shuttingDown' = TRUE
  /\ UNCHANGED <<rules, eval, hour, ran, uncertain, edits>>

(***************************************************************************)
(* The specification.                                                      *)
(***************************************************************************)

Evaluate(g) ==
  Begin(g) \/ Skip(g) \/ Execute(g) \/ CountLoad(g) \/ CountSave(g) \/ Leave(g)

Next == \/ \E g \in Evaluators : Evaluate(g)
        \/ \E r \in Rules : Post(r) \/ Patch(r) \/ Toggle(r) \/ Delete(r)
        \/ ShutDown

Spec == Init /\ [][Next]_vars

(***************************************************************************)
(* Properties.                                                             *)
(***************************************************************************)

Rows == [enabled : BOOLEAN, priority : Int, stop : BOOLEAN, from : {"all", "others", "me", ""},
         chat : STRING, sender : STRING, text : STRING, hourFrom : -1 .. 23, hourTo : -1 .. 23,
         count : Nat]

Tables == [Rules -> {Gone} \cup Rows]

Stages == {"scan", "load", "save", "end"}

Evaluations == [step : Stages, message : Messages, list : Seq(Rules), next : Nat \ {0},
                table : Tables, executed : Seq(Rules), loaded : Nat]

TypeOK ==
  /\ rules \in Tables
  /\ eval \in [Evaluators -> {Idle} \cup Evaluations]
  /\ hour \in Hours /\ shuttingDown \in BOOLEAN
  /\ ran \in [Rules -> Nat] /\ uncertain \subseteq Rules
  /\ edits \in 0 .. MaxEdits

(* The hours from one to another on a clock's face.                        *)
Around(from, to) == {(from + k) % 24 : k \in 0 .. (to - from) % 24}

(* What the documents say a rule asks for.                                 *)
Wants(rule, message) ==
  /\ rule.from = "all" \/ rule.from \in IF message.me THEN {"me"} ELSE {"others", ""}
  /\ rule.chat # "" => rule.chat = message.chat
  /\ rule.sender # "" => rule.sender = message.sender
  /\ rule.text # "" => rule.text \in message.matched
  /\ rule.hourFrom = -1 \/ rule.hourTo = -1 \/ hour \in Around(rule.hourFrom, rule.hourTo)

(* A message has executed the rules that were enabled when it came and     *)
(* want it, each once and in the order of their priorities, up to the      *)
(* first that stops: whatever requests do to the rules meanwhile, and      *)
(* whatever becomes of the actions and the counts.                         *)
RulesInOrder ==
  \A g \in Evaluators : eval[g].step = "end" =>
    LET table  == eval[g].table
        done   == eval[g].executed
        wanted == {r \in Rules : table[r] # Gone /\ table[r].enabled /\ Wants(table[r], eval[g].message)}
    IN /\ ToSet(done) \subseteq wanted /\ IsInjective(done)
       /\ \A i, j \in DOMAIN done : i < j =>
            /\ table[done[i]].priority <= table[done[j]].priority
            /\ ~table[done[i]].stop
       /\ \A r \in wanted \ ToSet(done) :
            /\ done # <<>> /\ table[Last(done)].stop
            /\ table[Last(done)].priority <= table[r].priority

(* What makes it so: of the rules it has passed an evaluation has executed *)
(* those that match, in the order of the list, and none after one that     *)
(* stops.                                                                  *)
Passed(e) == {p \in DOMAIN e.list : p < e.next \/ (p = e.next /\ e.step # "scan")}

InOrder(e, at) ==
  /\ e.list \in Ordered(e.table) /\ e.next <= Len(e.list) + 1
  /\ \A i \in DOMAIN e.executed : \E p \in Passed(e) :
       e.list[p] = e.executed[i] /\ MatchesRule(e.table[e.list[p]], e.message, at)
  /\ \A p \in Passed(e) : MatchesRule(e.table[e.list[p]], e.message, at) =>
       \E i \in DOMAIN e.executed : e.executed[i] = e.list[p]
  /\ \A i, j \in DOMAIN e.executed : \A p, q \in DOMAIN e.list :
       i < j /\ e.list[p] = e.executed[i] /\ e.list[q] = e.executed[j] => p < q
  /\ \A i \in DOMAIN e.executed : e.table[e.executed[i]].stop =>
       i = Len(e.executed) /\ e.step # "scan"
  /\ e.step # "scan" /\ e.next <= Len(e.list) =>
       e.executed # <<>> /\ Last(e.executed) = e.list[e.next]
  /\ e.step \in {"load", "save"} => e.next <= Len(e.list)
  /\ e.step = "end" /\ e.next <= Len(e.list) => e.table[e.list[e.next]].stop

ScanInv == \A g \in Evaluators : eval[g] # Idle => InOrder(eval[g], hour)

(* A rule's count is how often it was executed, unless two messages        *)
(* counted it at the same time, saving failed or the program was stopping; *)
(* and it is never more.                                                   *)
Due(r) == {g \in Evaluators : eval[g].step \in {"load", "save"} /\ Current(g) = r}

CountsExecutions ==
  \A r \in Rules : Exists(r) =>
    /\ rules[r].count <= ran[r]
    /\ r \notin uncertain => rules[r].count + Cardinality(Due(r)) = ran[r]

(* What makes it so: whoever has still to count was counted in "ran", and  *)
(* so were those that counted before it loaded.                            *)
CountInv ==
  \A r \in Rules :
    /\ Cardinality(Due(r)) <= ran[r]
    /\ Exists(r) => rules[r].count + Cardinality(Due(r)) <= ran[r]
    /\ \A g \in Counting(r) :
         /\ eval[g].loaded + Cardinality(Due(r)) <= ran[r]
         /\ r \notin uncertain => Counting(r) = {g} /\ (Exists(r) => eval[g].loaded = rules[r].count)
    /\ Exists(r) /\ r \notin uncertain => rules[r].count + Cardinality(Due(r)) = ran[r]
=============================================================================
