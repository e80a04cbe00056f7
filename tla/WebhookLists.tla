---------------------------- MODULE WebhookLists ----------------------------
(***************************************************************************)
(* The configured webhooks of internal/webhook/webhook.go: the lists of    *)
(* command, event and text webhooks, the requests that edit them, the      *)
(* goroutines that walk them for an event, and webhook.json.               *)
(*                                                                         *)
(* A list is a Go slice: an array, shared by all who read the list, and a  *)
(* length.  Nothing is locked.  A walk keeps the array and the length it   *)
(* began with; an edit writes one element, or the list itself, at a time.  *)
(* The words of one element are read and written together here.            *)
(***************************************************************************)
EXTENDS Integers, SequencesExt

CONSTANTS
  Editors,     (* Goroutines that edit: API requests, chat commands.        *)
  Walkers,     (* Goroutines that dispatch; each walks one list.            *)
  Stored,      (* webhook.json at the start: a sequence for each kind.      *)
  Additions,   (* What requests may add: for each kind, a set of hooks.     *)
  Dispatches,  (* What may be dispatched: for each kind, a set of events.   *)
  MaxEdits     (* Bound of the model: edits.                                *)

Kinds == {"cmd", "event", "text"}

(* A hook has a key and a url.  The key of a command webhook is a word, of *)
(* an event webhook a pattern, of a text webhook an id with its filters.   *)
Hook(kind) ==
  [key : CASE kind = "cmd"   -> STRING
           [] kind = "event" -> [name : Seq(STRING), wild : BOOLEAN]
           [] kind = "text"  -> [id : Nat, from : {"all", "me", "others"}, pattern : STRING],
   url : STRING]

VARIABLES
  memory,    (* Arrays, never reused: [kind -> sequence of arrays].         *)
  list,      (* The slice of each kind: which array, and the length.        *)
  file,      (* What webhook.json holds.                                    *)
  edit,      (* What each editor is doing.                                  *)
  walk,      (* What each walker is doing.                                  *)
  edits      (* Edits so far.                                               *)

vars == <<memory, list, file, edit, walk, edits>>

Free    == [op |-> "free"]
NoSlice == [array |-> 1, len |-> 0]

At(kind, slice) == SubSeq(memory[kind][slice.array], 1, slice.len)
Hooks(kind)     == At(kind, list[kind])
Config          == [k \in Kinds |-> Hooks(k)]

Keys(hooks) == [i \in DOMAIN hooks |-> hooks[i].key]

(* One element is written.                                                 *)
Put(kind, array, i, hook) == [memory EXCEPT ![kind][array][i] = hook]

(* Arrays read from the file may have a slot to spare.                     *)
Spare == [spare |-> TRUE]

Init ==
  /\ \E spare \in [Kinds -> {<<>>, <<Spare>>}] :
       memory = [k \in Kinds |-> <<Stored[k] \o spare[k]>>]
  /\ list = [k \in Kinds |-> [array |-> 1, len |-> Len(Stored[k])]]
  /\ file = Stored
  /\ edit = [q \in Editors |-> Free]
  /\ walk = [w \in Walkers |-> Free]
  /\ edits = 0

(***************************************************************************)
(* What a hook asks for.                                                   *)
(***************************************************************************)

(* A type is the sequence of its dotted names; a pattern "X.*" is wild.    *)
MatchesEventType(pattern, type) ==
  \/ ~pattern.wild /\ pattern.name = type
  \/ pattern.wild /\ IsPrefix(pattern.name, type)

MatchesFrom(from, isFromMe) ==
  CASE from = "me" -> isFromMe [] from = "others" -> ~isFromMe [] OTHER -> TRUE

(* A text is the set of the patterns it matches.                           *)
Matches(kind, key, event) ==
  CASE kind = "cmd"   -> key = event
    [] kind = "event" -> MatchesEventType(key, event)
    [] kind = "text"  -> MatchesFrom(key.from, event.me) /\ key.pattern \in event.matched

(***************************************************************************)
(* Editing.                                                                *)
(***************************************************************************)

Editing(kind) == {q \in Editors : edit[q] # Free /\ edit[q].kind = kind}

(* An edit that begins is alone if no other edits the list; the others no  *)
(* longer are.  "expected" is the list it should leave.                    *)
Begin(q, k, op, hook, at, expected) ==
  /\ edits < MaxEdits /\ edits' = edits + 1
  /\ edit' = [p \in Editors |->
       IF p = q THEN [op |-> op, kind |-> k, hook |-> hook, at |-> at, slice |-> NoSlice,
                      expected |-> expected, alone |-> Editing(k) = {}]
       ELSE IF p \in Editing(k) THEN [edit[p] EXCEPT !.alone = FALSE]
       ELSE edit[p]]
  /\ UNCHANGED <<memory, list, file, walk>>

Proceed(q, op) == edit' = [edit EXCEPT ![q].op = op]

(* An edit goes on with a slice in hand.                                   *)
Holding(e, op, slice) == [e EXCEPT !.op = op, !.slice = slice]

(* Adding looks for the key first.  A command that has a webhook is        *)
(* refused, an event type gets the new URL; ids of texts are random.       *)
AddHook(q) ==
  /\ edit[q] = Free
  /\ \E k \in Kinds : \E hook \in Additions[k] :
       LET same == {i \in DOMAIN Hooks(k) : Hooks(k)[i].key = hook.key}
       IN \/ /\ same = {}
             /\ Begin(q, k, "append", hook, 1, Append(Hooks(k), hook))
          \/ /\ k = "event"
             /\ \E i \in same :
                  /\ \A j \in same : i <= j
                  /\ Begin(q, k, "replace", hook, i, ReplaceAt(Hooks(k), i, hook))

(* append: into the next slot of the array, or into a larger array ...     *)
AppendHook(q) ==
  LET k    == edit[q].kind
      old  == list[k]
      room == old.len < Len(memory[k][old.array])
      into == [array |-> IF room THEN old.array ELSE Len(memory[k]) + 1, len |-> old.len + 1]
  IN /\ edit[q].op = "append"
     /\ memory' =
          IF room THEN Put(k, old.array, old.len + 1, edit[q].hook)
          ELSE [memory EXCEPT ![k] =
            Append(@, Append(Hooks(k), edit[q].hook) \o [i \in 1 .. old.len - 1 |-> Spare])]
     /\ edit' = [edit EXCEPT ![q] = Holding(@, "assign", into)]
     /\ UNCHANGED <<list, file, walk, edits>>

(* A walk of the list no longer knows what is registered, or its slice may *)
(* be written to.                                                          *)
Tear(k) ==
  walk' = [w \in Walkers |->
    IF walk[w] # Free /\ walk[w].kind = k THEN [walk[w] EXCEPT !.torn = TRUE] ELSE walk[w]]

(* ... and the list is assigned.  If it is not the one that was appended   *)
(* to any more, the list may lose what others appended.                    *)
Assign(q) ==
  LET k == edit[q].kind
  IN /\ edit[q].op = "assign"
     /\ list' = [list EXCEPT ![k] = edit[q].slice]
     /\ IF IsPrefix(Keys(Hooks(k)), Keys(At(k, edit[q].slice))) THEN UNCHANGED walk ELSE Tear(k)
     /\ Proceed(q, "write")
     /\ UNCHANGED <<memory, file, edits>>

(* A list that has become shorter makes the request panic.                 *)
Replace(q) ==
  LET k == edit[q].kind
  IN /\ edit[q].op = "replace"
     /\ IF edit[q].at <= list[k].len
        THEN /\ memory' = Put(k, list[k].array, edit[q].at,
                          [memory[k][list[k].array][edit[q].at] EXCEPT !.url = edit[q].hook.url])
             /\ Proceed(q, "write")
        ELSE /\ edit' = [edit EXCEPT ![q] = Free]
             /\ UNCHANGED memory
     /\ UNCHANGED <<list, file, walk, edits>>

RemoveHook(q) ==
  /\ edit[q] = Free
  /\ \E k \in Kinds : \E i \in DOMAIN Hooks(k) :
       /\ \A j \in 1 .. i - 1 : Hooks(k)[j].key # Hooks(k)[i].key
       /\ Begin(q, k, "cut", Spare, i, RemoveAt(Hooks(k), i))

(* Mutant: the element is taken to be where it was found.                  *)
CutBlindly(q) ==
  LET k == edit[q].kind
  IN /\ edit[q].op = "cut"
     /\ edit' = [edit EXCEPT ![q] = Holding(@, "shift", list[k])]
     /\ Tear(k)
     /\ UNCHANGED <<memory, list, file, edits>>

(* append(list[:i], list[i+1:]...) reads the list again; it panics if the  *)
(* list has become too short.                                              *)
Cut(q) ==
  LET k == edit[q].kind
  IN /\ edit[q].op = "cut"
     /\ IF edit[q].at <= list[k].len
        THEN /\ edit' = [edit EXCEPT ![q] = Holding(@, "shift", list[k])]
             /\ Tear(k)
        ELSE /\ edit' = [edit EXCEPT ![q] = Free]
             /\ UNCHANGED walk
     /\ UNCHANGED <<memory, list, file, edits>>

(* Mutant: the removed element is overwritten by the last one.             *)
ShiftLast(q) ==
  LET k == edit[q].kind
      s == edit[q].slice
      i == edit[q].at
  IN /\ edit[q].op = "shift" /\ i < s.len
     /\ memory' = Put(k, s.array, i, memory[k][s.array][s.len])
     /\ edit' = [edit EXCEPT ![q].at = s.len]
     /\ UNCHANGED <<list, file, walk, edits>>

(* The elements behind the removed one move up, one after the other, in    *)
(* the array that walkers are reading ...                                  *)
Shift(q) ==
  LET k == edit[q].kind
      s == edit[q].slice
      i == edit[q].at
  IN /\ edit[q].op = "shift" /\ i < s.len
     /\ memory' = Put(k, s.array, i, memory[k][s.array][i + 1])
     /\ edit' = [edit EXCEPT ![q].at = i + 1]
     /\ UNCHANGED <<list, file, walk, edits>>

(* ... and the shorter list is assigned.                                   *)
Shorten(q) ==
  LET s == edit[q].slice
  IN /\ edit[q].op = "shift" /\ edit[q].at = s.len
     /\ list' = [list EXCEPT ![edit[q].kind] = [array |-> s.array, len |-> s.len - 1]]
     /\ Proceed(q, "write")
     /\ UNCHANGED <<memory, file, walk, edits>>

(* The fields of Config that encoding/json visits: OnDelivery is exported  *)
(* and has no tag that hides it.                                           *)
Fields == [CmdWebhooks |-> "slice", EventWebhooks |-> "slice", TextWebhooks |-> "slice",
           DefaultWebhook |-> "struct", ErrorWebhook |-> "struct", OnDelivery |-> "func"]

(* encoding/json returns an error for a value it has no encoding for.      *)
Marshals == \A f \in DOMAIN Fields : Fields[f] \notin {"func", "chan"}

(* writeConfig: the request is answered with its error, and what it        *)
(* changed in memory stays changed.  Writing the file may fail, too.       *)
WriteConfig(q) ==
  /\ edit[q].op = "write"
  /\ file' \in IF Marshals THEN {file, Config} ELSE {file}
  /\ edit' = [edit EXCEPT ![q] = Free]
  /\ UNCHANGED <<memory, list, walk, edits>>

(***************************************************************************)
(* Dispatching.                                                            *)
(***************************************************************************)

(* A removal has begun to shift the list and not shortened it yet.         *)
BeingCut(kind) == \E q \in Editing(kind) : edit[q].op = "shift"

(* range evaluates the list once.                                          *)
Enter(w) ==
  /\ walk[w] = Free
  /\ \E k \in Kinds : \E event \in Dispatches[k] :
       walk' = [walk EXCEPT ![w] =
         [kind |-> k, event |-> event, op |-> IF k = "cmd" THEN "check" ELSE "send",
          slice |-> list[k], next |-> 1, fired |-> <<>>, start |-> Hooks(k), torn |-> BeingCut(k)]]
  /\ UNCHANGED <<memory, list, file, edit, edits>>

Walking(w) == walk[w] # Free /\ walk[w].op \in {"check", "send"}
Ahead(w)   == Walking(w) /\ walk[w].next <= walk[w].slice.len
Seen(w)    == memory[walk[w].kind][walk[w].slice.array][walk[w].next]
Match(w)   == Matches(walk[w].kind, Seen(w).key, walk[w].event)

Pass(w) ==
  /\ Ahead(w) /\ ~Match(w)
  /\ walk' = [walk EXCEPT ![w].next = @ + 1]
  /\ UNCHANGED <<memory, list, file, edit, edits>>

(* CheckCmdExist has found the command: SendToCmd looks for it again.      *)
Found(w) ==
  /\ Ahead(w) /\ Match(w) /\ walk[w].op = "check"
  /\ walk' = [walk EXCEPT ![w] = [@ EXCEPT !.op = "send", !.next = 1, !.slice = list["cmd"]]]
  /\ UNCHANGED <<memory, list, file, edit, edits>>

(* What is called, and at which place of the list it was.                  *)
Call(w) == [at |-> walk[w].next, hook |-> Seen(w)]

Calling(e, call, op) ==
  [e EXCEPT !.fired = Append(e.fired, call), !.next = e.next + 1, !.op = op]

(* Mutant: the walk ends with the first webhook that matches.              *)
FireFirst(w) ==
  /\ Ahead(w) /\ Match(w) /\ walk[w].op = "send"
  /\ walk' = [walk EXCEPT ![w] = Calling(@, Call(w), "end")]
  /\ UNCHANGED <<memory, list, file, edit, edits>>

(* A matching webhook is called in a goroutine, with its URL copied; the   *)
(* first one for a command ends the walk.                                  *)
Fire(w) ==
  /\ Ahead(w) /\ Match(w) /\ walk[w].op = "send"
  /\ walk' = [walk EXCEPT ![w] = Calling(@, Call(w), IF walk[w].kind = "cmd" THEN "end" ELSE "send")]
  /\ UNCHANGED <<memory, list, file, edit, edits>>

Leave(w) ==
  /\ Walking(w) /\ ~Ahead(w)
  /\ walk' = [walk EXCEPT ![w].op = "end"]
  /\ UNCHANGED <<memory, list, file, edit, edits>>

(***************************************************************************)
(* The specification.                                                      *)
(***************************************************************************)

Edit(q) == \/ AddHook(q) \/ AppendHook(q) \/ Assign(q) \/ Replace(q) \/ RemoveHook(q)
           \/ Cut(q) \/ Shift(q) \/ Shorten(q) \/ WriteConfig(q)
Dispatch(w) == Enter(w) \/ Pass(w) \/ Found(w) \/ Fire(w) \/ Leave(w)

Next == (\E q \in Editors : Edit(q)) \/ (\E w \in Walkers : Dispatch(w))

Spec == Init /\ [][Next]_vars

(***************************************************************************)
(* Properties.                                                             *)
(***************************************************************************)

Ops    == {"append", "assign", "replace", "cut", "shift", "write"}
Slices == [array : Nat \ {0}, len : Nat]
Works(kind) ==
  [op : Ops, kind : {kind}, hook : Hook(kind) \cup {Spare}, at : Nat \ {0}, slice : Slices,
   expected : Seq(Hook(kind)), alone : BOOLEAN]
Walks(kind) ==
  [kind : {kind}, event : Dispatches[kind], op : {"check", "send", "end"}, slice : Slices,
   next : Nat \ {0}, fired : Seq([at : Nat \ {0}, hook : Hook(kind)]), start : Seq(Hook(kind)),
   torn : BOOLEAN]

(* A slice lies within its array, on slots that were written.              *)
Sound(kind, slice) ==
  /\ slice.array \in DOMAIN memory[kind]
  /\ slice.len <= Len(memory[kind][slice.array])
  /\ \A i \in 1 .. slice.len : memory[kind][slice.array][i] \in Hook(kind)

EditOK(e) ==
  /\ e.kind \in Kinds /\ e \in Works(e.kind)
  /\ e.op \in {"append", "replace"} => e.hook \in Hook(e.kind)
  /\ e.op = "shift" => e.at <= e.slice.len

WalkOK(e) ==
  /\ e.kind \in Kinds /\ e \in Walks(e.kind)
  /\ e.next <= e.slice.len + 1 /\ (e.op = "check" => e.kind = "cmd")

(* The type invariant: the slices of lists, edits and walks are sound, and *)
(* no walk or shift is beyond its slice.                                   *)
TypeOK ==
  /\ memory = [k \in Kinds |-> memory[k]]
  /\ \A k \in Kinds : memory[k] \in Seq(Seq(Hook(k) \cup {Spare})) /\ Sound(k, list[k])
  /\ list \in [Kinds -> Slices]
  /\ file = [k \in Kinds |-> file[k]] /\ \A k \in Kinds : file[k] \in Seq(Hook(k))
  /\ edit = [q \in Editors |-> edit[q]] /\ walk = [w \in Walkers |-> walk[w]]
  /\ \A q \in Editors :
       edit[q] # Free => EditOK(edit[q]) /\ Sound(edit[q].kind, edit[q].slice)
  /\ \A w \in Walkers :
       walk[w] # Free => WalkOK(walk[w]) /\ Sound(walk[w].kind, walk[w].slice)
  /\ edits \in 0 .. MaxEdits

(* An edit no other edit of its list overlaps has the effect of the        *)
(* operation on sequences, whatever walkers and other lists do meanwhile.  *)
LoneEditTakesEffect ==
  \A q \in Editors : edit[q].op = "write" /\ edit[q].alone =>
    Hooks(edit[q].kind) = edit[q].expected

(* What makes it so: nobody else touches the list, and at each step the    *)
(* list and the slice in hand differ from "expected" by what is left.      *)
Left(e) ==
  LET hooks == Hooks(e.kind)
  IN CASE e.op = "append"  -> e.expected = Append(hooks, e.hook)
       [] e.op = "assign"  -> e.expected = At(e.kind, e.slice)
       [] e.op = "replace" -> /\ e.expected = ReplaceAt(hooks, e.at, e.hook)
                              /\ e.at \in DOMAIN hooks /\ hooks[e.at].key = e.hook.key
       [] e.op = "cut"     -> e.expected = RemoveAt(hooks, e.at) /\ e.at \in DOMAIN hooks
       [] e.op = "shift"   -> /\ e.slice = list[e.kind]
                              /\ e.expected = [i \in 1 .. Len(hooks) - 1 |->
                                                IF i < e.at THEN hooks[i] ELSE hooks[i + 1]]
       [] e.op = "write"   -> e.expected = hooks

LoneInv ==
  \A q \in Editors : edit[q] # Free /\ edit[q].alone =>
    Editing(edit[q].kind) = {q} /\ Left(edit[q])

(* What the documents say a hook receives.                                 *)
Wanted(kind, key, event) ==
  CASE kind = "cmd"   -> key = event
    [] kind = "event" -> \/ event = key.name
                         \/ /\ key.wild /\ Len(key.name) < Len(event)
                            /\ \A i \in DOMAIN key.name : key.name[i] = event[i]
    [] kind = "text"  -> /\ key.from = "all" \/ key.from = (IF event.me THEN "me" ELSE "others")
                         /\ key.pattern \in event.matched

(* A dispatch that no removal from its list overlaps, and no addition that *)
(* undoes another, calls each webhook that was registered when it began    *)
(* and matches, once and in order, even if the list grows or URLs change   *)
(* meanwhile; of commands, the first.                                      *)
EachMatchOnce ==
  \A w \in Walkers : walk[w].op = "end" /\ ~walk[w].torn =>
    LET start  == walk[w].start
        fired  == walk[w].fired
        wanted == {i \in DOMAIN start : Wanted(walk[w].kind, start[i].key, walk[w].event)}
        due    == IF walk[w].kind = "cmd" THEN {i \in wanted : \A j \in wanted : i <= j}
                  ELSE wanted
    IN /\ {fired[j].at : j \in DOMAIN fired} = due
       /\ \A i, j \in DOMAIN fired : i < j => fired[i].at < fired[j].at
       /\ \A j \in DOMAIN fired : fired[j].hook.key = start[fired[j].at].key

(* What makes it so: such a walk and the list still begin with what was    *)
(* registered, and it has called what matches in the part it has passed.   *)
Begins(kind, slice, start) ==
  /\ Len(start) <= slice.len
  /\ \A i \in DOMAIN start : memory[kind][slice.array][i].key = start[i].key

Due(e)    == {i \in DOMAIN e.start : Matches(e.kind, e.start[i].key, e.event)}
Passed(e) == {i \in Due(e) : i < e.next}

Following(e) == ~BeingCut(e.kind) /\ Begins(e.kind, list[e.kind], e.start)
                                  /\ Begins(e.kind, e.slice, e.start)

Called(e) ==
  /\ e.kind = "cmd" /\ e.op # "end" => e.fired = <<>> /\ Passed(e) = {}
  /\ e.kind = "cmd" /\ e.op = "check" => e.slice.len = Len(e.start)
  /\ e.kind = "cmd" /\ e.op = "send" => Due(e) # {}
  /\ e.kind = "cmd" /\ e.op = "end" /\ e.fired = <<>> => Due(e) = {}
  /\ e.kind = "cmd" /\ e.fired # <<>> =>
       Len(e.fired) = 1 /\ e.fired[1].at \in Due(e) /\ \A i \in Due(e) : e.fired[1].at <= i
  /\ e.kind # "cmd" =>
       /\ e.slice.len = Len(e.start)
       /\ {e.fired[j].at : j \in DOMAIN e.fired} = Passed(e)
       /\ e.op = "end" => Passed(e) = Due(e)
  /\ \A i, j \in DOMAIN e.fired : i < j => e.fired[i].at < e.fired[j].at
  /\ \A j \in DOMAIN e.fired :
       e.fired[j].at \in DOMAIN e.start /\ e.fired[j].hook.key = e.start[e.fired[j].at].key

WalkInv ==
  \A w \in Walkers : walk[w] # Free /\ ~walk[w].torn =>
    Called(walk[w]) /\ (walk[w].op # "end" => Following(walk[w]))

(* "The file is rewritten automatically on every change."                  *)
RewrittenOnChange ==
  [][\A q \in Editors : edit[q].op = "write" /\ edit'[q] = Free /\ edit[q].alone
       => file'[edit[q].kind] = edit[q].expected]_vars
=============================================================================
