------------------------------ MODULE CronTime ------------------------------
(***************************************************************************)
(* nextCronTime of internal/api/cronmanager.go: the search for the first   *)
(* minute after another that a cron expression matches.  An instant is a   *)
(* number of minutes; the server's zone says what a clock shows then.  The *)
(* calendar is a parameter, so that a year of it can be searched.          *)
(***************************************************************************)
EXTENDS Integers, Sequences

CONSTANTS
  Minutes,     (* Minutes of an hour.                                       *)
  Hours,       (* Hours of a day.                                           *)
  Weekdays,    (* Days of a week.                                           *)
  MonthDays,   (* A sequence: the days of each month.                       *)
  Horizon,     (* How many minutes the search looks ahead.                  *)
  Zones,       (* The zones: an offset before and from an instant "at" on.  *)
  Exprs,       (* The expressions searched for.                             *)
  Starts       (* The instants searches begin at.                           *)

VARIABLES
  zone,        (* The zone of the server.                                   *)
  expr,        (* The expression.                                           *)
  from,        (* The instant the search began at.                          *)
  t,           (* The candidate.                                            *)
  search       (* "on", "found" or "none" (the zero time).                  *)

vars == <<zone, expr, from, t, search>>

(***************************************************************************)
(* Clocks and calendars: package time.                                     *)
(***************************************************************************)

Offset(z, instant) == IF instant < z.at THEN z.before ELSE z.after
Clock(z, instant)  == instant + Offset(z, instant)

(* time.Date: the offset is looked up as if the clock showed UTC, and once *)
(* more if that offset does not lead to its own side of the change.        *)
Date(z, clock) ==
  LET utc == clock - Offset(z, clock)
  IN IF (utc < z.at) = (clock < z.at) THEN utc ELSE clock - Offset(z, utc)

DayLength == Hours * Minutes
DayOf(clock) == clock \div DayLength

(* The day of the year the k-th month begins at.                           *)
MonthStart[k \in 1 .. Len(MonthDays) + 1] ==
  IF k = 1 THEN 0 ELSE MonthStart[k - 1] + MonthDays[k - 1]

YearLength == MonthStart[Len(MonthDays) + 1]
YearDay(clock) == DayOf(clock) % YearLength

MonthOf(clock) ==
  CHOOSE k \in DOMAIN MonthDays : YearDay(clock) \in MonthStart[k] .. MonthStart[k + 1] - 1

(* What an expression is compared with.                                    *)
Reading(clock) ==
  [mon  |-> MonthOf(clock),
   dom  |-> YearDay(clock) - MonthStart[MonthOf(clock)] + 1,
   dow  |-> DayOf(clock) % Weekdays,
   hour |-> (clock \div Minutes) % Hours,
   min  |-> clock % Minutes]

Least == [mon |-> 1, dom |-> 1, dow |-> 0, hour |-> 0, min |-> 0]

(***************************************************************************)
(* Fields.  A field is "*", steps from a start, a list of ranges (a number *)
(* is a range of its own), or something that is none of these.             *)
(***************************************************************************)

Star == -1

Fields == [form : {"any", "bad"}] \cup [form : {"step"}, start : Int, step : Int]
            \cup [form : {"list"}, parts : SUBSET [lo : Int, hi : Int]]

MatchField(field, val, min) ==
  CASE field.form = "any"  -> TRUE
    [] field.form = "step" ->
         LET start == IF field.start = Star THEN min ELSE field.start
         IN field.step > 0 /\ val >= start /\ (val - start) % field.step = 0
    [] field.form = "list" -> \E part \in field.parts : val \in part.lo .. part.hi
    [] OTHER -> FALSE

Fits(name) == MatchField(expr[name], Reading(Clock(zone, t))[name], Least[name])

(***************************************************************************)
(* The search.                                                             *)
(***************************************************************************)

Init ==
  /\ zone \in Zones /\ expr \in Exprs /\ from \in Starts
  /\ t = from + 1
  /\ search = "on"

Searching == search = "on" /\ t < from + 1 + Horizon

(* The search goes on where the clock shows what it is given.              *)
Advance(clock) ==
  /\ t' = Date(zone, clock)
  /\ UNCHANGED <<zone, expr, from, search>>

(* The first day of the next month, at midnight.                           *)
NextMonth ==
  LET clock == Clock(zone, t)
  IN /\ Searching /\ ~Fits("mon")
     /\ Advance((DayOf(clock) - YearDay(clock) + MonthStart[MonthOf(clock) + 1]) * DayLength)

(* The next day, at midnight.                                              *)
NextDay ==
  /\ Searching /\ Fits("mon") /\ ~(Fits("dom") /\ Fits("dow"))
  /\ Advance((DayOf(Clock(zone, t)) + 1) * DayLength)

(* Mutant: the minutes are kept.                                           *)
NextHourKeepsMinutes ==
  /\ Searching /\ Fits("mon") /\ Fits("dom") /\ Fits("dow") /\ ~Fits("hour")
  /\ Advance(Clock(zone, t) + Minutes)

(* The next full hour.                                                     *)
NextHour ==
  /\ Searching /\ Fits("mon") /\ Fits("dom") /\ Fits("dow") /\ ~Fits("hour")
  /\ Advance((Clock(zone, t) \div Minutes + 1) * Minutes)

NextMinute ==
  /\ Searching /\ Fits("mon") /\ Fits("dom") /\ Fits("dow") /\ Fits("hour") /\ ~Fits("min")
  /\ t' = t + 1
  /\ UNCHANGED <<zone, expr, from, search>>

Found ==
  /\ Searching /\ \A name \in DOMAIN Least : Fits(name)
  /\ search' = "found"
  /\ UNCHANGED <<zone, expr, from, t>>

GiveUp ==
  /\ search = "on" /\ ~Searching
  /\ search' = "none"
  /\ UNCHANGED <<zone, expr, from, t>>

Next == NextMonth \/ NextDay \/ NextHour \/ NextMinute \/ Found \/ GiveUp

Spec == Init /\ [][Next]_vars

(* The search is a loop of one goroutine.                                  *)
FairSpec == Spec /\ WF_vars(Next)

(***************************************************************************)
(* Properties.                                                             *)
(***************************************************************************)

(* What a field stands for among the values of its kind.                   *)
Denotes(field, values) ==
  CASE field.form = "any"  -> values
    [] field.form = "step" ->
         LET start == IF field.start = Star THEN CHOOSE v \in values : \A w \in values : v <= w
                      ELSE field.start
         IN {v \in values : field.step > 0 /\ \E n \in 0 .. v - start : v = start + n * field.step}
    [] field.form = "list" -> {v \in values : \E part \in field.parts : v \in part.lo .. part.hi}
    [] OTHER -> {}

Matches(instant) ==
  LET r == Reading(Clock(zone, instant))
  IN /\ r.mon  \in Denotes(expr.mon, DOMAIN MonthDays)
     /\ r.dom  \in Denotes(expr.dom, 1 .. MonthDays[r.mon])
     /\ r.dow  \in Denotes(expr.dow, 0 .. Weekdays - 1)
     /\ r.hour \in Denotes(expr.hour, 0 .. Hours - 1)
     /\ r.min  \in Denotes(expr.min, 0 .. Minutes - 1)

(* The instant found matches, and the search passed over no instant that   *)
(* does, unless the clock shows the same again later: an hour that is      *)
(* repeated when summer time ends counts once.                             *)
FirstMatch ==
  /\ \A u \in from + 1 .. t - 1 : Matches(u) =>
       \E again \in t .. t + DayLength : Clock(zone, again) = Clock(zone, u)
  /\ search = "found" => Matches(t)

(* "Search up to a year ahead to avoid infinite loops": the search ends.   *)
SearchEnds == <>(search # "on")
=============================================================================
