------------------------------ MODULE Schedules ------------------------------
(* When a scheduled function is fired (pubsub-front/scheduler.rs): cadences  *)
(* of cron fields, of an interval or of a time of day, and the delay to the  *)
(* next tick.  Time is counted in seconds; the calendar is a parameter, so   *)
(* that a year can be a few days.                                            *)
EXTENDS Integers, Sequences, FiniteSets, SequencesExt, FiniteSetsExt

CONSTANTS
  Minute, Hour, Day,   \* a minute in seconds, an hour in minutes, a day in hours
  MonthDays,           \* the days of each month
  WeekDays,            \* the days of a week; day 0 is weekday 0
  Limit                \* how many days next_after searches (366)

Bad == [k |-> "bad"]
DaySeconds == Minute * Hour * Day
Months == Len(MonthDays)
YearDays == FoldLeft(LAMBDA a, b : a + b, 0, MonthDays)

-----------------------------------------------------------------------------
(* Cron fields.  A part is [range, step]: range is <<>> for "*", <<v>> or    *)
(* <<start, end>>; step is 0 when absent.  Numbers that do not parse, and a  *)
(* step of zero, are refused with the text: zero is written as -1 here.      *)

PartRange(part, minimum, maximum) ==
  CASE Len(part.range) = 0 -> <<minimum, maximum>>
    [] Len(part.range) = 1 -> <<part.range[1], IF part.step \in {0, 1} THEN part.range[1] ELSE maximum>>
    [] Len(part.range) = 2 -> part.range

\* <<the values allowed>>, or <<>>.
field(parts, minimum, maximum) ==
  LET step(part) == IF part.step = 0 THEN 1 ELSE part.step
      range(part) == PartRange(part, minimum, maximum)
      refused(part) == \/ step(part) < 1 \/ range(part)[1] < minimum \/ range(part)[2] > maximum
                       \/ range(part)[1] > range(part)[2]
  IN IF \E i \in DOMAIN parts : refused(parts[i]) THEN <<>>
     ELSE <<UNION {{v \in range(parts[i])[1]..range(parts[i])[2] :
                     (v - range(parts[i])[1]) % step(parts[i]) = 0} : i \in DOMAIN parts}>>

cron_parse(fields) ==
  IF Len(fields) /= 5 THEN Bad
  ELSE LET f == <<field(fields[1], 0, Hour - 1), field(fields[2], 0, Day - 1),
                  field(fields[3], 1, Max(ToSet(MonthDays))), field(fields[4], 1, Months),
                  field(fields[5], 0, WeekDays - 1)>>
       IN IF \E i \in 1..5 : f[i] = <<>> THEN Bad
          ELSE [k |-> "cron", minutes |-> f[1][1], hours |-> f[2][1], days |-> f[3][1],
                months |-> f[4][1], weekdays |-> f[5][1]]

\* The calendar of a moment.
Date(at) ==
  LET day == at \div DaySeconds
      inYear == day % YearDays
      before(m) == FoldLeft(LAMBDA a, b : a + b, 0, SubSeq(MonthDays, 1, m - 1))
      month == CHOOSE m \in 1..Months : before(m) <= inYear /\ inYear < before(m) + MonthDays[m]
  IN [minute |-> (at \div Minute) % Hour, hour |-> (at \div (Minute * Hour)) % Day,
      day |-> inYear - before(month) + 1, month |-> month, weekday |-> day % WeekDays]

cron_matches(c, at) ==
  LET d == Date(at)
  IN /\ d.minute \in c.minutes /\ d.hour \in c.hours /\ d.day \in c.days
     /\ d.month \in c.months /\ d.weekday \in c.weekdays

\* The search, minute by minute; -1 if nothing matches within the limit.
RECURSIVE Search(_, _, _)
Search(c, candidate, limit) ==
  IF candidate > limit THEN -1
  ELSE IF cron_matches(c, candidate) THEN candidate
  ELSE Search(c, candidate + Minute, limit)

next_after(c, now) == Search(c, (now \div Minute) * Minute + Minute, now + Limit * DaySeconds)

-----------------------------------------------------------------------------
(* A schedule is [words |-> "every", count, unit], [words |-> "daily", hour, *)
(* minute] or [words |-> "other", fields], with its zone; a count or a clock *)
(* that does not parse is -1.                                                *)

parse(s) ==
  LET unit == IF s.words /= "every" THEN 0
              ELSE IF s.unit = "minute" THEN Minute
              ELSE IF s.unit = "hour" THEN Minute * Hour ELSE 0
  IN CASE s.words = "every" -> IF s.count > 0 /\ unit > 0
                                 THEN [k |-> "interval", seconds |-> s.count * unit] ELSE Bad
       [] s.words = "daily" ->
            IF s.zone = "other" \/ s.hour \notin 0..Day - 1 \/ s.minute \notin 0..Hour - 1 THEN Bad
            ELSE [k |-> "daily", time |-> (s.hour * Hour + s.minute) * Minute]
       [] OTHER -> cron_parse(s.fields)

delay_from(c, now) ==
  LET today == (now \div DaySeconds) * DaySeconds + c.time
      next == next_after(c, now)
  IN CASE c.k = "interval" -> c.seconds
       [] c.k = "daily" -> (IF today > now THEN today ELSE today + DaySeconds) - now
       [] c.k = "cron" -> IF next = -1 THEN Limit * DaySeconds ELSE next - now

-----------------------------------------------------------------------------
(* When a schedule as written is due: each field of a cron expression lists   *)
(* values, ranges and steps from a start.                                    *)

Listed(part, v, minimum, maximum) ==
  LET start == IF part.range = <<>> THEN minimum ELSE part.range[1]
      end == IF Len(part.range) = 2 THEN part.range[2]
             ELSE IF part.range = <<>> \/ part.step > 1 THEN maximum ELSE start
  IN v \in {start + n * (IF part.step = 0 THEN 1 ELSE part.step) : n \in 0..maximum} /\ v <= end

DueAt(s, at) ==
  LET d == Date(at)
      listed(i, v, minimum, maximum) ==
        \E j \in DOMAIN s.fields[i] : Listed(s.fields[i][j], v, minimum, maximum)
  IN /\ at % Minute = 0
     /\ IF s.words = "daily" THEN d.hour = s.hour /\ d.minute = s.minute
        ELSE /\ listed(1, d.minute, 0, Hour - 1) /\ listed(2, d.hour, 0, Day - 1)
             /\ listed(3, d.day, 1, Max(ToSet(MonthDays))) /\ listed(4, d.month, 1, Months)
             /\ listed(5, d.weekday, 0, WeekDays - 1)

(* TicksExact: a schedule that is accepted wakes at the first moment it is    *)
(* due strictly after now, so that a tick which is a little late is neither  *)
(* skipped nor fired twice, through the ends of days, months and years; one  *)
(* that is not due within the whole search wakes, and fires, at its end; and *)
(* an interval is waited out in full (CronSpec and Cadence).                 *)
TicksExact(s, now) ==
  LET c == parse(s)
      wake == now + delay_from(c, now)
      due == {at \in now + 1..now + Limit * DaySeconds : DueAt(s, at)}
  IN CASE c = Bad -> TRUE
       [] c /= Bad /\ s.words = "every" -> wake - now = s.count * (IF s.unit = "hour" THEN Hour ELSE 1) * Minute
       [] OTHER -> wake = IF due = {} THEN now + Limit * DaySeconds ELSE Min(due)
=============================================================================
