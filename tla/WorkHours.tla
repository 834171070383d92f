------------------------------- MODULE WorkHours -------------------------------
(***************************************************************************)
(* The hours of an organisation in the form: web/src/lib/workHours.ts and  *)
(* the field that sets them, web/src/components/places/WorkHoursField.tsx. *)
(* A time is a number of minutes; a field of the browser that is not       *)
(* filled in gives none.  The text that is saved is the sequence of its    *)
(* parts.                                                                  *)
(***************************************************************************)
EXTENDS Integers, Sequences

CONSTANTS
    Clickable,  \* bound: the days whose buttons are pressed
    Times,      \* bound: the times that are typed
    None

HoursAssumption ==
    /\ Clickable \subseteq 1..7
    /\ Times \subseteq 0..1439
    /\ None \notin Int

VARIABLES hours, set

vars == <<hours, set>>

\* Monday to Sunday.
Days == 1..7
DAYS_OPTIONS == {"none", "daily", "weekdays", "sixdays", "weekend", "custom"}
PRESET_DAYS == [daily |-> 1..7, weekdays |-> 1..5, sixdays |-> 1..6,
                weekend |-> 6..7]
DEFAULT_HOURS ==
    [days |-> "none", custom |-> 1..5, time |-> "allday", brk |-> "none"]
DefaultTimes == [from |-> 540, to |-> 1080, breakFrom |-> 780, breakTo |-> 840]
Fields == DOMAIN DefaultTimes

Init ==
    /\ hours = DEFAULT_HOURS
    /\ set = DefaultTimes

daysFlags ==
    CASE hours.days = "none" -> {}
      [] hours.days = "custom" -> hours.custom
      [] OTHER -> PRESET_DAYS[hours.days]

isTime(t) == t # None

\* (mutant) only the beginning of the break is compared.
breakBefore == set.from < set.to /\ set.breakFrom < set.from
\* The break must be within the hours, unless these go over midnight.
breakOutside ==
    /\ set.from < set.to
    /\ set.breakFrom < set.from \/ set.breakTo > set.to

hoursProblem ==
    /\ hours.days # "none"
    /\ \/ daysFlags = {}
       \/ /\ hours.time = "range"
          /\ \/ ~isTime(set.from) \/ ~isTime(set.to)
             \/ set.from = set.to
             \/ /\ hours.brk = "range"
                /\ \/ ~isTime(set.breakFrom) \/ ~isTime(set.breakTo)
                   \/ set.breakFrom >= set.breakTo
                   \/ breakOutside

\* A part of the text: from one day or time to another one.
Part(kind, from, to) == [kind |-> kind, from |-> from, to |-> to]

\* The last day of the run that begins with a day.
RunEnd(on, i) ==
    CHOOSE j \in i..7 : i..j \subseteq on /\ j + 1 \notin on

\* formatDays: runs of three days and more as a range, other days one by one.
formatDays(on) ==
    LET parts[i \in 1..8] ==
            IF i = 8 THEN <<>>
            ELSE IF i \notin on THEN parts[i + 1]
            ELSE LET j == RunEnd(on, i)
                 IN  (IF j - i >= 2 THEN <<Part("days", i, j)>>
                      ELSE [k \in 1..(j - i + 1) |->
                               Part("days", i + k - 1, i + k - 1)])
                     \o parts[j + 1]
    IN  IF on = Days THEN <<Part("Har kuni", None, None)>> ELSE parts[1]

\* formatHours: the days, the hours and the break; nothing while there is a
\* problem.
formatHours ==
    IF hours.days = "none" \/ hoursProblem THEN <<>>
    ELSE formatDays(daysFlags) \o
         (IF hours.time = "allday" THEN <<Part("kun bo'yi", None, None)>>
          ELSE <<Part("time", set.from, set.to)>> \o
               (IF hours.brk = "range"
                THEN <<Part("tanaffus", set.breakFrom, set.breakTo)>> ELSE <<>>))

--------------------------------------------------------------------------
(* The field.  A list that makes no sense is disabled and keeps its value. *)

enabled == hours.days # "none"
timed == enabled /\ hours.time = "range"

SetDays(v) ==
    /\ hours' = [hours EXCEPT !.days = v]
    /\ UNCHANGED set

ToggleDay(d) ==
    /\ hours.days = "custom"
    /\ hours' = [hours EXCEPT !.custom = IF d \in @ THEN @ \ {d} ELSE @ \cup {d}]
    /\ UNCHANGED set

SetTime(v) ==
    /\ enabled
    /\ hours' = [hours EXCEPT !.time = v]
    /\ UNCHANGED set

SetBreak(v) ==
    /\ timed
    /\ hours' = [hours EXCEPT !.brk = v]
    /\ UNCHANGED set

\* One of the four fields, those of the break only when there is one.
TypeTime(f, t) ==
    /\ timed
    /\ f \in {"breakFrom", "breakTo"} => hours.brk = "range"
    /\ set' = [set EXCEPT ![f] = t]
    /\ UNCHANGED hours

Next ==
    \/ \E v \in DAYS_OPTIONS : SetDays(v)
    \/ \E d \in Clickable : ToggleDay(d)
    \/ \E v \in {"allday", "range"} : SetTime(v)
    \/ \E v \in {"none", "range"} : SetBreak(v)
    \/ \E f \in Fields, t \in Times \cup {None} : TypeTime(f, t)

Spec == Init /\ [][Next]_vars

--------------------------------------------------------------------------

\* Every variable has its type.
TypeOK ==
    /\ hours.days \in DAYS_OPTIONS
    /\ hours.custom \subseteq Days
    /\ hours.time \in {"allday", "range"}
    /\ hours.brk \in {"none", "range"}
    /\ \A f \in Fields : set[f] \in 0..1439 \cup {None}

\* The days a reader of the text understands.
Means(part) == IF part.kind = "Har kuni" THEN Days ELSE part.from..part.to
Read(parts) == UNION {Means(parts[i]) : i \in DOMAIN parts}

\* Whatever was set before and is disabled now: the text is empty exactly
\* when there is nothing to say or something to correct; otherwise a reader
\* learns the days that are chosen, each once and in order, and a break that
\* lies in the hours, and the times are those that are seen.
HoursRight ==
    /\ formatHours = <<>> <=> hours.days = "none" \/ hoursProblem
    /\ Read(formatDays(daysFlags)) = daysFlags
    /\ formatHours # <<>> /\ timed =>
          /\ None \notin {set.from, set.to}
          /\ hours.brk = "range" /\ set.from < set.to =>
                set.breakFrom..set.breakTo \subseteq set.from..set.to
=============================================================================
