----------------------------- MODULE OnCalendar -----------------------------
(***************************************************************************)
(* OnCalendar= from its words to the next and the previous instant         *)
(* (systeml-unit: calendar.rs, schedule.rs).  The searches are loops over  *)
(* a candidate; one turn of a loop is one step here.  The calendar itself  *)
(* (lengths of months, weeks, days) is a parameter: the code takes it from *)
(* the `time` crate.  Fractions of a second are TimerFiring's subject.     *)
(* The specification is SearchSpec: TimerProofs extends both modules.      *)
(***************************************************************************)
EXTENDS Integers, Sequences, FiniteSets, FiniteSetsExt, SequencesExt

CONSTANTS
  Days,          \* the days of the calendar, in order, as <<year, month, day>>
  Months,        \* months in a year
  Week,          \* days in a week; Days[1] is the first day of one
  Hours, Minutes, Seconds,   \* in a day, an hour, a minute
  Horizon,       \* how many days ahead next_fire looks, and ...
  Lookback,      \* ... behind, prev_fire
  MaxTurns,      \* turns of prev_fire
  Word,          \* the integers of the parser wrap here (2^32)
  Lines,         \* the OnCalendar= lines: sequences of tokens
  Starts         \* the instants to search from

-----------------------------------------------------------------------------
(* Instants: seconds from the start of Days[1]                             *)

DaySeconds == Hours * Minutes * Seconds
End == Len(Days) * DaySeconds

DayOf(t) == Days[(t \div DaySeconds) + 1]
year(t) == DayOf(t)[1]
month(t) == DayOf(t)[2]
day(t) == DayOf(t)[3]
weekday(t) == ((t \div DaySeconds) % Week) + 1
hour(t) == (t % DaySeconds) \div (Minutes * Seconds)
minute(t) == (t \div Seconds) % Minutes
second(t) == t % Seconds

DayStart(t) == t - (t % DaySeconds)
FirstOf(S) == {(i - 1) * DaySeconds : i \in {j \in DOMAIN Days : Days[j] \in S}}

\* The first instant of a day that must exist; past the end, the end.
at_day_start(y, m, d) == IF <<y, m, d>> \in Range(Days) THEN Min(FirstOf({<<y, m, d>>})) ELSE End
at_month_start(y, m) == at_day_start(y, m, 1)
at_year_start(y) == at_month_start(y, 1)
days_in_month(y, m) == Cardinality({i \in DOMAIN Days : Days[i][1] = y /\ Days[i][2] = m})

-----------------------------------------------------------------------------
(* The words of a line.  A field is a star or a sequence of chunks, a chunk a *)
(* range, "*" for all, and a step; a time may lack its seconds, a date its    *)
(* year or be a lone star; a line may end in a time zone, which is ignored.   *)

Star == <<>>
All == <<>>
Error == [error |-> TRUE]

\* `while v <= to`, with the wrap of u32 (a build with debug assertions panics).
expand(from, to, step) ==
  LET v(k) == (from + k * step) % Word
  IN {v(k) : k \in {n \in 0 .. Word : \A j \in 0 .. n : v(j) <= to}}

InRange(chunk, lo, hi) ==
  chunk.range = All \/ (chunk.range[1] <= chunk.range[2] /\ chunk.range[1] >= lo
                          /\ chunk.range[2] <= hi)

\* A wildcard is the set of all values; next_in_set treats the two alike.
parse_field(field, lo, hi) ==
  IF field = Star THEN lo .. hi
  ELSE UNION {LET c == field[i]
              IN IF c.range = All THEN expand(lo, hi, c.step)
                 ELSE expand(c.range[1], c.range[2], c.step) : i \in DOMAIN field}

FieldOk(field, lo, hi) ==
  \A i \in DOMAIN field : InRange(field[i], lo, hi) /\ field[i].step # 0

Years == {Days[i][1] : i \in DOMAIN Days}
FirstYear == Min(Years)
LastYear == Max(Years)
MaxDay == Max({Days[i][3] : i \in DOMAIN Days})

Midnight == [hour |-> {0}, minute |-> {0}, second |-> {0}]
AnyTime == [hour |-> 0 .. Hours - 1, minute |-> 0 .. Minutes - 1, second |-> 0 .. Seconds - 1]

\* The fields of a token, with what may be left out.
DateFields(token) ==
  CASE Len(token.fields) = 3 -> token.fields
    [] Len(token.fields) = 2 -> <<Star>> \o token.fields
    [] OTHER -> <<Star, Star, Star>>
TimeFields(token) ==
  IF Len(token.fields) = 3 THEN token.fields
  ELSE token.fields \o << <<[range |-> <<0, 0>>, step |-> 1]>> >>

TokenOk(token) ==
  CASE token.is = "date" ->
         LET f == DateFields(token)
         IN FieldOk(f[1], FirstYear, LastYear) /\ FieldOk(f[2], 1, Months) /\ FieldOk(f[3], 1, MaxDay)
    [] token.is = "time" ->
         LET f == TimeFields(token)
         IN FieldOk(f[1], 0, Hours - 1) /\ FieldOk(f[2], 0, Minutes - 1) /\ FieldOk(f[3], 0, Seconds - 1)
    [] OTHER -> TRUE

\* The places of the tokens of a kind, and the token where there is one.
Of(line, kind) == {i \in DOMAIN line : line[i].is = kind}
The(line, kind) == line[CHOOSE i \in Of(line, kind) : TRUE]

\* weekday? (date | time)* zone?, each at most once, and every token well formed.
LineOk(line) ==
  /\ \A k \in {"weekdays", "date", "time", "zone"} : \A i, j \in Of(line, k) : i = j
  /\ \A i \in DOMAIN line : /\ TokenOk(line[i])
                            /\ line[i].is = "weekdays" => i = 1
                            /\ line[i].is = "zone" => i = Len(line)

\* A..B of weekdays may wrap around the end of the week.
parse_weekdays(days) ==
  UNION {IF r[1] <= r[2] THEN r[1] .. r[2] ELSE (r[1] .. Week) \cup (1 .. r[2]) : r \in days}

\* CalendarSpec::parse. A date without a time means midnight, a weekday alone too.
parse(line) ==
  LET has(kind) == Of(line, kind) # {}
      date == DateFields(IF has("date") THEN The(line, "date") ELSE [fields |-> <<>>])
      time == TimeFields(The(line, "time"))
      clock == IF has("time")
               THEN [hour |-> parse_field(time[1], 0, Hours - 1),
                     minute |-> parse_field(time[2], 0, Minutes - 1),
                     second |-> parse_field(time[3], 0, Seconds - 1)]
               ELSE IF has("date") \/ has("weekdays") THEN Midnight ELSE AnyTime
  IN IF ~LineOk(line) THEN Error
     ELSE [weekdays |-> IF has("weekdays") THEN parse_weekdays(The(line, "weekdays").days)
                        ELSE 1 .. Week,
           year |-> parse_field(date[1], FirstYear, LastYear),
           month |-> parse_field(date[2], 1, Months),
           day |-> parse_field(date[3], 1, MaxDay),
           hour |-> clock.hour, minute |-> clock.minute, second |-> clock.second]

ParsedLines == {line \in Lines : parse(line) # Error}

\* One day comes before another.
Before(d, e) ==
  \/ d[1] < e[1]
  \/ d[1] = e[1] /\ d[2] < e[2]
  \/ d[1] = e[1] /\ d[2] = e[2] /\ d[3] < e[3]

\* The days are in order and without gaps: with a day there are the days of its month before
\* it, and the first days of all the months before it.
ASSUME DaysAssumption ==
  /\ Days \in Seq(Nat \X (1 .. Months) \X (Nat \ {0})) /\ Days # <<>>
  /\ \A i, j \in DOMAIN Days : i < j => Before(Days[i], Days[j])
  /\ \A i \in DOMAIN Days :
       /\ \A d \in 1 .. Days[i][3] : <<Days[i][1], Days[i][2], d>> \in Range(Days)
       /\ \A y \in FirstYear .. Days[i][1], m \in 1 .. Months :
            y < Days[i][1] \/ m <= Days[i][2] => <<y, m, 1>> \in Range(Days)

\* What the tokens of a line look like.
Chunk == [range : {All} \cup (Nat \X Nat), step : Nat]
Token ==
  [is : {"date", "time"}, fields : Seq(Seq(Chunk))]
    \cup [is : {"weekdays"}, days : SUBSET ((1 .. Week) \X (1 .. Week))]
    \cup [is : {"zone"}]

ASSUME LinesAssumption ==
  /\ Word \in Nat \ {0}
  /\ Lines \subseteq Seq(Token)
  /\ \A line \in Lines : \A i \in Of(line, "time") : Len(line[i].fields) \in {2, 3}

ASSUME CalendarAssumption ==
  /\ {Hours, Minutes, Seconds, Week, Months} \subseteq Nat \ {0}
  /\ {Horizon, Lookback, MaxTurns} \subseteq Nat /\ Lookback < Horizon
  /\ \A t \in Starts : t \in Lookback * DaySeconds .. End - (Horizon + 1) * DaySeconds

-----------------------------------------------------------------------------
(* What the words mean, without the sets and the search                    *)

FieldMeans(field, v, lo, hi) ==
  \/ field = Star
  \/ \E i \in DOMAIN field :
       LET a == IF field[i].range = All THEN lo ELSE field[i].range[1]
           b == IF field[i].range = All THEN hi ELSE field[i].range[2]
       IN v \in a .. b /\ (v - a) % field[i].step = 0

TokenMeans(token, t) ==
  CASE token.is = "date" ->
         LET f == DateFields(token)
         IN /\ FieldMeans(f[1], year(t), FirstYear, LastYear)
            /\ FieldMeans(f[2], month(t), 1, Months)
            /\ FieldMeans(f[3], day(t), 1, MaxDay)
    [] token.is = "time" ->
         LET f == TimeFields(token)
         IN /\ FieldMeans(f[1], hour(t), 0, Hours - 1)
            /\ FieldMeans(f[2], minute(t), 0, Minutes - 1)
            /\ FieldMeans(f[3], second(t), 0, Seconds - 1)
    [] token.is = "weekdays" ->
         \E r \in token.days : (weekday(t) - r[1]) % Week <= (r[2] - r[1]) % Week
    [] OTHER -> TRUE

\* The instants that a line describes.
Means(words, t) ==
  /\ \A i \in DOMAIN words : TokenMeans(words[i], t)
  /\ (\A i \in DOMAIN words : words[i].is # "time")
       => t % DaySeconds = 0 \/ \A i \in DOMAIN words : words[i].is = "zone"
Described(words) == {t \in 0 .. End - 1 : Means(words, t)}

-----------------------------------------------------------------------------
VARIABLES
  line, spec,  \* the line, and what it was parsed to
  asked,       \* "next" or "prev": which function runs
  from,        \* its argument, `now` or `before`
  cursor,      \* the baseline of the current next_fire
  candidate,   \* ... and its candidate
  latest, turns,   \* prev_fire: the latest match so far, and its turns
  answer,      \* the result: Searching, Never or an instant
  described    \* history: the instants that the words of the line describe

search == <<line, spec, asked, from, cursor, candidate, latest, turns, answer, described>>
input == <<line, spec, asked, from, described>>

Never == -1
Searching == -2

SearchInit ==
  /\ line \in ParsedLines
  /\ spec = parse(line)
  /\ described = Described(line)
  /\ asked \in {"next", "prev"}
  /\ from \in Starts
  /\ cursor = IF asked = "next" THEN from ELSE from - Lookback * DaySeconds
  /\ candidate = cursor + 1
  /\ latest = Never /\ turns = 0
  /\ answer = Searching

limit == cursor + Horizon * DaySeconds
Turn == answer = Searching /\ candidate < limit

\* Mutant: an instant at `before` itself is no longer looked at.
Return_before(t) ==
  IF asked = "next"
  THEN answer' = t /\ UNCHANGED <<input, cursor, candidate, latest, turns>>
  ELSE IF t = Never \/ t >= from
  THEN answer' = latest /\ UNCHANGED <<input, cursor, candidate, latest, turns>>
  ELSE /\ latest' = t /\ turns' = turns + 1
       /\ cursor' = t /\ candidate' = t + 1
       /\ answer' = IF turns' = MaxTurns THEN t ELSE Searching
       /\ UNCHANGED input

\* What next_fire returns, to its caller or to the loop of prev_fire.
Return(t) ==
  IF asked = "next"
  THEN answer' = t /\ UNCHANGED <<input, cursor, candidate, latest, turns>>
  ELSE IF t = Never \/ t > from
  THEN answer' = latest /\ UNCHANGED <<input, cursor, candidate, latest, turns>>
  ELSE /\ latest' = t /\ turns' = turns + 1
       /\ cursor' = t /\ candidate' = t + 1
       /\ answer' = IF turns' = MaxTurns THEN t ELSE Searching
       /\ UNCHANGED input

Go(t) == candidate' = t /\ UNCHANGED <<input, cursor, latest, turns, answer>>

\* next_in_set, where the value at hand does not match: the least one after it.
Later(allowed, v) == {w \in allowed : w > v}

\* Mutant: December is followed by January of the same year.
next_month_wraps(y, m) == IF m + 1 > Months THEN at_year_start(y) ELSE at_month_start(y, m + 1)
next_month(y, m) == IF m + 1 > Months THEN at_year_start(y + 1) ELSE at_month_start(y, m + 1)

YearFits == year(candidate) \in spec.year
MonthFits == YearFits /\ month(candidate) \in spec.month
DayFits == MonthFits /\ day(candidate) \in spec.day
WeekdayFits == DayFits /\ weekday(candidate) \in spec.weekdays
HourFits == WeekdayFits /\ hour(candidate) \in spec.hour
MinuteFits == HourFits /\ minute(candidate) \in spec.minute
SecondFits == MinuteFits /\ second(candidate) \in spec.second

skip_year ==
  /\ Turn /\ ~YearFits
  /\ LET ys == Later(spec.year, year(candidate))
     IN IF ys = {} THEN Return(Never) ELSE Go(at_year_start(Min(ys)))

skip_month ==
  /\ Turn /\ YearFits /\ ~MonthFits
  /\ LET ms == Later(spec.month, month(candidate))
     IN Go(IF ms = {} THEN at_year_start(year(candidate) + 1)
           ELSE at_month_start(year(candidate), Min(ms)))

skip_day ==
  /\ Turn /\ MonthFits /\ ~DayFits
  /\ LET max_day == days_in_month(year(candidate), month(candidate))
         ds == {d \in Later(spec.day, day(candidate)) : d <= max_day}
     IN Go(IF ds = {} THEN next_month(year(candidate), month(candidate))
           ELSE at_day_start(year(candidate), month(candidate), Min(ds)))

skip_weekday ==
  /\ Turn /\ DayFits /\ ~WeekdayFits
  /\ Go(IF day(candidate) + 1 > days_in_month(year(candidate), month(candidate))
        THEN next_month(year(candidate), month(candidate))
        ELSE at_day_start(year(candidate), month(candidate), day(candidate) + 1))

\* Mutant: the minutes and seconds are kept.
skip_hour_keeps ==
  /\ Turn /\ WeekdayFits /\ ~HourFits
  /\ LET hs == Later(spec.hour, hour(candidate))
     IN Go(IF hs = {} THEN DayStart(candidate) + DaySeconds
           ELSE candidate + (Min(hs) - hour(candidate)) * Minutes * Seconds)

skip_hour ==
  /\ Turn /\ WeekdayFits /\ ~HourFits
  /\ LET hs == Later(spec.hour, hour(candidate))
     IN Go(IF hs = {} THEN DayStart(candidate) + DaySeconds
           ELSE DayStart(candidate) + Min(hs) * Minutes * Seconds)

skip_minute ==
  /\ Turn /\ HourFits /\ ~MinuteFits
  /\ LET ms == Later(spec.minute, minute(candidate))
         hour_start == candidate - (candidate % (Minutes * Seconds))
     IN Go(IF ms = {} THEN hour_start + Minutes * Seconds ELSE hour_start + Min(ms) * Seconds)

skip_second ==
  /\ Turn /\ MinuteFits /\ ~SecondFits
  /\ LET ss == Later(spec.second, second(candidate))
         minute_start == candidate - (candidate % Seconds)
     IN Go(IF ss = {} THEN minute_start + Seconds ELSE minute_start + Min(ss))

found == Turn /\ SecondFits /\ Return(candidate)

give_up == answer = Searching /\ candidate >= limit /\ Return(Never)

SearchNext == skip_year \/ skip_month \/ skip_day \/ skip_weekday \/ skip_hour
          \/ skip_minute \/ skip_second \/ found \/ give_up

SearchSpec == SearchInit /\ [][SearchNext]_search /\ WF_search(SearchNext)

-----------------------------------------------------------------------------
\* No jump over years, months, days, hours or minutes passes an instant that the line
\* describes, and the answer is the first such instant (schedule.rs:7-16).
FirstMatch ==
  LET after(t) == {u \in described : u > t}
  IN /\ answer = Searching => \A t \in after(cursor) : t >= candidate
     /\ asked = "next" /\ answer = Never => \A t \in after(from) : t >= limit
     /\ asked = "next" /\ answer >= 0 => answer = Min(after(from))

\* prev_fire finds the last instant that is not later than `before`, or none in the
\* time it looks back, as long as its turns suffice (schedule.rs:214-226).
LatestPast ==
  asked = "prev" /\ answer # Searching /\ turns < MaxTurns =>
    LET past == {t \in described : from - Lookback * DaySeconds < t /\ t <= from}
    IN answer = IF past = {} THEN Never ELSE Max(past)

\* Both searches end, whatever the line describes: a day that no month has, years
\* that are over, a weekday that never falls on the date.
Returns == <>(answer # Searching)
=============================================================================
