---------------------------- MODULE MCOnCalendar ----------------------------
(***************************************************************************)
(* A calendar of five years of three short months, one of them with a leap *)
(* day every other year, weeks of four days, days of twelve seconds.       *)
(***************************************************************************)
EXTENDS OnCalendar

FiveYears == <<<<1, 1, 1>>, <<1, 1, 2>>, <<1, 1, 3>>, <<1, 2, 1>>, <<1, 2, 2>>, <<1, 3, 1>>,
  <<1, 3, 2>>, <<2, 1, 1>>, <<2, 1, 2>>, <<2, 1, 3>>, <<2, 2, 1>>, <<2, 3, 1>>, <<2, 3, 2>>,
  <<3, 1, 1>>, <<3, 1, 2>>, <<3, 1, 3>>, <<3, 2, 1>>, <<3, 2, 2>>, <<3, 3, 1>>, <<3, 3, 2>>,
  <<4, 1, 1>>, <<4, 1, 2>>, <<4, 1, 3>>, <<4, 2, 1>>, <<4, 3, 1>>, <<4, 3, 2>>, <<5, 1, 1>>,
  <<5, 1, 2>>, <<5, 1, 3>>, <<5, 2, 1>>, <<5, 2, 2>>, <<5, 3, 1>>, <<5, 3, 2>>>>

Val(v) == <<[range |-> <<v, v>>, step |-> 1]>>
Span(a, b, s) == <<[range |-> <<a, b>>, step |-> s]>>
Every(s) == <<[range |-> All, step |-> s]>>

Dates == {[is |-> "date", fields |-> f] : f \in
  { <<Star>>, <<Star, Star, Val(3)>>, <<Star, Val(2), Val(2)>>, <<Val(2), Val(2)>>,
    <<Val(3), Star, Star>>, <<Val(1), Val(1), Val(1)>>, <<Star, Every(2), Val(1) \o Val(3)>>,
    <<Span(2, 3, 1), Val(2) \o Val(3), Every(2)>> }}
Times == {[is |-> "time", fields |-> f] : f \in
  { <<Star, Star, Star>>, <<Star, Star>>, <<Val(1), Val(1), Val(1)>>, <<Every(2), Star, Val(1)>>,
    <<Val(2), Val(0)>>, <<Span(1, 2, 9), Val(1), Star>> }}
Weekdays == {[is |-> "weekdays", days |-> d] : d \in {{<<2, 2>>}, {<<4, 1>>}, {<<1, 1>>, <<3, 4>>}}}
Zone == [is |-> "zone"]

Maybe(S) == {<<>>} \cup {<<x>> : x \in S}
AllLines ==
  {w \o d \o t : w \in Maybe(Weekdays), d \in Maybe(Dates), t \in Maybe(Times)}
    \cup {<<Zone>>, <<CHOOSE t \in Times : TRUE, Zone, Zone>>}
    \cup {<<[is |-> "time", fields |-> <<Span(2, 1, 1), Star>>]>>,
          <<[is |-> "time", fields |-> <<Every(0), Star>>]>>}
    \cup {t \o d \o <<Zone>> : d \in {<<x>> : x \in Dates}, t \in {<<x>> : x \in Times}}
AllStarts == {84, 95, 96, 107, 120, 133, 168, 179, 191, 203}
=============================================================================
