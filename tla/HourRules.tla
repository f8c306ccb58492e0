------------------------------ MODULE HourRules ------------------------------
(***************************************************************************)
(* Which energy provider a rule such as "22-6" names at an hour, as        *)
(* resolveProviderByRule and inHourRange compute it                        *)
(* (internal/web/server.go, and once more in internal/hdwallet/collect.go).*)
(* Between the two hours, both included, it is trxfee, else catfee.        *)
(***************************************************************************)
EXTENDS Integers

Hours == 0 .. 23

StraightHours(currentHour, start, end) == currentHour \in start .. end

RoundTheClock(currentHour, start, end) ==
    IF start <= end THEN currentHour \in start .. end
    ELSE currentHour >= start \/ currentHour <= end

\* Midnight may be written 24: as a start it is hour 0, as an end it closes hour 23.
InHourRange(currentHour, start, end) ==
    LET from == IF start = 24 THEN 0 ELSE start
        to   == IF end = 24 THEN 23 ELSE end IN
    RoundTheClock(currentHour, from, to)

\* A rule is a provider's name or a pair of hours; hours out of 0 .. 24 and
\* anything else are no rule.
IsPair(rule) == DOMAIN rule = {"start", "end"}
IsRule(rule) == IsPair(rule) => rule.start \in 0 .. 24 /\ rule.end \in 0 .. 24

ResolveProviderByRule(rule, currentHour) ==
    IF ~IsPair(rule) THEN rule.name
    ELSE IF InHourRange(currentHour, rule.start, rule.end) THEN "trxfee" ELSE "catfee"

-----------------------------------------------------------------------------
(* The hours an operator means: walking round the clock from the start to  *)
(* the end.                                                                *)
Window(start, end) ==
    LET from == start % 24
        to   == IF end = 24 THEN 23 ELSE end IN
    {(from + k) % 24 : k \in 0 .. (to - from) % 24}
=============================================================================
