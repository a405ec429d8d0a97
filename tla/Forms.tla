------------------------------- MODULE Forms -------------------------------
(***************************************************************************)
(* What the forms of the dashboard send, and the ranges the API's schema   *)
(* accepts.  A number field is an integer, 0 when empty or not a number;   *)
(* an error bound is in hundredths.  A source is the kind of text it is:   *)
(* "blank", a JSON "object", or other "text".                              *)
(***************************************************************************)
EXTENDS Integers

Absent  == 0
Sources == {"blank", "object", "text"}
Formats == {"json", "text"}     \* "text": openqasm2, openqasm3, qmod, csv

Limits == [shots: Int, maxDepth: Int, errorBound: Int, timeout: Int]
Values == [format: Formats, source: Sources, limits: Limits]

NoLimits == [shots |-> 1024, maxDepth |-> Absent, errorBound |-> Absent,
             timeout |-> Absent]
DEFAULT_FORM_VALUES == [format |-> "text", source |-> "blank", limits |-> NoLimits]

\* The shots field is clamped as it is edited.
ClampShots(n) == IF n < 1 THEN 1 ELSE IF n > 100000 THEN 100000 ELSE n

EnteredLimits(l) == [l EXCEPT !.shots = ClampShots(@)]

-----------------------------------------------------------------------------
optAny(n) == n
opt(n) == IF n > 0 THEN n ELSE Absent

BodyLimits(l) ==
  [shots      |-> l.shots,
   maxDepth   |-> opt(l.maxDepth),
   errorBound |-> IF opt(l.errorBound) > 100 THEN Absent ELSE opt(l.errorBound),
   timeout    |-> IF opt(l.timeout) > 600 THEN 600 ELSE opt(l.timeout)]

\* Whether building the request throws: no source, or JSON that is no object.
Throws(v) == v.source = "blank" \/ (v.format = "json" /\ v.source # "object")

BuildQuoteRequest(v) ==
  [format |-> v.format, payload |-> v.source, limits |-> BodyLimits(v.limits)]

\* Flags, bit strings and texts are added to it, none of them with a range.
BuildOptimizeRequest(v) == BuildQuoteRequest(v)

\* The interpret page has no number fields.
BuildInterpretRequest(v) ==
  [format |-> v.format, payload |-> v.source, limits |-> NoLimits]

-----------------------------------------------------------------------------
\* The ranges of OptimizeRequest, Constraints and RedundancyMode.
LimitsAccepted(l) ==
  /\ l.shots >= 1 /\ l.shots <= 100000
  /\ l.maxDepth = Absent \/ l.maxDepth >= 1
  /\ l.errorBound = Absent \/ (l.errorBound >= 1 /\ l.errorBound <= 100)
  /\ l.timeout = Absent \/ (l.timeout >= 1 /\ l.timeout <= 600)
=============================================================================
