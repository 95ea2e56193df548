--------------------------- MODULE MCCommandLine ---------------------------
(* Instances of CommandLine for TLC. *)
EXTENDS CommandLine

CONSTANTS n, minus, zero, text, dashed

MCNumber == {n, minus, zero}
MCNegative == {minus}
MCText == {text, dashed}

O(o) == [option |-> o, argument |-> "none"]
V(o, v) == [option |-> o, argument |-> v]
T(v) == [option |-> "none", argument |-> v]

Line(c, w) == [command |-> c, words |-> w]

\* The words of auto-watering lines: switches, a start with and without a
\* name, numbers in the word, after it, missing, misspelt and negative.
AutoWatering == {
  <<O("start")>>,
  <<V("start", text), O("enable-pump")>>,
  <<O("stop"), O("disable-pump"), O("start")>>,
  <<O("disable-valve"), V("stop", n)>>,
  <<O("help"), O("stop")>>,
  <<O("activation-time"), T(n), V("activation-time", minus)>>,
  <<V("valve-pin-id", n), O("pump-pin-id"), O("stop")>>,
  <<O("stop"), O("deactivation-time")>>,
  <<V("pumpvalve-deactsep-time", zero), O("--"), O("stop")>>,
  <<O("other"), T(text)>>,
  <<>>}

ProjectWords == {
  <<O("create"), T(text)>>,
  <<O("save"), V("save-to", n)>>,
  <<O("help"), O("load")>>,
  <<O("load"), O("save")>>,
  <<O("create")>>}

MCLines ==
  {Line("auto-watering", w) : w \in AutoWatering}
    \cup {Line("project", w) : w \in ProjectWords}
    \cup {Line(c, w) : c \in {"abort", "status"}, w \in {<<>>, <<O("help")>>}}

MCLaunches == {<<>>, <<O("version")>>, <<O("help"), O("version")>>, <<T(text)>>}

\* Two lines that start nothing.
PumpLines == {Line("auto-watering", <<O("disable-pump")>>),
              Line("auto-watering", <<O("enable-pump")>>)}
NoLaunch == {<<>>}

=============================================================================
