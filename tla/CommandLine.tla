---------------------------- MODULE CommandLine ----------------------------
(***************************************************************************)
(* From the words an operator types to the calls they make: the terminal   *)
(* loop (greenhouse-controller-application.cpp), the commands (commands/,  *)
(* automatic-watering-command.cpp), the options registered for them        *)
(* (entry-point.cpp, commands-factory.cpp), and the wrapper over popl that *)
(* keeps what was parsed (gh_cmd.hpp).                                     *)
(*                                                                         *)
(* An option keeps every value it was given since it was last cleared, and *)
(* whether it counts as typed depends on how many those are and on the     *)
(* last of them, differently for each kind of option; clearing an option   *)
(* gives it a value, too.  The module keeps the number and the last value, *)
(* and beside them, in given and typed, what the operator in fact typed.   *)
(*                                                                         *)
(* What the calls do is modelled in DailyCycleAWS, WateringOutputs and     *)
(* ProjectLifecycle.  Printing is left out.                                *)
(***************************************************************************)
EXTENDS Naturals, Sequences

CONSTANTS
  Number,      (* arguments that are numbers                               *)
  Negative,    (* those below zero                                         *)
  Zero,        (* the number 0                                             *)
  Text,        (* other arguments: names, paths, misspelt numbers          *)
  OptionText,  (* what a word that looks like an option is, as an argument *)
  Lines,       (* the lines an operator may type: [command, words]         *)
  Launches     (* the words on the command line of the process             *)

-----------------------------------------------------------------------------
(* Options *)

Duration == {"activation-time", "deactivation-time", "pumpvalve-deactsep-time"}
PinId    == {"valve-pin-id", "pump-pin-id"}
Numeric  == Duration \cup PinId

\* CreateAutomaticWateringCommand, in the order of registration.
AutoWateringOptions ==
  <<"help", "stop", "start", "activation-time", "deactivation-time",
    "pumpvalve-deactsep-time", "valve-pin-id", "pump-pin-id", "disable-pump",
    "disable-valve", "enable-pump", "enable-valve">>

ProjectOptions     == <<"help", "create", "save", "save-to", "load">>
AbortOptions       == <<"help">>
StatusOptions      == <<"help">>
ApplicationOptions == <<"version", "help">>

Registered ==
  [c \in {"auto-watering", "project", "abort", "status", "rpi_gc"} |->
     CASE c = "auto-watering" -> AutoWateringOptions
       [] c = "project"       -> ProjectOptions
       [] c = "abort"         -> AbortOptions
       [] c = "status"        -> StatusOptions
       [] OTHER               -> ApplicationOptions]

Command == DOMAIN Registered

OptionsOf(c) == {Registered[c][i] : i \in DOMAIN Registered[c]}
Option == UNION {OptionsOf(c) : c \in Command}
Slot == {s \in Command \X Option : s[2] \in OptionsOf(s[1])}

Kind(o) ==
  CASE o \in Numeric \cup {"create", "save-to", "load"} -> "value"
    [] o = "start"                                      -> "implicit"
    [] OTHER                                            -> "switch"

\* What a word says: an option, perhaps with an argument; or just a text, an
\* option nobody registered, or the "--" that ends the options.  A group of
\* short options is a word for each.
Argument == Number \cup Text
Word == [option : Option \cup {"none", "other", "--"}, argument : Argument \cup {"none"}]

ASSUME InputAssumption ==
  /\ Negative \subseteq Number /\ Zero \in Number \ Negative
  /\ OptionText \in Text /\ Number \cap Text = {}
  /\ {"none", "empty", "true", "default"} \cap Argument = {}
  /\ Launches \subseteq Seq(Word)
  /\ Lines \subseteq [command : Command \ {"rpi_gc"}, words : Seq(Word)]

VARIABLES
  pc,       (* where the terminal thread is                                *)
  stream,   (* "open" until the last line of the input is read: good()     *)
  command,  (* the command being parsed or executed                        *)
  words,    (* lineTokens, without the command's name                      *)
  next,     (* the next word to parse, or the next option to look at       *)
  options,  (* per option, how many values it holds and the last of them   *)
  given,    (* history: the last argument typed since the option was       *)
            (* cleared                                                     *)
  typed,    (* history: the options on the current line                    *)
  calls     (* what the current line has called                            *)

input == <<stream, command, words>>
vars  == <<pc, input, next, options, given, typed, calls>>

(* The values an option holds: an argument, "true" for a switch, "default" *)
(* for --start without a name, "empty" for the value_type{} of clear().    *)
Held(o) ==
  CASE o \in Numeric     -> Number \cup {"empty"}
    [] o = "start"       -> Argument \cup {"default", "empty"}
    [] Kind(o) = "value" -> Argument \cup {"empty"}
    [] OTHER             -> {"true", "empty"}

\* The constructor of a Value clears it, the others start without a value.
Fresh(o) == [count |-> IF Kind(o) = "value" THEN 1 ELSE 0, last |-> "empty"]

\* add_value; more than two values are not told apart.
Add(held, v) == [count |-> IF held.count = 0 THEN 1 ELSE 2, last |-> v]

\* clear() is set_value(value_type{}): it leaves one value, for every kind.
Cleared == [count |-> 1, last |-> "empty"]

SwitchIsSet(held) == held.count > 0 /\ held.last = "true"

ImplicitIsSet(held) == held.count > 0

\* Mutant: the value that clear() leaves counts as typed.
ValueIsSetAnyway(held) == held.count > 0

\* The value that clear() leaves is not counted.
ValueIsSet(held) == held.count > 1

IsSet(c, o) ==
  LET held == options[<<c, o>>]
  IN  CASE Kind(o) = "switch" -> SwitchIsSet(held)
        [] Kind(o) = "value"  -> ValueIsSet(held)
        [] OTHER              -> ImplicitIsSet(held)

\* The process is launched: its own command line is parsed first.
Init ==
  /\ pc = "parse" /\ stream = "open"
  /\ command = "rpi_gc" /\ words \in Launches /\ next = 1
  /\ options = [s \in Slot |-> Fresh(s[2])]
  /\ given = [s \in Slot |-> "none"]
  /\ typed = {} /\ calls = <<>>

-----------------------------------------------------------------------------
(* The terminal loop *)

\* Mutant: the loop does not look at the stream.
ContinueAnyway(goodBit) == pc' = "read"

\* while (inputLine != EXIT && m_inputStream.get().good())
Continue(goodBit) == pc' = IF goodBit = "open" THEN "read" ELSE "teardown"

NextLine == Continue(stream)

\* A line may be the last the stream has.
ReadLine ==
  /\ pc = "read" /\ stream = "open"
  /\ stream' \in {"open", "ended"}
  /\ typed' = {} /\ calls' = <<>>
  /\ UNCHANGED <<options, given>>

\* Nothing to run: an empty line, an unknown command, help, version, or "exit"
\* with something after or before it.
ReadNothing == ReadLine /\ Continue(stream') /\ UNCHANGED <<command, words, next>>

\* A line of blanks has no token, and lineTokens[0] is read all the same.
ReadBlanks == ReadLine /\ pc' = "crashed" /\ UNCHANGED <<command, words, next>>

ReadExit == ReadLine /\ pc' = "teardown" /\ UNCHANGED <<command, words, next>>

ReadCommand ==
  /\ ReadLine
  /\ \E l \in Lines : command' = l.command /\ words' = l.words
  /\ next' = 1 /\ pc' = "parse"

\* The registered systems are asked to shut down.
Teardown ==
  /\ pc = "teardown"
  /\ calls' = Append(calls, [option |-> "stop", value |-> "none"])
  /\ pc' = "over"
  /\ UNCHANGED <<input, next, options, given, typed>>

-----------------------------------------------------------------------------
(* Parsing: one word per step *)

ThisWord == words[next]
Parsing == pc = "parse" /\ next <= Len(words)
IsRegistered == ThisWord.option \in OptionsOf(command)

Skip(to) ==
  /\ next' = to
  /\ UNCHANGED <<pc, input, options, given, typed, calls>>

\* After "--" nothing is an option.
EndOptions == Parsing /\ ThisWord.option = "--" /\ Skip(Len(words) + 1)

\* Other options and arguments, and a switch with an argument, are ignored.
IgnoreWord ==
  /\ Parsing /\ ThisWord.option # "--"
  /\ \/ ~IsRegistered
     \/ Kind(ThisWord.option) = "switch" /\ ThisWord.argument # "none"
  /\ Skip(next + 1)

\* Option o takes the value v.
Take(o, v, to) ==
  LET s == <<command, o>>
  IN  /\ options' = [options EXCEPT ![s] = Add(@, v)]
      /\ given' = [given EXCEPT ![s] = v]
      /\ typed' = typed \cup {o}
      /\ next' = to
      /\ UNCHANGED <<pc, input, calls>>

TakeSwitch ==
  /\ Parsing /\ IsRegistered
  /\ Kind(ThisWord.option) = "switch" /\ ThisWord.argument = "none"
  /\ Take(ThisWord.option, "true", next + 1)

\* --start takes an argument of the same word only.
TakeImplicit ==
  /\ Parsing /\ IsRegistered /\ Kind(ThisWord.option) = "implicit"
  /\ Take(ThisWord.option,
          IF ThisWord.argument = "none" THEN "default" ELSE ThisWord.argument,
          next + 1)

\* A value's argument is in the word or is the next word, whatever that is.
TakesNext == ThisWord.argument = "none" /\ next < Len(words)

ValueTyped ==
  CASE ~TakesNext                          -> ThisWord.argument
    [] words[next + 1].option = "none"     -> words[next + 1].argument
    [] OTHER                               -> OptionText

\* Mutant: a text is taken for a number.
AcceptsAny(o, v) == v # "none"

Accepts(o, v) == v \in IF o \in Numeric THEN Number ELSE Argument

TakeValue ==
  /\ Parsing /\ IsRegistered /\ Kind(ThisWord.option) = "value"
  /\ Accepts(ThisWord.option, ValueTyped)
  /\ Take(ThisWord.option, ValueTyped, IF TakesNext THEN next + 2 ELSE next + 1)

\* An argument that is missing or no number: popl throws, the command is not
\* executed, and the options keep what they took.
RefuseLine ==
  /\ Parsing /\ IsRegistered /\ Kind(ThisWord.option) = "value"
  /\ ~Accepts(ThisWord.option, ValueTyped)
  /\ NextLine
  /\ UNCHANGED <<input, next, options, given, typed, calls>>

EndOfWords ==
  /\ pc = "parse" /\ next > Len(words)
  /\ pc' = "execute"
  /\ UNCHANGED <<input, next, options, given, typed, calls>>

-----------------------------------------------------------------------------
(* Execution *)

\* ClearAllOptions
ClearAll ==
  /\ options' = [s \in Slot |-> IF s[1] = command THEN Cleared ELSE options[s]]
  /\ given' = [s \in Slot |-> IF s[1] = command THEN "none" ELSE given[s]]

\* HelpCommand and VersionCommand::executeAsOption end the process; without
\* them its loop begins.
RunApplication ==
  /\ pc = "execute" /\ command = "rpi_gc"
  /\ IF IsSet(command, "help") \/ IsSet(command, "version")
       THEN pc' = "teardown"
       ELSE NextLine
  /\ UNCHANGED <<input, next, options, given, typed, calls>>

\* --help is shown, and nothing else done.
ShowHelp ==
  /\ pc = "execute" /\ command # "rpi_gc" /\ IsSet(command, "help")
  /\ ClearAll /\ NextLine
  /\ UNCHANGED <<input, next, typed, calls>>

Asked(c) == pc = "execute" /\ command = c /\ ~IsSet(c, "help")

Status ==
  /\ Asked("status")
  /\ NextLine
  /\ UNCHANGED <<input, next, options, given, typed, calls>>

Abort ==
  /\ Asked("abort")
  /\ calls' = Append(calls, [option |-> "abort", value |-> "none"])
  /\ NextLine
  /\ UNCHANGED <<input, next, options, given, typed>>

\* Mutant: the other options of the line are looked at after --stop.
StopAndGoOn ==
  /\ Asked("auto-watering") /\ IsSet(command, "stop")
  /\ calls' = Append(calls, [option |-> "stop", value |-> "none"])
  /\ pc' = "fire" /\ next' = 1
  /\ UNCHANGED <<input, options, given, typed>>

\* --stop has the precedence.
Stop ==
  /\ Asked("auto-watering") /\ IsSet(command, "stop")
  /\ calls' = Append(calls, [option |-> "stop", value |-> "none"])
  /\ ClearAll /\ NextLine
  /\ UNCHANGED <<input, next, typed>>

BeginEvents ==
  /\ \/ Asked("auto-watering") /\ ~IsSet(command, "stop")
     \/ Asked("project")
  /\ pc' = "fire" /\ next' = 1
  /\ UNCHANGED <<input, options, given, typed, calls>>

\* The name a start passes on: none if it is not typed.
FlowName(v) == IF v \in {"default", "empty"} THEN "none" ELSE v

\* ClampWithError: at least 0.
ClampWithError(v) == IF v \in Negative THEN Zero ELSE v

\* The event of option o, which holds v: what it calls the system with.
Event(o, v) ==
  [option |-> o,
   value  |-> CASE o = "start"         -> FlowName(v)
                [] o \in Duration      -> ClampWithError(v)
                [] Kind(o) = "switch"  -> "none"
                [] OTHER               -> v]

Firing == pc = "fire" /\ next <= Len(Registered[command])
ThisOption == Registered[command][next]

\* Mutant: the first option that is set is the last looked at.
FireFirst ==
  /\ Firing /\ IsSet(command, ThisOption)
  /\ calls' = Append(calls, Event(ThisOption, options[<<command, ThisOption>>].last))
  /\ next' = Len(Registered[command]) + 1
  /\ UNCHANGED <<pc, input, options, given, typed>>

\* The options' events, in the order of registration.
FireEvent ==
  /\ Firing /\ IsSet(command, ThisOption)
  /\ calls' = Append(calls, Event(ThisOption, options[<<command, ThisOption>>].last))
  /\ next' = next + 1
  /\ UNCHANGED <<pc, input, options, given, typed>>

PassOption == Firing /\ ~IsSet(command, ThisOption) /\ Skip(next + 1)

EndEvents ==
  /\ pc = "fire" /\ next > Len(Registered[command])
  /\ ClearAll /\ NextLine
  /\ UNCHANGED <<input, next, typed, calls>>

-----------------------------------------------------------------------------

Read == ReadNothing \/ ReadBlanks \/ ReadExit \/ ReadCommand

Parse ==
  EndOptions \/ IgnoreWord \/ TakeSwitch \/ TakeImplicit \/ TakeValue
  \/ RefuseLine \/ EndOfWords

Execute ==
  RunApplication \/ ShowHelp \/ Status \/ Abort \/ Stop \/ BeginEvents
  \/ FireEvent \/ PassOption \/ EndEvents

Next == Read \/ Parse \/ Execute \/ Teardown

Spec == Init /\ [][Next]_vars

\* The thread runs; only the operator's next line may never come.
FairSpec == Spec /\ WF_vars(Parse \/ Execute \/ Teardown)

-----------------------------------------------------------------------------
(* Properties *)

TypeOK ==
  /\ pc \in {"read", "parse", "execute", "fire", "teardown", "over", "crashed"}
  /\ stream \in {"open", "ended"}
  /\ command \in Command /\ words \in Seq(Word) /\ next \in Nat \ {0}
  /\ DOMAIN options = Slot
  /\ \A s \in Slot : options[s] \in [count : 0 .. 2, last : Held(s[2])]
  /\ given \in [Slot -> Argument \cup {"none", "true", "default"}]
  /\ typed \subseteq Option
  /\ calls \in Seq([option : Option \cup {"abort"}, value : Argument \cup {"none"}])

(* Whatever was typed, refused and cleared before: an option with a value, *)
(* and a switch, counts as set exactly if it was typed since it was last   *)
(* cleared, and holds what was typed (gh_cmd.hpp:75, "Checks whether or    *)
(* not this option was set at least once in the given input lines", and    *)
(* :78, "resetting it.  After this call, isSet() == false").               *)
SetIffTyped ==
  \A s \in Slot : Kind(s[2]) # "implicit" =>
    /\ IsSet(s[1], s[2]) <=> given[s] # "none"
    /\ IsSet(s[1], s[2]) => options[s].last = given[s]

(* The same of every option: no event is called for an option that is not  *)
(* on the line (automatic-watering-command.cpp:94, "otherwise the next     *)
(* time the user types it, it will execute all of the previous options").  *)
EventsWereTyped ==
  pc \in {"execute", "fire", "read"} /\ command \in {"auto-watering", "project"} =>
    \A i \in DOMAIN calls : calls[i].option \in typed

(* A line with a stop does nothing else (automatic-watering-command.cpp:70,*)
(* "Stop has the precedence on all").                                      *)
StopWins ==
  pc # "over" => \A i \in DOMAIN calls : calls[i].option = "stop" => Len(calls) = 1

(* When a line has been executed, every option on it has called its event  *)
(* with the last value typed for it.                                       *)
TypedOptionsFire ==
  [][pc = "fire" /\ pc' # "fire" =>
       \A o \in typed : \E i \in DOMAIN calls :
         calls[i] = Event(o, given[<<command, o>>])]_vars

(* Once the input ends the process does, its last call a shutdown of the   *)
(* watering system; or the last line crashed it.                           *)
InputEndsLoop ==
  stream = "ended" ~> \/ pc = "crashed"
                      \/ pc = "over" /\ calls[Len(calls)].option = "stop"

=============================================================================
