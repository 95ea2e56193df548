------------------------- MODULE CommandLineProofs -------------------------
(***************************************************************************)
(* The properties of CommandLine, proved for any arguments, any lines and  *)
(* any command line of the process.                                        *)
(*                                                                         *)
(* SetIffTyped needs what the constructors and clear() leave in a Value: a *)
(* value that nobody typed (HeldInv).  StopWins and TypedOptionsFire need  *)
(* what is known when the events are called: neither --help nor --stop is  *)
(* set (FireInv), and every option on the line that has been passed has    *)
(* made its call (PassedInv).                                              *)
(***************************************************************************)
EXTENDS CommandLine, TLAPS

\* What an option holds was typed, but for what clear() put there.
HeldInv == \A s \in Slot :
  /\ Kind(s[2]) = "value" => options[s].count > 0
  /\ given[s] # "none" => options[s].last = given[s] /\ options[s].count > 0
  /\ given[s] # "none" /\ Kind(s[2]) = "value" => options[s].count > 1
  /\ given[s] # "none" /\ Kind(s[2]) = "switch" => given[s] = "true"
  /\ given[s] = "none" /\ Kind(s[2]) = "value" => options[s].count = 1
  /\ given[s] = "none" /\ Kind(s[2]) = "switch" => options[s].last = "empty"

\* The options on the line being parsed or executed are the command's, and
\* hold what they were given.
TypedInv ==
  /\ pc \in {"parse", "execute", "fire"} =>
       \A o \in typed : o \in OptionsOf(command) /\ given[<<command, o>>] # "none"
  /\ pc \in {"parse", "execute"} => calls = <<>>

\* Where the events are called.
FireInv ==
  pc = "fire" =>
    /\ command \in {"auto-watering", "project"}
    /\ ~IsSet(command, "help")
    /\ command = "auto-watering" => ~IsSet(command, "stop")
    /\ \A i \in DOMAIN calls : calls[i].option # "stop"

\* The options that have been passed have called their events.
PassedInv ==
  pc = "fire" =>
    \A j \in DOMAIN Registered[command] :
      j < next /\ Registered[command][j] \in typed =>
        \E i \in DOMAIN calls :
          calls[i] = Event(Registered[command][j],
                           given[<<command, Registered[command][j]>>])

\* The inductive invariant.
CommandInv == TypeOK /\ HeldInv /\ TypedInv /\ FireInv /\ PassedInv /\ StopWins

-----------------------------------------------------------------------------
(* The options and their kinds *)

LEMMA Commands == Command = {"auto-watering", "project", "abort", "status", "rpi_gc"}
BY DEF Command, Registered

LEMMA RegisteredSequence ==
  ASSUME NEW c \in Command
  PROVE  /\ Len(Registered[c]) \in Nat /\ DOMAIN Registered[c] = 1 .. Len(Registered[c])
         /\ \A i \in DOMAIN Registered[c] : Registered[c][i] \in OptionsOf(c)
<1>1. Registered[c] \in {AutoWateringOptions, ProjectOptions, AbortOptions,
                        StatusOptions, ApplicationOptions}
  BY Commands DEF Registered
<1>2. Len(Registered[c]) \in Nat /\ DOMAIN Registered[c] = 1 .. Len(Registered[c])
  BY <1>1 DEF AutoWateringOptions, ProjectOptions, AbortOptions, StatusOptions,
       ApplicationOptions
<1> QED
  BY <1>2 DEF OptionsOf

LEMMA SlotsOf ==
  ASSUME NEW c \in Command, NEW o \in OptionsOf(c)
  PROVE  o \in Option /\ <<c, o>> \in Slot
BY DEF Option, Slot

LEMMA OptionNames ==
  /\ \A c \in Command : "help" \in OptionsOf(c)
  /\ "stop" \in OptionsOf("auto-watering") /\ "stop" \notin OptionsOf("project")
  /\ "version" \in OptionsOf("rpi_gc")
<1>1. OptionsOf("auto-watering") = {AutoWateringOptions[i] : i \in 1 .. 12}
  BY DEF OptionsOf, Registered, AutoWateringOptions
<1>2. OptionsOf("project") = {"help", "create", "save", "save-to", "load"}
  BY DEF OptionsOf, Registered, ProjectOptions
<1>3. OptionsOf("abort") = {"help"} /\ OptionsOf("status") = {"help"}
  BY DEF OptionsOf, Registered, AbortOptions, StatusOptions
<1>4. OptionsOf("rpi_gc") = {"version", "help"}
  BY DEF OptionsOf, Registered, ApplicationOptions
<1>5. "help" \in OptionsOf("auto-watering") /\ "stop" \in OptionsOf("auto-watering")
  BY <1>1 DEF AutoWateringOptions
<1> QED
  BY <1>2, <1>3, <1>4, <1>5, Commands

LEMMA Kinds ==
  /\ \A o : Kind(o) \in {"value", "implicit", "switch"}
  /\ Kind("help") = "switch" /\ Kind("stop") = "switch"
  /\ \A o : Kind(o) = "value" => "empty" \in Held(o)
                /\ (\A v : Accepts(o, v) => v \in Held(o) /\ v \in Argument)
  /\ \A o : Kind(o) = "implicit" => Held(o) = Argument \cup {"default", "empty"}
  /\ \A o : Kind(o) = "switch" => Held(o) = {"true", "empty"}
BY DEF Kind, Held, Numeric, Duration, PinId, Accepts, Argument

LEMMA HeldEmpty == \A o : "empty" \in Held(o)
BY Kinds

-----------------------------------------------------------------------------
(* What the options hold *)

HeldOK ==
  /\ DOMAIN options = Slot
  /\ \A s \in Slot : options[s] \in [count : 0 .. 2, last : Held(s[2])]
  /\ given \in [Slot -> Argument \cup {"none", "true", "default"}]
  /\ HeldInv

\* What option o may be given.
Typable(o) ==
  CASE Kind(o) = "switch" -> {"true"}
    [] Kind(o) = "value"  -> {v \in Argument : Accepts(o, v)}
    [] OTHER              -> Argument \cup {"default"}

LEMMA TypableFacts ==
  ASSUME NEW o, NEW v \in Typable(o)
  PROVE  /\ v \in Held(o) /\ v \in Argument \cup {"true", "default"}
         /\ v # "none" /\ v # "empty"
         /\ Kind(o) = "switch" => v = "true"
BY Kinds, InputAssumption DEF Typable

\* A value that is typed.
LEMMA TakeKeepsHeld ==
  ASSUME HeldOK, command \in Command, NEW o \in OptionsOf(command),
         NEW v \in Typable(o), NEW to, Take(o, v, to)
  PROVE  HeldOK'
<1> DEFINE t == <<command, o>>
<1>1. t \in Slot /\ t[2] = o
  BY SlotsOf
<1>2. options' = [options EXCEPT ![t] = Add(options[t], v)] /\ given' = [given EXCEPT ![t] = v]
  BY DEF Take
<1>3. options'[t] = Add(options[t], v) /\ given'[t] = v
  BY <1>1, <1>2 DEF HeldOK
<1>4. \A s \in Slot : s # t => options'[s] = options[s] /\ given'[s] = given[s]
  BY <1>2 DEF HeldOK
<1>5. options[t] \in [count : 0 .. 2, last : Held(o)]
  BY <1>1 DEF HeldOK
<1>6. /\ Add(options[t], v) \in [count : 0 .. 2, last : Held(o)]
      /\ Add(options[t], v).last = v /\ Add(options[t], v).count > 0
      /\ options[t].count > 0 => Add(options[t], v).count > 1
  BY <1>5, TypableFacts DEF Add
<1>7. \A s \in Slot : options'[s] \in [count : 0 .. 2, last : Held(s[2])]
  BY <1>1, <1>3, <1>4, <1>6 DEF HeldOK
<1>8. given' \in [Slot -> Argument \cup {"none", "true", "default"}]
  BY <1>1, <1>2, TypableFacts DEF HeldOK
<1>9. HeldInv'
  <2> SUFFICES ASSUME NEW s \in Slot
               PROVE
      /\ Kind(s[2]) = "value" => options'[s].count > 0
      /\ given'[s] # "none" => options'[s].last = given'[s] /\ options'[s].count > 0
      /\ given'[s] # "none" /\ Kind(s[2]) = "value" => options'[s].count > 1
      /\ given'[s] # "none" /\ Kind(s[2]) = "switch" => given'[s] = "true"
      /\ given'[s] = "none" /\ Kind(s[2]) = "value" => options'[s].count = 1
      /\ given'[s] = "none" /\ Kind(s[2]) = "switch" => options'[s].last = "empty"
    BY DEF HeldInv
  <2>1. CASE s = t
    BY <2>1, <1>1, <1>3, <1>6, TypableFacts DEF HeldOK, HeldInv
  <2>2. CASE s # t
    BY <2>2, <1>4 DEF HeldOK, HeldInv
  <2> QED
    BY <2>1, <2>2
<1> QED
  BY <1>2, <1>7, <1>8, <1>9 DEF HeldOK

\* ClearAllOptions.
LEMMA ClearKeepsHeld == HeldOK /\ ClearAll => HeldOK'
<1> SUFFICES ASSUME HeldOK, ClearAll PROVE HeldOK'
  OBVIOUS
<1>1. \A s \in Slot : s[1] = command => options'[s] = Cleared /\ given'[s] = "none"
  BY DEF ClearAll
<1>2. \A s \in Slot : s[1] # command => options'[s] = options[s] /\ given'[s] = given[s]
  BY DEF ClearAll
<1>3. DOMAIN options' = Slot
  BY DEF ClearAll
<1>4. given' \in [Slot -> Argument \cup {"none", "true", "default"}]
  BY DEF ClearAll, HeldOK
<1>5. \A s \in Slot : options'[s] \in [count : 0 .. 2, last : Held(s[2])]
  BY <1>1, <1>2, HeldEmpty DEF HeldOK, Cleared
<1>6. HeldInv'
  BY <1>1, <1>2 DEF HeldOK, HeldInv, Cleared
<1> QED
  BY <1>3, <1>4, <1>5, <1>6 DEF HeldOK

\* The steps that parse a word.
LEMMA WordIsRegistered == IsRegistered => ThisWord.option \in OptionsOf(command)
BY DEF IsRegistered

LEMMA ParseKeepsHeld ==
  HeldOK /\ command \in Command /\ words \in Seq(Word) /\ next \in Nat \ {0} /\ Parse
    => HeldOK'
<1> SUFFICES ASSUME HeldOK, command \in Command, words \in Seq(Word), next \in Nat \ {0}, Parse
             PROVE  HeldOK'
  OBVIOUS
<1>1. CASE UNCHANGED <<options, given>>
  BY <1>1 DEF HeldOK, HeldInv
<1>2. CASE TakeSwitch
  <2>1. "true" \in Typable(ThisWord.option)
    BY <1>2 DEF TakeSwitch, Typable
  <2> QED
    BY <1>2, <2>1, TakeKeepsHeld DEF TakeSwitch, IsRegistered
<1>3. CASE TakeImplicit
  <2>1. ThisWord \in Word
    BY <1>3 DEF TakeImplicit, Parsing, ThisWord
  <2>2. (IF ThisWord.argument = "none" THEN "default" ELSE ThisWord.argument)
          \in Typable(ThisWord.option)
    BY <1>3, <2>1 DEF TakeImplicit, Typable, Word
  <2> QED
    BY <1>3, <2>2, TakeKeepsHeld DEF TakeImplicit, IsRegistered
<1>4. CASE TakeValue
  <2>1. ValueTyped \in Typable(ThisWord.option)
    BY <1>4, Kinds DEF TakeValue, Typable
  <2> QED
    BY <1>4, <2>1, TakeKeepsHeld DEF TakeValue, IsRegistered
<1> QED
  BY <1>1, <1>2, <1>3, <1>4 DEF Parse, EndOptions, IgnoreWord, RefuseLine, EndOfWords, Skip

LEMMA NextKeepsHeld == TypeOK /\ HeldInv /\ Next => HeldOK'
<1> SUFFICES ASSUME TypeOK, HeldInv, Next PROVE HeldOK'
  OBVIOUS
<1>1. HeldOK
  BY DEF TypeOK, HeldOK
<1>2. CASE Parse
  BY <1>1, <1>2, ParseKeepsHeld DEF TypeOK
<1>3. CASE ClearAll
  BY <1>1, <1>3, ClearKeepsHeld
<1>4. CASE UNCHANGED <<options, given>>
  BY <1>1, <1>4 DEF HeldOK, HeldInv
<1> QED
  BY <1>2, <1>3, <1>4
  DEF Next, Read, ReadNothing, ReadBlanks, ReadExit, ReadCommand, ReadLine, Execute,
      RunApplication, ShowHelp, Status, Abort, Stop, BeginEvents, FireEvent, PassOption,
      Skip, EndEvents, Teardown

-----------------------------------------------------------------------------
(* What the events are called with *)

Call == [option : Option \cup {"abort"}, value : Argument \cup {"none"}]

LEMMA EventIsCall ==
  ASSUME TypeOK, HeldInv, NEW o \in OptionsOf(command), IsSet(command, o)
  PROVE  Event(o, options[<<command, o>>].last) \in Call
<1> DEFINE t == <<command, o>>
<1> DEFINE v == options[t].last
<1>1. t \in Slot /\ t[2] = o /\ o \in Option
  BY SlotsOf DEF TypeOK
<1>2. options[t] \in [count : 0 .. 2, last : Held(o)] /\ v \in Held(o)
  BY <1>1 DEF TypeOK
<1>3. Kind(o) = "value" => v \in Argument
  <2> SUFFICES ASSUME Kind(o) = "value" PROVE v \in Argument
    OBVIOUS
  <2>1. options[t].count > 1
    BY DEF IsSet, ValueIsSet
  <2>2. given[t] # "none"
    BY <1>1, <2>1 DEF HeldInv
  <2>3. v = given[t] /\ given[t] \in Argument \cup {"none", "true", "default"}
    BY <1>1, <2>2 DEF HeldInv, TypeOK
  <2> QED
    BY <1>2, <2>2, <2>3, InputAssumption DEF Held, Numeric, Duration, PinId, Kind, Argument
<1>4. Kind(o) = "implicit" <=> o = "start"
  BY DEF Kind, Numeric, Duration, PinId
<1>5. o = "start" => FlowName(v) \in Argument \cup {"none"}
  BY <1>2, <1>4, Kinds DEF FlowName
<1>6. o \in Duration => Kind(o) = "value"
  BY DEF Kind, Numeric, Duration
<1>7. Kind(o) = "value" => ClampWithError(v) \in Argument
  BY <1>3, InputAssumption DEF ClampWithError, Argument
<1>8. Kind(o) \in {"value", "implicit", "switch"}
  BY Kinds
<1>9. (CASE o = "start"        -> FlowName(v)
         [] o \in Duration     -> ClampWithError(v)
         [] Kind(o) = "switch" -> "none"
         [] OTHER              -> v) \in Argument \cup {"none"}
  <2>1. CASE o = "start"
    <3>1. o \notin Duration /\ Kind(o) # "switch"
      BY <2>1, <1>4 DEF Duration
    <3> QED
      BY <2>1, <3>1, <1>5
  <2>2. CASE o \in Duration
    BY <2>2, <1>4, <1>6, <1>7
  <2>3. CASE Kind(o) = "switch"
    BY <2>3, <1>4, <1>6
  <2>4. CASE o # "start" /\ o \notin Duration /\ Kind(o) # "switch"
    BY <2>4, <1>3, <1>4, <1>8
  <2> QED
    BY <2>1, <2>2, <2>3, <2>4
<1> QED
  BY <1>1, <1>9 DEF Event, Call

\* An option that was typed is set, and what it holds is what was typed.
LEMMA TypedIsSet ==
  ASSUME TypeOK, HeldInv, NEW o \in OptionsOf(command), given[<<command, o>>] # "none"
  PROVE  IsSet(command, o) /\ options[<<command, o>>].last = given[<<command, o>>]
<1>1. <<command, o>> \in Slot /\ <<command, o>>[2] = o
  BY SlotsOf DEF TypeOK
<1> QED
  BY <1>1, Kinds DEF HeldInv, IsSet, SwitchIsSet, ValueIsSet, ImplicitIsSet

-----------------------------------------------------------------------------
(* The invariant *)

LEMMA CommandInit == Init => CommandInv
<1> SUFFICES ASSUME Init PROVE CommandInv
  OBVIOUS
<1>1. "rpi_gc" \in Command /\ words \in Seq(Word)
  BY Commands, InputAssumption DEF Init
<1>2. \A s \in Slot : options[s] \in [count : 0 .. 2, last : Held(s[2])]
  BY HeldEmpty DEF Init, Fresh
<1>3. calls \in Seq([option : Option \cup {"abort"}, value : Argument \cup {"none"}])
  BY DEF Init
<1>4. TypeOK
  BY <1>1, <1>2, <1>3 DEF Init, TypeOK
<1>5. HeldInv
  BY DEF Init, HeldInv, Fresh
<1> QED
  BY <1>4, <1>5 DEF Init, CommandInv, TypedInv, FireInv, PassedInv, StopWins

LEMMA TypesKept == CommandInv /\ Next => TypeOK' /\ HeldInv'
<1> SUFFICES ASSUME CommandInv, Next PROVE TypeOK' /\ HeldInv'
  OBVIOUS
<1>1. HeldOK'
  BY NextKeepsHeld DEF CommandInv
<1>2. calls' \in Seq(Call)
  <2>1. calls \in Seq(Call)
    BY DEF CommandInv, TypeOK, Call
  <2>2. \A o \in {"stop", "abort"} : [option |-> o, value |-> "none"] \in Call
    BY OptionNames, Commands, SlotsOf DEF Call
  <2>3. CASE FireEvent
    <3>1. ThisOption \in OptionsOf(command)
      BY <2>3, RegisteredSequence DEF FireEvent, Firing, ThisOption, CommandInv, TypeOK
    <3>2. Event(ThisOption, options[<<command, ThisOption>>].last) \in Call
      BY <2>3, <3>1, EventIsCall DEF FireEvent, CommandInv
    <3> QED
      BY <2>1, <2>3, <3>2 DEF FireEvent
  <2>4. CASE Teardown \/ Abort \/ Stop
    BY <2>1, <2>2, <2>4 DEF Teardown, Abort, Stop
  <2>5. CASE calls' = calls
    BY <2>1, <2>5
  <2>6. <<>> \in Seq(Call)
    OBVIOUS
  <2>7. CASE calls' = <<>>
    BY <2>6, <2>7
  <2> QED
    BY <2>3, <2>4, <2>5, <2>7
    DEF Next, Read, ReadNothing, ReadBlanks, ReadExit, ReadCommand, ReadLine, Parse,
        EndOptions, IgnoreWord, TakeSwitch, TakeImplicit, TakeValue, Take, RefuseLine,
        EndOfWords, Execute, RunApplication, ShowHelp, Status, BeginEvents, PassOption,
        Skip, EndEvents
<1>3. command' \in Command /\ words' \in Seq(Word) /\ stream' \in {"open", "ended"}
  BY InputAssumption
  DEF CommandInv, TypeOK, input, Next, Read, ReadNothing, ReadBlanks, ReadExit, ReadCommand,
      ReadLine, Parse, EndOptions, IgnoreWord, TakeSwitch, TakeImplicit, TakeValue, Take,
      RefuseLine, EndOfWords, Execute, RunApplication, ShowHelp, Status, Abort, Stop,
      BeginEvents, FireEvent, PassOption, Skip, EndEvents, Teardown
<1>4. next' \in Nat \ {0}
  <2>1. next \in Nat \ {0} /\ Len(words) \in Nat /\ Len(Registered[command]) \in Nat
    BY RegisteredSequence DEF CommandInv, TypeOK
  <2> QED
    BY <2>1
    DEF input, Next, Read, ReadNothing, ReadBlanks, ReadExit, ReadCommand,
        ReadLine, Parse, EndOptions, IgnoreWord, TakeSwitch, TakeImplicit, TakeValue, Take,
        RefuseLine, EndOfWords, Execute, RunApplication, ShowHelp, Status, Abort, Stop,
        BeginEvents, FireEvent, PassOption, Skip, EndEvents, Teardown
<1>5. typed' \subseteq Option
  BY SlotsOf
  DEF CommandInv, TypeOK, Next, Read, ReadNothing, ReadBlanks, ReadExit, ReadCommand,
      ReadLine, Parse, EndOptions, IgnoreWord, TakeSwitch, TakeImplicit, TakeValue, Take,
      IsRegistered, RefuseLine, EndOfWords, Execute, RunApplication, ShowHelp, Status, Abort,
      Stop, BeginEvents, FireEvent, PassOption, Skip, EndEvents, Teardown
<1>6. pc' \in {"read", "parse", "execute", "fire", "teardown", "over", "crashed"}
  BY DEF CommandInv, TypeOK, Next, Read, ReadNothing, ReadBlanks, ReadExit, ReadCommand,
      ReadLine, Parse, EndOptions, IgnoreWord, TakeSwitch, TakeImplicit, TakeValue, Take,
      RefuseLine, EndOfWords, Execute, RunApplication, ShowHelp, Status, Abort, Stop,
      BeginEvents, FireEvent, PassOption, Skip, EndEvents, Teardown, NextLine, Continue
<1> QED
  BY <1>1, <1>2, <1>3, <1>4, <1>5, <1>6 DEF TypeOK, HeldOK, Call

\* What holds of the line and its calls.
LineInv == TypedInv /\ FireInv /\ PassedInv /\ StopWins

LEMMA ReadKeepsLine == CommandInv /\ Read => LineInv'
BY DEF Read, ReadNothing, ReadBlanks, ReadExit, ReadCommand, ReadLine, Continue, LineInv,
       TypedInv, FireInv, PassedInv, StopWins

LEMMA TakeKeepsLine ==
  ASSUME CommandInv, pc = "parse", NEW o \in OptionsOf(command), NEW v, v # "none",
         NEW to, Take(o, v, to)
  PROVE  LineInv'
<1> DEFINE t == <<command, o>>
<1>1. t \in Slot /\ given \in [Slot -> Argument \cup {"none", "true", "default"}]
  BY SlotsOf DEF CommandInv, TypeOK
<1>2. pc' = "parse" /\ command' = command /\ calls' = <<>> /\ calls = <<>>
  BY DEF Take, input, CommandInv, TypedInv
<1>3. given' = [given EXCEPT ![t] = v] /\ typed' = typed \cup {o}
  BY DEF Take
<1>4. \A p \in typed' : p \in OptionsOf(command) /\ given'[<<command, p>>] # "none"
  <2> SUFFICES ASSUME NEW p \in typed'
               PROVE  p \in OptionsOf(command) /\ given'[<<command, p>>] # "none"
    OBVIOUS
  <2>1. CASE p = o
    BY <2>1, <1>1, <1>3
  <2>2. CASE p # o
    <3>1. p \in typed
      BY <2>2, <1>3
    <3>2. p \in OptionsOf(command) /\ given[<<command, p>>] # "none"
      BY <3>1 DEF CommandInv, TypedInv
    <3> QED
      BY <3>2, <2>2, <1>1, <1>3
  <2> QED
    BY <2>1, <2>2
<1> QED
  BY <1>2, <1>4 DEF LineInv, TypedInv, FireInv, PassedInv, StopWins

LEMMA ParseKeepsLine == CommandInv /\ Parse => LineInv'
<1> SUFFICES ASSUME CommandInv, Parse PROVE LineInv'
  OBVIOUS
<1>1. CASE EndOptions \/ IgnoreWord \/ RefuseLine \/ EndOfWords
  BY <1>1
  DEF EndOptions, IgnoreWord, Skip, RefuseLine, Parsing, EndOfWords, NextLine, Continue,
      input, CommandInv, LineInv, TypedInv, FireInv, PassedInv, StopWins
<1>2. CASE TakeSwitch
  BY <1>2, TakeKeepsLine DEF TakeSwitch, Parsing, IsRegistered
<1>3. CASE TakeImplicit
  <2>1. ThisWord \in Word
    BY <1>3 DEF TakeImplicit, Parsing, ThisWord, CommandInv, TypeOK
  <2>2. (IF ThisWord.argument = "none" THEN "default" ELSE ThisWord.argument) # "none"
    BY <2>1
  <2> QED
    BY <1>3, <2>2, TakeKeepsLine DEF TakeImplicit, Parsing, IsRegistered
<1>4. CASE TakeValue
  <2>1. ValueTyped # "none"
    BY <1>4, InputAssumption, Kinds DEF TakeValue
  <2> QED
    BY <1>4, <2>1, TakeKeepsLine DEF TakeValue, Parsing, IsRegistered
<1> QED
  BY <1>1, <1>2, <1>3, <1>4 DEF Parse

\* The steps that call no event.
LEMMA OtherStepsKeepLine ==
  CommandInv /\ (RunApplication \/ ShowHelp \/ Status \/ Abort \/ Stop \/ EndEvents \/ Teardown)
    => LineInv'
<1> SUFFICES ASSUME CommandInv,
                    RunApplication \/ ShowHelp \/ Status \/ Abort \/ Stop \/ EndEvents \/ Teardown
             PROVE  LineInv'
  OBVIOUS
<1>1. pc' \in {"read", "teardown", "over"}
  BY DEF RunApplication, ShowHelp, Status, Abort, Stop, EndEvents, Teardown, NextLine, Continue
<1>2. StopWins'
  <2>1. CASE Teardown
    BY <2>1 DEF Teardown, StopWins
  <2>2. CASE RunApplication \/ ShowHelp \/ Status
    BY <2>2 DEF RunApplication, ShowHelp, Status, Asked, CommandInv, TypedInv, StopWins
  <2>3. CASE Abort \/ Stop
    <3>1. calls = <<>>
      BY <2>3 DEF Abort, Stop, Asked, CommandInv, TypedInv
    <3> QED
      BY <2>3, <3>1 DEF Abort, Stop, StopWins
  <2>4. CASE EndEvents
    BY <2>4 DEF EndEvents, CommandInv, FireInv, StopWins
  <2> QED
    BY <2>1, <2>2, <2>3, <2>4
<1> QED
  BY <1>1, <1>2 DEF LineInv, TypedInv, FireInv, PassedInv

LEMMA BeginKeepsLine == CommandInv /\ BeginEvents => LineInv'
<1> SUFFICES ASSUME CommandInv, BeginEvents PROVE LineInv'
  OBVIOUS
<1>1. pc = "execute" /\ pc' = "fire" /\ next' = 1 /\ calls' = calls /\ calls = <<>>
  BY DEF BeginEvents, Asked, CommandInv, TypedInv
<1>2. UNCHANGED <<command, options, given, typed>>
  BY DEF BeginEvents, input
<1>3. TypedInv' /\ StopWins'
  BY <1>1, <1>2 DEF CommandInv, TypedInv, StopWins
<1>4. FireInv'
  BY <1>1, <1>2 DEF BeginEvents, Asked, FireInv, IsSet
<1>5. PassedInv'
  BY <1>1, <1>2, RegisteredSequence DEF PassedInv, CommandInv, TypeOK
<1> QED
  BY <1>3, <1>4, <1>5 DEF LineInv

\* The step that looks at an option.
LEMMA EventKeepsLine == CommandInv /\ (FireEvent \/ PassOption) => LineInv'
<1> SUFFICES ASSUME CommandInv, FireEvent \/ PassOption PROVE LineInv'
  OBVIOUS
<1> DEFINE o == Registered[command][next]
<1> DEFINE Made(p, cs) == \E i \in DOMAIN cs : cs[i] = Event(p, given[<<command, p>>])
<1>1. /\ pc = "fire" /\ pc' = "fire" /\ next' = next + 1
      /\ UNCHANGED <<command, options, given, typed>>
  BY DEF FireEvent, PassOption, Skip, Firing, input
<1>2. command \in Command /\ next \in DOMAIN Registered[command] /\ o \in OptionsOf(command)
  BY RegisteredSequence
  DEF CommandInv, TypeOK, FireEvent, PassOption, Firing
<1>3. calls \in Seq(Call)
  BY DEF CommandInv, TypeOK, Call
<1>4. /\ FireEvent => calls' = Append(calls, Event(o, options[<<command, o>>].last))
      /\ FireEvent <=> IsSet(command, o)
      /\ PassOption => calls' = calls
  BY DEF FireEvent, PassOption, ThisOption, Skip
<1>5. /\ calls' = calls \/ calls' = Append(calls, Event(o, options[<<command, o>>].last))
      /\ FireEvent \/ calls' = calls
  BY <1>4
<1>6. \A i \in DOMAIN calls : i \in DOMAIN calls' /\ calls'[i] = calls[i]
  BY <1>3, <1>5
<1>7. FireEvent =>
        /\ Len(calls) + 1 \in DOMAIN calls'
        /\ calls'[Len(calls) + 1] = Event(o, options[<<command, o>>].last)
        /\ DOMAIN calls' = DOMAIN calls \cup {Len(calls) + 1}
  BY <1>3, <1>4
<1>8. \A i \in DOMAIN calls' : calls'[i].option # "stop"
  <2>1. \A i \in DOMAIN calls : calls[i].option # "stop"
    BY <1>1 DEF CommandInv, FireInv
  <2>2. FireEvent => o # "stop"
    BY <1>1, <1>2, <1>4, OptionNames DEF CommandInv, FireInv
  <2>3. Event(o, options[<<command, o>>].last).option = o
    BY DEF Event
  <2>4. CASE FireEvent
    BY <2>1, <2>2, <2>3, <2>4, <1>6, <1>7
  <2>5. CASE calls' = calls
    BY <2>1, <2>5
  <2> QED
    BY <2>4, <2>5, <1>5
<1>9. TypedInv' /\ StopWins'
  BY <1>1, <1>8 DEF CommandInv, TypedInv, StopWins
<1>10. FireInv'
  BY <1>1, <1>8 DEF CommandInv, FireInv, IsSet
<1>11. PassedInv'
  <2> SUFFICES ASSUME NEW j \in DOMAIN Registered[command], j < next + 1,
                      Registered[command][j] \in typed
               PROVE  Made(Registered[command][j], calls')
    BY <1>1 DEF PassedInv
  <2>1. j \in Nat /\ next \in Nat
    BY <1>2, RegisteredSequence DEF CommandInv, TypeOK
  <2>2. CASE j < next
    <3>1. Made(Registered[command][j], calls)
      BY <2>2, <1>1 DEF CommandInv, PassedInv
    <3> QED
      BY <3>1, <1>6
  <2>3. CASE j = next
    <3>1. given[<<command, o>>] # "none"
      BY <2>3, <1>1 DEF CommandInv, TypedInv
    <3>2. IsSet(command, o) /\ options[<<command, o>>].last = given[<<command, o>>]
      BY <3>1, <1>2, TypedIsSet DEF CommandInv
    <3> QED
      BY <2>3, <3>2, <1>4, <1>7
  <2> QED
    BY <2>1, <2>2, <2>3
<1> QED
  BY <1>9, <1>10, <1>11 DEF LineInv

LEMMA CommandInductive == Spec => []CommandInv
<1>1. CommandInv /\ Next => CommandInv'
  BY TypesKept, ReadKeepsLine, ParseKeepsLine, OtherStepsKeepLine, BeginKeepsLine,
     EventKeepsLine
  DEF Next, Execute, LineInv, CommandInv
<1>2. CommandInv /\ UNCHANGED vars => CommandInv'
  BY DEF vars, input, CommandInv, TypeOK, HeldInv, TypedInv, FireInv, PassedInv, StopWins, IsSet
<1> QED
  BY CommandInit, <1>1, <1>2, PTL DEF Spec

-----------------------------------------------------------------------------
(* The theorems *)

(* Every option holds values of its own kind, and every call is made with  *)
(* an argument of the option's kind.                                       *)
THEOREM CommandTypeCorrect == Spec => []TypeOK
BY CommandInductive, PTL DEF CommandInv

(* An option with a value, and a switch, counts as set exactly if it was   *)
(* typed since it was cleared, and holds what was typed, for every         *)
(* sequence of lines, the refused ones included.                           *)
THEOREM SetExactlyIfTyped == Spec => []SetIffTyped
<1>1. CommandInv => SetIffTyped
  <2> SUFFICES ASSUME CommandInv, NEW s \in Slot, Kind(s[2]) # "implicit"
               PROVE  /\ IsSet(s[1], s[2]) <=> given[s] # "none"
                      /\ IsSet(s[1], s[2]) => options[s].last = given[s]
    BY DEF SetIffTyped
  <2>1. <<s[1], s[2]>> = s
    BY DEF Slot
  <2>2. CASE Kind(s[2]) = "value"
    <3>1. IsSet(s[1], s[2]) <=> options[s].count > 1
      BY <2>1, <2>2 DEF IsSet, ValueIsSet
    <3> QED
      BY <2>2, <3>1 DEF CommandInv, HeldInv
  <2>3. CASE Kind(s[2]) = "switch"
    <3>1. IsSet(s[1], s[2]) <=> options[s].count > 0 /\ options[s].last = "true"
      BY <2>1, <2>3 DEF IsSet, SwitchIsSet
    <3> QED
      BY <2>3, <3>1 DEF CommandInv, HeldInv
  <2> QED
    BY <2>2, <2>3, Kinds
<1> QED
  BY CommandInductive, <1>1, PTL

(* A line with a stop does nothing else.                                   *)
THEOREM StopAlwaysWins == Spec => []StopWins
BY CommandInductive, PTL DEF CommandInv

(* A line that is executed calls the event of every option on it, with the *)
(* last value typed.                                                       *)
THEOREM AllTypedOptionsFire == Spec => TypedOptionsFire
<1>1. CommandInv /\ Next /\ pc = "fire" /\ pc' # "fire" =>
        \A o \in typed : \E i \in DOMAIN calls : calls[i] = Event(o, given[<<command, o>>])
  <2> SUFFICES ASSUME CommandInv, Next, pc = "fire", pc' # "fire", NEW o \in typed
               PROVE  \E i \in DOMAIN calls : calls[i] = Event(o, given[<<command, o>>])
    OBVIOUS
  <2>1. EndEvents
    BY DEF Next, Read, ReadNothing, ReadBlanks, ReadExit, ReadCommand, ReadLine, Parse,
         EndOptions, Parsing, IgnoreWord, TakeSwitch, TakeImplicit, TakeValue, RefuseLine,
         EndOfWords, Execute, RunApplication, ShowHelp, Status, Abort, Stop, BeginEvents,
         Asked, FireEvent, PassOption, Skip, Teardown
  <2>2. o \in OptionsOf(command)
    BY DEF CommandInv, TypedInv
  <2>3. PICK j \in DOMAIN Registered[command] : o = Registered[command][j]
    BY <2>2 DEF OptionsOf
  <2>4. j < next
    BY <2>1, RegisteredSequence DEF EndEvents, CommandInv, TypeOK
  <2> QED
    BY <2>3, <2>4 DEF CommandInv, PassedInv
<1> QED
  BY CommandInductive, <1>1, PTL DEF Spec, TypedOptionsFire, vars

=============================================================================
