------------------------ MODULE MCProjectLifecycle ------------------------
(* Instances of ProjectLifecycle for TLC.                                  *)
EXTENDS ProjectLifecycle, Naturals, TLC

\* Paths are interchangeable.
Symmetry == Permutations(Path)

AllFaults == Fault

\* Three pins: the valve's and the pump's at the start, and another one.
Pins == 1 .. 3
StartPins == [d \in Device |-> IF d = "valve" THEN 1 ELSE 2]

\* An operator who moves the pump's output to the third pin, or none.
TypesPump == [d \in Device |-> IF d = "valve" THEN {} ELSE {3}]
TypesNone == [d \in Device |-> {}]

\* A hand-edited project of each kind, with a title; what a flow says does not
\* depend on who wrote it.
TitledEdits == {A(k) : k \in Kind}

\* A flow with the valve on the pin the pump is built with, and the pump on the
\* valve's (swapped), on the same, or on the third.
ValveOnPumps ==
  {[A("flow") EXCEPT !.flow["valve"].pin = StartPins["pump"], !.flow["pump"].pin = n] : n \in Pins}

SomeEdits == TitledEdits \cup ValveOnPumps

\* A flow with an empty title.
UntitledEdits == {[A("flow") EXCEPT !.titled = FALSE, !.flow["valve"].enabled = FALSE]}

===========================================================================
