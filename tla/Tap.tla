---------------------------------- MODULE Tap ----------------------------------
(***************************************************************************)
(* What mcp/wrap_stdio.py promises about the traffic it stands in: lines   *)
(* of each direction are passed on one by one, and each that carries a     *)
(* message is noted before the next line of its direction is passed on.    *)
(* Nothing is promised about the order in which lines of the two           *)
(* directions are noted.                                                   *)
(***************************************************************************)
EXTENDS Naturals, Sequences

CONSTANT Directions

VARIABLES
    passed,   \* passed[d]: for each line of d passed on, in order, whether
              \* it carries messages
    noted,    \* noted[d]: how many of them the tap is done with
    log       \* the lines noted, <<direction, line number>>, each at the
              \* moment it was noted: moments are numbers that only grow

tapVars == <<passed, noted, log>>

TapInit ==
    /\ passed = [d \in Directions |-> <<>>]
    /\ noted  = [d \in Directions |-> 0]
    /\ log = <<>>

Pass(d) ==
    /\ noted[d] = Len(passed[d])
    /\ \E carries \in BOOLEAN : passed' = [passed EXCEPT ![d] = Append(@, carries)]
    /\ UNCHANGED <<noted, log>>

AddedLast(line) ==
    \E t \in DOMAIN log' :
        /\ \A s \in DOMAIN log : s < t
        /\ log' = [s \in DOMAIN log \cup {t} |-> IF s = t THEN line ELSE log[s]]

(* A line without a message is done with and leaves no trace. *)
Note(d) ==
    /\ noted[d] < Len(passed[d])
    /\ noted' = [noted EXCEPT ![d] = @ + 1]
    /\ IF passed[d][noted'[d]] THEN AddedLast(<<d, noted'[d]>>) ELSE UNCHANGED log
    /\ UNCHANGED passed

TapNext == \E d \in Directions : Pass(d) \/ Note(d)

TapSpec == TapInit /\ [][TapNext]_tapVars
===============================================================================
