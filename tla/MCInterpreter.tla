--------------------------- MODULE MCInterpreter ---------------------------
(* Instance of Interpreter for TLC: the programs of Scripts, what the       *)
(* standard says they do, and the set of those that do it.                  *)
EXTENDS Scripts, Interpreter

CONSTANTS Expected, Standard
MCPrograms == Loaded
MCExpected == Meanings
MCStandard == Conforming

ASSUME AllCompile == \A p \in DOMAIN Compiled : Compiled[p].err = ""

Result == [out |-> vm.out, ok |-> vm.mode.ok, v |-> IF vm.mode.ok THEN Undefined ELSE vm.mode.v]

(* A program logs and throws what the standard says, unless it does what    *)
(* Deviates lists, and then it does not.                                    *)
AgreesWithEcma ==
  program \in DOMAIN Expected =>
    /\ vm.mode.t = "done" => (Result = Expected[program] <=> program \in Standard)
    /\ vm.mode.t = "undefined" => program \notin Standard

(* Every program comes to an end (or leaves what is defined).               *)
Terminates == <>Ended
=============================================================================
