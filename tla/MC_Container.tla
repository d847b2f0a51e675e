---------------------------- MODULE MC_Container ----------------------------
(* The scripts of the runs of Container: one container with several        *)
(* records, or two of one record each.                                     *)
EXTENDS Container

Def(name, unique, string, records) ==
  [name |-> name, isUnique |-> unique, isString |-> string, records |-> records]

Sole(def) == [files |-> {def}, handles |-> 1]

StringScripts == {Sole(Def("a", TRUE, TRUE, 3)), Sole(Def("b", FALSE, TRUE, 3)),
                  [files |-> {Def("a", TRUE, TRUE, 1), Def("b", FALSE, TRUE, 1)},
                   handles |-> 2]}
=============================================================================
