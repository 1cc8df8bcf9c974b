------------------------------ MODULE MCGoliothSdk ------------------------------
(* Settings for model checking GoliothSdk. *)
EXTENDS GoliothSdk

(* The example's only handler is for LED, a bool. *)
LedHandler == [LED |-> "bool"]

(* Version 1 has none; version 2 has one that nobody handles, one of a type that
   is not the handler's, and one that is handled. *)
TwoVersions ==
    << <<>>,
       << [key |-> "RATE", type |-> "int"], [key |-> "LED", type |-> "int"],
          [key |-> "LED", type |-> "bool"] >> >>
================================================================================
