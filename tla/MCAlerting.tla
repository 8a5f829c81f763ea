----------------------------- MODULE MCAlerting -----------------------------
(***************************************************************************)
(* A small instance of Alerting: two series, of which the first has two    *)
(* contributors, and policies that notify of everything, of openings, and  *)
(* of nothing.                                                             *)
(***************************************************************************)
EXTENDS Alerting

CONSTANTS s1, s2, e1, e2, e3

MCSeriesOf == [e \in Episodes |-> IF e = e3 THEN s2 ELSE s1]
MCNotifyOn == [e \in Episodes |-> CASE e = e1 -> Kinds [] e = e2 -> {"open"} [] e = e3 -> {}]
=============================================================================
