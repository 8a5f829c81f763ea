---------------------------- MODULE MCRuleStore ----------------------------
(***************************************************************************)
(* A small instance of RuleStore: two processes on a database that is      *)
(* fresh, or migrated to some version before; a file with two rules, of    *)
(* which only the second is beyond its first revision.                     *)
(***************************************************************************)
EXTENDS RuleStore

CONSTANTS a, b, d, e

MCDatabases == {<<"absent", "absent">>, <<"same", "absent">>, <<"empty", "absent">>,
                <<"same", "empty">>, <<"other", "absent">>}

MCFiles == {<<[rule |-> a, revision |-> 1, definition |-> d],
              [rule |-> b, revision |-> 2, definition |-> d]>>}
=============================================================================
