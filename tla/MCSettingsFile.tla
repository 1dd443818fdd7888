----------------------------- MODULE MCSettingsFile -----------------------------
(* Instances of SettingsFile for TLC: a setting in a table, and a name without a  *)
(* dot, which some client might use.                                             *)
EXTENDS SettingsFile

MCPlain == {<<"scooter", "speed">>, <<"speed">>}
================================================================================
