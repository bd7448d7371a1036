----------------------------- MODULE MCWhereTree -----------------------------
(* Instances of WhereTree for TLC.                                             *)
EXTENDS WhereTree

CONSTANTS t1, t2
OneTree == {t1}
TwoTrees == {t1, t2}

Year == <<"year", ">", "1900">>
Lang == <<"lang", "=", "2">>
Title == <<"title", "NOT LIKE", "a">>
Typo == <<"?", "=", "2">>
Years == <<"year", "BETWEEN", "1920", "AND", "1985">>

TwoComparisons == {Year, Lang}
OneUnknown == {Year, Typo}
OneRange == {Years}
NoRange == {}
NoRaw == {}
SimpleRaw == {Title}
Fields == {"year", "lang", "title"}

(* Two callers nest their calls, as the examples do, one of them with a typing *)
(* error; one keeps every condition in a variable to its end and uses it for   *)
(* two trees, as the tests do; one keeps some of its conditions in variables,  *)
(* which end when they please.                                                 *)
Nesting == [trees |-> {t1}, makes |-> {Year, Years, Title}, keeps |-> "temporary"]
Mistyping == [trees |-> {t1}, makes |-> {Year, Typo, Years}, keeps |-> "temporary"]
Keeping == [trees |-> TwoTrees, makes |-> {Year, Typo, Years, Title}, keeps |-> "kept"]
Mixing == [trees |-> {t1}, makes |-> {Year, Years}, keeps |-> "mixed"]
OneOfThem == {Nesting, Mistyping, Keeping, Mixing}
JustComparing == {[trees |-> {t1}, makes |-> {Year, Lang}, keeps |-> "temporary"]}

NamesUsed == Fields \cup {"?", "=", ">", "NOT LIKE", "a", "2", "1900", "1920", "1985"}
=============================================================================
