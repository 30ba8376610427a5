--------------------------- MODULE MCApplication ---------------------------
(* An instance of Application for TLC: three tasks, and a command line of  *)
(* an array of integers, an array of strings, a string and two bools.      *)
EXTENDS Application

CONSTANTS tn, tp, tq

Types == [ints |-> "int", strs |-> "charp", str |-> "charp", flag |-> "bool", noflag |-> "invbool"]
Arrays == [p \in Names |-> p \in {"ints", "strs"}]
Sizes == [p \in Names |-> IF Arrays[p] THEN 2 ELSE 1]

A(n, vs) == {[name |-> n, vals |-> v, quote |-> "none"] : v \in vs}
Quoted(n, v, q) == {[name |-> n, vals |-> v, quote |-> q]}

\* none, one, two and three values, a comma at the end, an empty value, bad ones
Lists ==
    { <<"">>, <<"fits">>, <<"fits", "">>, <<"fits", "text">>, <<"", "fits">>,
      <<"fits", "big">>, <<"fits", "fits", "fits">>, <<"text", "", "">> }

CommandLine ==
    A("ints", Lists) \cup A("strs", Lists) \cup A("str", {<<"">>, <<"text">>})
        \cup A("flag", {<<"">>, <<"1">>, <<"y">>, <<"text">>}) \cup A("noflag", {<<"n">>})
        \cup Quoted("ints", <<"fits", "0">>, "both") \cup Quoted("ints", <<"fits", "0">>, "open")
        \cup Quoted("flag", <<"n">>, "open") \cup Quoted("flag", <<"">>, "open")
        \cup A("unknown", {<<"">>}) \cup A("--help", {<<"">>})
=============================================================================
