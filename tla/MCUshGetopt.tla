---------------------------- MODULE MCUshGetopt ----------------------------
(***************************************************************************)
(* Instances of UshGetopt for TLC: every vector of up to three of a few    *)
(* arguments, and every short argument of --umask and --env.               *)
(***************************************************************************)
EXTENDS UshGetopt

DDash(text) == <<"-", "-">> \o text
Arg(name, text) == DDash(name) \o <<"=">> \o text
UpTo(set, n) == UNION {[1 .. k -> set] : k \in 0 .. n}

Umasks ==
  {Arg(<<"umask">>, text) :
     text \in UpTo({"u", "g", "=", "r", "w", ","}, 4) \cup
              UpTo({"0", "2", "7"}, 4) \cup
              {<<"u", "=", ",", "g", "=", "r", "x", ",", "u", "=", "w">>,
               <<"u", "=", "r", "w", "x", ",", "g", "=", "w", ",",
                 "o", "=", "x">>}}

Envs ==
  {Arg(<<"e", "n", "v">>, text) : text \in UpTo({"X", "1", "-", "="}, 3)}

Args ==
  {<<"-", "v">>, <<"-", "c", "x">>, <<"-", "?">>, <<"prog">>, DoubleDash,
   DDash(<<"fork">>), DDash(<<"d">>), DDash(<<"s", "td", "err">>),
   DDash(<<"c", "l">>), Arg(<<"c", "h">>, <<"dir">>),
   Arg(<<"c", "hdir">>, <<"nodir">>), Arg(<<"replace">>, <<"%">>),
   DDash(<<"s", "h">>), DDash(<<"append-argv">>)}

Settings ==
  {Arg(<<"umask">>, <<"0">>), Arg(<<"umask">>, <<"2", "2">>),
   Arg(<<"umask">>, <<"u", "=", "r">>), Arg(<<"umask">>, <<"9">>),
   DDash(<<"c", "l", "earenv">>), Arg(<<"e", "n", "v">>, <<"X", "=", "1">>),
   Arg(<<"e", "n", "v">>, <<"X", "=">>),
   Arg(<<"e", "n", "v">>, <<"Y", "=", "1">>),
   Arg(<<"e", "n", "coding">>, <<"x", "nn">>)}

MCTokens == STRING

MCUses ==
  {ush_table} \X
    (UpTo(Args, 3) \cup UpTo(Settings, 3) \cup [1 .. 1 -> Umasks \cup Envs])

MCUnusable == {<<"nodir">>}
MCMasks == {0, 18}
=============================================================================
