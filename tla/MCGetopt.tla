------------------------------ MODULE MCGetopt ------------------------------
(***************************************************************************)
(* Instances of Getopt for TLC: tables that between them have every kind   *)
(* of option, with short vectors of many forms of arguments and longer     *)
(* ones of few, so that words and options come in segments of one to four. *)
(***************************************************************************)
EXTENDS Getopt

Long(name, has, flag, val) ==
  [name |-> name, has |-> has, flag |-> flag, val |-> val]

\* --std is ambiguous, --std-out is exact; --col means two that are the same.
Longs ==
  <<Long(<<"std", "out">>, 1, FALSE, "O"),
    Long(<<"std", "out", "new">>, 1, FALSE, "N"),
    Long(<<"quiet">>, 0, TRUE, "Q"),
    Long(<<"col", "our">>, 2, FALSE, "C"),
    Long(<<"col", "or">>, 2, FALSE, "C")>>

Shorts == [v |-> "", r |-> ":", o |-> "::", W |-> ";"]

Table(lead, colon, posix, long_only, longs) ==
  [lead |-> lead, colon |-> colon, posix |-> posix, long_only |-> long_only,
   shorts |-> Shorts, longs |-> longs]

Permute == Table("", FALSE, FALSE, FALSE, Longs)
PermuteColon == Table("", TRUE, FALSE, FALSE, Longs)
InOrder == Table("-", TRUE, FALSE, FALSE, Longs)
RequireOrder == Table("+", FALSE, FALSE, FALSE, Longs)
Posix == Table("", TRUE, TRUE, FALSE, Longs)
LongOnly == Table("", FALSE, FALSE, TRUE, Longs)
ShortOnly == Table("", FALSE, FALSE, FALSE, <<>>)

Dash(letters) == <<"-">> \o letters
DDash(text) == <<"-", "-">> \o text

Words == {<<"a">>, <<"b">>}
Few == Words \cup {Dash(<<"v">>), Dash(<<"r">>), DoubleDash}
LongArgs ==
  {DDash(<<"std", "out">>), DDash(<<"std">>),
   DDash(<<"std", "out", "=", "f">>),
   DDash(<<"quiet", "=", "f">>), DDash(<<"quiet">>), DDash(<<"col">>),
   DDash(<<"other">>)}
ShortArgs ==
  {Dash(<<"v", "r">>), Dash(<<"x", "o">>), Dash(<<"v", "o", "f">>),
   Dash(<<"r", "f">>)}
WArgs ==
  {Dash(<<"W">>), Dash(<<"W", "std", "out">>), Dash(<<"W", "std">>),
   Dash(<<"W", "std", "out", "=", "f">>), Dash(<<"W", "quiet">>),
   Dash(<<"W", "quiet", "=", "f">>), Dash(<<"W", "other">>), <<"quiet">>}

UpTo(set, n) == UNION {[1 .. k -> set] : k \in 0 .. n}

MCTokens == STRING

MCUses ==
  UNION {
    {Permute, InOrder}
      \X (UpTo(Few, 4) \cup UpTo(Words \cup LongArgs \cup ShortArgs, 2)),
    {Permute} \X [1 .. 5 -> Few \ {DoubleDash, <<"b">>}],
    {RequireOrder, Posix}
      \X UpTo(LongArgs \cup ShortArgs \cup {<<"a">>, DoubleDash}, 2),
    {Permute} \X UpTo(WArgs, 3),
    {PermuteColon} \X UpTo(WArgs \cup {Dash(<<"v">>)}, 2),
    {LongOnly}
      \X UpTo(ShortArgs \cup
              {Dash(<<"std", "out">>), Dash(<<"std">>), Dash(<<"col">>),
               Dash(<<"x", "v">>), Dash(<<"v">>), <<"a">>}, 2),
    {ShortOnly}
      \X UpTo({Dash(<<"v", "W">>), Dash(<<"W">>), DDash(<<"v">>), <<"a">>}, 3)}
=============================================================================
