------------------------------ MODULE MCScript ------------------------------
(***************************************************************************)
(* Instances of Script for TLC: every section of options, a few of which   *)
(* matter for the arguments, with bodies of up to three lines.             *)
(***************************************************************************)
EXTENDS Script

Lines(heads, bodies) == {head \o body : head \in heads, body \in bodies}

UpTo(set, n) == UNION {[1 .. k -> set] : k \in 0 .. n}

Bodies == UpTo({"a", "%", "", "#"}, 3)

SomeBodies == {<<"a">>, <<"#", "a", "%", "">>, <<"%", "--", "%">>, <<>>}

Heads == {<<"--">>, <<"-a", "--">>, <<"#", "-o", "junk", "", "--">>}

BadHeads == {<<"-x", "-a", "--">>, <<"-x", "-o">>, <<"a", "-a">>}

OwnReplace == {<<"-r", "--">>, <<"-r", "-a", "--">>}

File(lines, whole) == [lines |-> lines, whole |-> whole]

MCScripts ==
  {File(lines, TRUE) : lines \in Lines({<<"--">>}, Bodies)} \cup
  {File(lines, whole) : lines \in Lines(Heads, SomeBodies),
                        whole \in BOOLEAN} \cup
  {File(lines, TRUE) : lines \in Lines(BadHeads \cup OwnReplace, SomeBodies)}

ReplaceScripts == {File(<<"-r", "--", "a", "%">>, TRUE)}

MCOperands == {<<>>, <<"p">>, <<"p", "%", "q">>}
MCGiven == {"%"}
MCComments == {"#"}
Does(what, text) == [does |-> what, text |-> text]
MCMeaning ==
  [line \in {"-a", "-r", "-o", "-x"} |->
     CASE line = "-a" -> Does("append", "")
       [] line = "-r" -> Does("replace", "%")
       [] line = "-o" -> Does("other", "")
       [] line = "-x" -> Does("fail", "")]
=============================================================================
