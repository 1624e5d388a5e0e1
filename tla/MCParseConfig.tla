---------------------------- MODULE MCParseConfig ----------------------------
(* ParseConfig for TLC: two sections and two keys, in several spellings.      *)
EXTENDS ParseConfig

Characters == {"[", "]", "#", "=", "a", " ", "\r"}

MCLines ==
  { <<"[", "a", "]">>, <<"[", "b", "]", " ">>, <<"#", "[", "c", "]">>,
    <<"x", "=", "1">>, <<"x", " ", "=", " ", "2", " ", "#", "3">>,
    <<"y", "=", "1", "\r">>, <<"y", "=", " ">> }

\* The run's lines are regular, as the theorems on what is kept of a file ask.
ASSUME MCLinesRegular == \A line \in MCLines : Regular(line)

MCSample == SeqOf(Characters, 5) \cup MCLines

=============================================================================
