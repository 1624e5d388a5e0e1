----------------------------- MODULE ParseConfig -----------------------------
(***************************************************************************)
(* ParseConfig (impl/parser/ParseConfig.cc): sections of keys and values   *)
(* read from the lines of a file.                                          *)
(*                                                                         *)
(* A line is a sequence of characters.  Positions count from 0 and -1 is   *)
(* "not found", as in the code, whose ints also hold the results of find.  *)
(* A negative length handed to substr is a huge one, which takes the rest  *)
(* of the string.  ReadInt and ReadFloat are ReadString with a conversion  *)
(* of the C library, and are left out.                                     *)
(***************************************************************************)
EXTENDS Integers, Sequences, SequencesExt, FiniteSetsExt

CONSTANTS
  Lines,    \* the lines files are made of
  Sample    \* lines to compare AnalyseLine with its reference on

\* Lines are sequences; getline leaves no newline in them (ParseConfig.cc:104).
ASSUME ParseConfigAssumption ==
  \A line \in Lines \cup Sample : line \in Seq(Range(line) \ {"\n"})

VARIABLES
  settings,   \* settings_: section -> key -> value
  section,    \* the local variables of ReadConfig
  k_v,
  written,    \* history: what the file says so far
  last,       \* history: the section the file is in
  orderly     \* history: every setting has its section, none begins twice

vars == <<settings, section, k_v, written, last, orderly>>

Empty == [x \in {} |-> <<>>]

With(map, key, value) ==
  [k \in DOMAIN map \cup {key} |-> IF k = key THEN value ELSE map[k]]

-----------------------------------------------------------------------------
(* AnalyseLine.                                                            *)

\* The place of the first character c, 0 if there is none.
FirstAt(s, c) == SelectInSeq(s, LAMBDA x : x = c)

Find(s, c) == FirstAt(s, c) - 1

Substr(s, pos, length) ==
  SubSeq(s, pos + 1, IF length < 0 THEN Len(s) ELSE Min({pos + length, Len(s)}))

IsSpace(c) == c \in {" ", "\t"}

Trim(s) ==
  LET kept == {i \in DOMAIN s : ~IsSpace(s[i])} IN
  IF kept = {} THEN <<>> ELSE SubSeq(s, Min(kept), Max(kept))

\* Mutant of EndPos: the comment sign itself is kept.
EndPosAfter(line) == IF Find(line, "#") = -1 THEN Len(line) - 1 ELSE Find(line, "#")

\* end_pos: the last position in front of a comment.
EndPos(line) == IF Find(line, "#") = -1 THEN Len(line) - 1 ELSE Find(line, "#") - 1

\* An empty line, or one that is a comment as a whole.
Skipped(line) == line = <<>> \/ Find(line, "#") = 0

\* A line with both brackets, wherever they stand.
IsSection(line) == ~Skipped(line) /\ Find(line, "[") # -1 /\ Find(line, "]") # -1

SectionName(line) == Substr(line, Find(line, "[") + 1, Find(line, "]") - 1)

\* new_line: the operands of its length are swapped, so it is the whole line, comment
\* included, unless end_pos is 0 or 1.
NewLine(line) == Substr(line, 0, 1 - EndPos(line))

KeyOf(line) == Trim(Substr(NewLine(line), 0, Find(NewLine(line), "=")))

\* value.replace of a carriage return that is not the first character.
WithoutReturn(s) == IF Find(s, "\r") > 0 THEN RemoveAt(s, Find(s, "\r") + 1) ELSE s

ValueOf(line) ==
  LET pos == Find(NewLine(line), "=") IN
  WithoutReturn(Trim(Substr(NewLine(line), pos + 1, EndPos(line) - pos)))

IsSetting(line) ==
  /\ ~Skipped(line)
  /\ ~IsSection(line)
  /\ Find(NewLine(line), "=") # -1
  /\ KeyOf(line) # <<>>

-----------------------------------------------------------------------------
(* What a line should mean.                                                *)

\* What a line says: a comment, or the carriage return of a DOS file, ends it.
Said(line) ==
  LET hash == FirstAt(line, "#")
      text == SubSeq(line, 1, IF hash = 0 THEN Len(line) ELSE hash - 1)
  IN Trim(IF text # <<>> /\ Last(text) = "\r" THEN Front(text) ELSE text)

\* A name in brackets begins a section; what stands around the first equals sign is a key
\* and its value.
Meaning(line) ==
  LET said == Said(line)
      n == Len(said)
      eq == FirstAt(said, "=")
      key == Trim(SubSeq(said, 1, eq - 1))
  IN IF n > 1 /\ said[1] = "[" /\ said[n] = "]"
     THEN [kind |-> "section", name |-> SubSeq(said, 2, n - 1)]
     ELSE IF eq > 0 /\ key # <<>>
     THEN [kind |-> "setting", key |-> key, value |-> Trim(SubSeq(said, eq + 1, n))]
     ELSE [kind |-> "nothing"]

-----------------------------------------------------------------------------
(* ReadConfig.                                                             *)

\* A file is opened: settings_ is cleared, the locals are new.
Open ==
  /\ settings' = Empty
  /\ section' = <<>>
  /\ k_v' = Empty
  /\ written' = Empty
  /\ last' = <<>>
  /\ orderly' = TRUE

Init ==
  /\ settings = Empty
  /\ section = <<>>
  /\ k_v = Empty
  /\ written = Empty
  /\ last = <<>>
  /\ orderly = TRUE

\* Mutant of Store: the pairs of the last section are kept for the new one.
StoreKeeping(s, key, value) ==
  \/ /\ s \in DOMAIN settings
     /\ k_v' = With(k_v, key, value)
     /\ settings' = [settings EXCEPT ![s] = k_v']
  \/ /\ s \notin DOMAIN settings
     /\ k_v' = k_v
     /\ settings' = With(settings, s, k_v)

\* Mutant of Store: the section is given the pairs without the new one.
StoreLate(s, key, value) ==
  \/ /\ s \in DOMAIN settings
     /\ k_v' = With(k_v, key, value)
     /\ settings' = [settings EXCEPT ![s] = k_v]
  \/ /\ s \notin DOMAIN settings
     /\ k_v' = Empty
     /\ settings' = With(settings, s, Empty)

\* The body of the loop, when AnalyseLine returned true: a section seen for the first
\* time is entered empty, whatever the line says besides; any other is given all of k_v.
Store(s, key, value) ==
  \/ /\ s \in DOMAIN settings
     /\ k_v' = With(k_v, key, value)
     /\ settings' = [settings EXCEPT ![s] = k_v']
  \/ /\ s \notin DOMAIN settings
     /\ k_v' = Empty
     /\ settings' = With(settings, s, Empty)

\* What the file says with one more line.
Says(line) ==
  LET m == Meaning(line) s == last IN
  CASE m.kind = "section" ->
         /\ last' = m.name
         /\ orderly' = (orderly /\ m.name \notin DOMAIN written)
         /\ written' = IF m.name \in DOMAIN written THEN written
                       ELSE With(written, m.name, Empty)
    [] m.kind = "setting" ->
         /\ last' = s
         /\ orderly' = (orderly /\ s \in DOMAIN written)
         /\ written' = IF s \in DOMAIN written
                       THEN [written EXCEPT ![s] = With(@, m.key, m.value)]
                       ELSE written
    [] OTHER -> UNCHANGED <<last, orderly, written>>

\* A section line; AnalyseLine has left key and value empty.
ReadSection(line) ==
  /\ IsSection(line)
  /\ section' = SectionName(line)
  /\ Store(section', <<>>, <<>>)

\* A line with a key and a value.
ReadSetting(line) ==
  /\ IsSetting(line)
  /\ Store(section, KeyOf(line), ValueOf(line))
  /\ UNCHANGED section

\* AnalyseLine returned false.
ReadNothing(line) ==
  /\ ~IsSection(line)
  /\ ~IsSetting(line)
  /\ UNCHANGED <<settings, section, k_v>>

ReadLine(line) ==
  /\ ReadSection(line) \/ ReadSetting(line) \/ ReadNothing(line)
  /\ Says(line)

Next == Open \/ \E line \in Lines : ReadLine(line)

Spec == Init /\ [][Next]_vars

\* ReadString: the value of an item, or the default.
ReadString(sec, item, default) ==
  IF sec \in DOMAIN settings /\ item \in DOMAIN settings[sec]
  THEN settings[sec][item] ELSE default

-----------------------------------------------------------------------------
(* Properties.                                                             *)

Analysed(line) ==
  IF IsSection(line) THEN [kind |-> "section", name |-> SectionName(line)]
  ELSE IF IsSetting(line)
  THEN [kind |-> "setting", key |-> KeyOf(line), value |-> ValueOf(line)]
  ELSE [kind |-> "nothing"]

\* The lines the positions of AnalyseLine are right for.  A section: the brackets are at
\* the front, with nothing but a comment behind them.
RegularSection(line) ==
  LET close == Find(line, "]") hash == Find(line, "#") IN
  /\ Find(line, "[") = 0 /\ close # -1
  /\ hash = -1 \/ hash > close
  /\ \A i \in close + 2 .. EndPos(line) + 1 : IsSpace(line[i]) \/ line[i] = "\r"

\* Any other line: a comment only behind an equals sign, and more than two characters.
RegularOther(line) ==
  LET hash == Find(line, "#") eq == Find(line, "=") IN
  /\ hash = 0 \/ Find(line, "[") = -1 \/ Find(line, "]") = -1
  /\ hash > 0 => eq # -1 /\ eq < hash
  /\ eq = 1 => EndPos(line) # 1

\* A carriage return stands only at the end, right behind a value or a comment.
RegularEnd(line) ==
  LET cr == Find(line, "\r") IN
  cr # -1 => cr = Len(line) - 1 /\ cr > 0 /\ line[cr] \notin {" ", "\t", "="}

Regular(line) == RegularEnd(line) /\ (RegularSection(line) \/ RegularOther(line))

\* AnalyseLine finds the section, the key and the value a regular line has
\* (ParseConfig.cc:55-92).
LinesRead ==
  settings = Empty => \A line \in Sample : Regular(line) => Analysed(line) = Meaning(line)

\* What is kept of a file is what it says, section by section, when every setting stands
\* below the header of its section and no header comes twice (ParseConfig.cc:104-123).
SettingsAsWritten == orderly => settings = written

\* A setting of a known section, even one that begins a second time, is found at once
\* under its key in its section and in no other (ParseConfig.cc:109-113, 127-147).
SettingFound ==
  [][\A line \in Lines : IsSetting(line) /\ section \in DOMAIN settings /\ ReadLine(line) =>
       /\ Meaning(line).key \in DOMAIN settings'[section]
       /\ settings'[section][Meaning(line).key] = Meaning(line).value
       /\ \A s \in DOMAIN settings \ {section} : settings'[s] = settings[s]]_vars

=============================================================================
