----------------------------- MODULE ConfigFile -----------------------------
(***************************************************************************)
(* What ConfigManager makes of an INI file (src/src/ConfigManager.cpp), and *)
(* the files it is given, described by lines.                               *)
(*                                                                         *)
(* A line is a sequence of characters; a name is one character.             *)
(***************************************************************************)
EXTENDS Integers, SequencesExt

CONSTANT MaxConfigLines    \* bound: the lines of the file

ASSUME ConfigAssumption == MaxConfigLines \in Nat

Section == "ConnectServerInfo"
PortKey == "ConnectServerPortTCP"
UdpKey == "ConnectServerPortUDP"
LimitKey == "MaxIpConnection"
Key == {PortKey, UdpKey, LimitKey}
DefaultPort == 44405
DefaultUdpPort == 55601
DefaultLimit == 0
Blank == " "

----------------------------------------------------------------------------
(* ConfigManager.                                                          *)

Trim(s) ==
  LET visible == {i \in DOMAIN s : s[i] # Blank}
  IN  IF visible = {} THEN <<>> ELSE SubSeq(s, Min(visible), Max(visible))

Before(s, p) == Trim(SubSeq(s, 1, p - 1))
After(s, p) == Trim(SubSeq(s, p + 1, Len(s)))
FirstOf(s, ch) == Min({i \in DOMAIN s : s[i] = ch})

IsSkipped(s) == s = <<>> \/ s[1] \in {";", "#"}
IsSection(s) == s[1] = "[" /\ s[Len(s)] = "]"
IsPair(s) == \E i \in DOMAIN s : s[i] = "="

\* What config_[section][key] = value makes of config_.
Put(config, entry, value) ==
  [e \in DOMAIN config \cup {entry} |-> IF e = entry THEN value ELSE config[e]]

\* Mutant: a key that is there keeps its value.
LoadLineKeeping(state, raw) ==
  LET s == Trim(raw)
      p == FirstOf(s, "=")
  IN  IF IsSkipped(s) THEN state
      ELSE IF IsSection(s) THEN [state EXCEPT !.section = Before(SubSeq(s, 2, Len(s)), Len(s) - 1)]
      ELSE IF IsPair(s) THEN
        [state EXCEPT !.config = IF <<state.section, Before(s, p)>> \in DOMAIN @ THEN @
                                 ELSE Put(@, <<state.section, Before(s, p)>>, After(s, p))]
      ELSE state

\* One turn of load's loop, with current_section and config_ as its state: the
\* first = ends the key, a key that comes again gets the new value, and a line
\* that is neither a section nor a pair is passed over.
LoadLine(state, raw) ==
  LET s == Trim(raw)
      p == FirstOf(s, "=")
  IN  IF IsSkipped(s) THEN state
      ELSE IF IsSection(s) THEN [state EXCEPT !.section = Before(SubSeq(s, 2, Len(s)), Len(s) - 1)]
      ELSE IF IsPair(s) THEN
        [state EXCEPT !.config = Put(state.config, <<state.section, Before(s, p)>>, After(s, p))]
      ELSE state

LoadConfig(texts) ==
  FoldLeft(LoadLine, [section |-> <<>>, config |-> [k \in {} |-> <<>>]], texts).config

Digits == {"2", "huge"}
Leading(s) == SubSeq(s, 1, Min({i \in DOMAIN s : s[i] \notin Digits} \cup {Len(s) + 1}) - 1)

\* Mutant: atoi, for which a number that is no int is some int.
StoiWraps(s, default) ==
  LET digits == Leading(s)
  IN  IF digits = <<>> THEN default
      ELSE FoldLeft(LAMBDA n, ch : IF ch = "huge" THEN -1 ELSE 10 * n + 2, 0, digits)

\* std::stoi reads the digits at the start of a text, and throws if there are
\* none or the number is no int; get_int then takes the default.
Stoi(s, default) ==
  LET digits == Leading(s)
  IN  IF digits = <<>> \/ \E i \in DOMAIN digits : digits[i] = "huge" THEN default
      ELSE FoldLeft(LAMBDA n, ch : 10 * n + 2, 0, digits)

GetInt(config, section, key, default) ==
  IF <<<<section>>, <<key>>>> \in DOMAIN config
  THEN Stoi(config[<<<<section>>, <<key>>>>], default) ELSE default

----------------------------------------------------------------------------
(* What a file says, and how it is written.                                *)

\* A value as it is written, and the number it stands for, if any.
None == -1
Value == {[text |-> <<"2">>, number |-> 2],
          [text |-> <<"2", "2", Blank, ";", "a">>, number |-> 22],
          [text |-> <<"a", "=", "2">>, number |-> None],
          [text |-> <<>>, number |-> None],
          [text |-> <<"huge">>, number |-> None]}

PairLine == [kind : {"pair"}, key : Key, value : Value, pad : BOOLEAN]
SectionLine == [kind : {"section"}, name : {Section, "Log"}, pad : BOOLEAN]
ConfigLine == PairLine \cup SectionLine \cup [kind : {"comment", "blank", "unclosed", "word"}]

Padding(l) == IF l.pad THEN <<Blank>> ELSE <<>>

ConfigText(l) ==
  CASE l.kind = "pair"     -> Padding(l) \o <<l.key>> \o Padding(l) \o <<"=">> \o Padding(l)
                                \o l.value.text \o Padding(l)
    [] l.kind = "section"  -> Padding(l) \o <<"[">> \o Padding(l) \o <<l.name>> \o Padding(l)
                                \o <<"]">> \o Padding(l)
    [] l.kind = "comment"  -> <<Blank, ";", PortKey, "=", "2">>
    [] l.kind = "blank"    -> <<Blank>>
    [] l.kind = "unclosed" -> <<"[", "Log">>
    [] l.kind = "word"     -> <<PortKey>>

\* The section a line belongs to is that of the last section line before it.
InSection(ls, i) ==
  \E j \in 1 .. i :
    /\ ls[j] \in SectionLine /\ ls[j].name = Section
    /\ \A k \in j + 1 .. i : ls[k] \notin SectionLine

\* The number a file gives for a key: its last one in the section, if it is one.
Written(ls, key, default) ==
  LET given == {i \in DOMAIN ls : ls[i] \in PairLine /\ ls[i].key = key /\ InSection(ls, i)}
  IN  IF given = {} \/ ls[Max(given)].value.number = None THEN default
      ELSE ls[Max(given)].value.number

=============================================================================
