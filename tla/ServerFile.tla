----------------------------- MODULE ServerFile -----------------------------
(***************************************************************************)
(* CServerList::Load reads the servers of ServerList.dat, field by field    *)
(* (src/src/ServerList.cpp:21-86).  The files it is given are described by  *)
(* lines, so that what it loads can be compared with what they say.         *)
(***************************************************************************)
EXTENDS ReadScript, SequencesExt

CONSTANTS
  MaxLines,    \* bound: the lines of a file
  Numeral      \* the codes a file may give its servers, and how each is written

Code == DOMAIN Numeral

\* (float)atof of a number's text, cut to 16 bits.  A float has every number up to
\* 2^24, so the numbers of up to seven digits which the files here have are exact.
Value(ch) == (CHOOSE i \in 1 .. 10 : ch = <<"0", "1", "2", "3", "4", "5", "6", "7", "8", "9">>[i]) - 1
NumberOf(word) ==
  LET digits == SubSeq(word, 1, FirstNotIn(word, 1, Digit) - 1)
  IN  FoldLeft(LAMBDA n, ch : 10 * n + Value(ch), 0, digits) % 65536

ASSUME ServerFileAssumption ==
  /\ MaxLines \in Nat
  /\ \A c \in Code :
       /\ Numeral[c] \in Seq(Digit) /\ Len(Numeral[c]) \in 1 .. 7
       /\ NumberOf(Numeral[c]) = c

----------------------------------------------------------------------------
(* What a file says, and how it is written.                                *)

\* A server's line may end in a comment; its flag is quoted or a bare word.  A
\* broken line lacks its flag, or its port too, or has its address unquoted as
\* in README.md:132; "hash" is a comment as in README.md:131.
CompleteLine == [kind : {"server", "commented"}, code : Code, show : BOOLEAN, bare : BOOLEAN]
BrokenLine == [kind : {"noPort", "noFlag", "unquoted"}, code : Code]
OtherLine == [kind : {"comment", "blank", "end", "hash"}]
Line == CompleteLine \cup BrokenLine \cup OtherLine

Name == <<"a", Blank, Slash, Slash>>
Address == <<"1", ".", "0">>
Port == <<"1", "0">>
Flag(l) == IF l.show THEN <<"SHOW">> ELSE <<"a">>
Comment == <<Slash, Slash, "a", Blank, "1">>

Quoted(word) == <<Quote>> \o word \o <<Quote>>
Spaced(words) == FlattenSeq([i \in DOMAIN words |->
                               IF i = 1 THEN words[i] ELSE <<Blank>> \o words[i]])

\* The words of a server's line.
Words(l) ==
  <<Numeral[l.code], Quoted(Name), IF l.kind = "unquoted" THEN Address ELSE Quoted(Address)>>
  \o (IF l.kind = "noPort" THEN <<>> ELSE <<Port>>)
  \o (IF l \in CompleteLine THEN <<IF l.bare THEN Flag(l) ELSE Quoted(Flag(l))>> ELSE <<>>)
  \o (IF l.kind = "commented" THEN <<Comment>> ELSE <<>>)

LineText(l) ==
  CASE l.kind = "blank"   -> <<>>
    [] l.kind = "comment" -> Comment
    [] l.kind = "end"     -> <<"end">>
    [] l.kind = "hash"    -> <<"#", "a", Blank, "1">>
    [] OTHER              -> Spaced(Words(l))

\* The last line may lack its newline, unless it ends in a bare word: that word
\* is lost, and its server with it (WordToken).
Terminated(ls, end) ==
  ~ \E i \in DOMAIN ls :
      i = Len(ls) /\ end = <<>> /\ ls[i].kind = "server" /\ ls[i].bare

FileText(ls, end) ==
  FlattenSeq([i \in DOMAIN ls |->
                LineText(ls[i]) \o (IF i = Len(ls) THEN end ELSE <<Newline>>)])

----------------------------------------------------------------------------
VARIABLES
  lines,      \* history: what the file says
  text,       \* the file
  pos,        \* where the next GetToken starts
  field,      \* which of Load's reads is next
  info,       \* the fields of the server being read
  servers,    \* m_ServerListInfo
  loading     \* Load has not returned

fileVars == <<lines, text, pos, field, info, servers, loading>>

LoadInit ==
  /\ lines \in BoundedSeq(Line, MaxLines)
  /\ \E end \in {<<>>, <<Newline>>} : Terminated(lines, end) /\ text = FileText(lines, end)
  /\ pos = 1 /\ field = "code" /\ info = <<>>
  /\ servers = [c \in {} |-> <<>>]
  /\ loading = TRUE

\* The first read of a server passes over the ends of lines, the others stop there.
NextToken == GetToken(text, pos, field # "code")

\* The next read finds the token it wants.
Read(f, kind, next, value) ==
  /\ loading /\ field = f
  /\ NextToken.kind = kind
  /\ pos' = NextToken.next
  /\ field' = next
  /\ info' = Append(info, value)
  /\ UNCHANGED <<lines, text, servers, loading>>

ReadCode    == Read("code", "number", "name", NumberOf(NextToken.value))
ReadName    == Read("name", "string", "address", NextToken.value)
ReadAddress == Read("address", "string", "port", NextToken.value)
ReadPort    == Read("port", "number", "show", NumberOf(NextToken.value))

\* Mutant: a code listed twice keeps its last line.
ReadShowOverwrites ==
  /\ loading /\ field = "show"
  /\ NextToken.kind = "string"
  /\ pos' = NextToken.next
  /\ servers' = [c \in DOMAIN servers \cup {info[1]} |->
                   IF c = info[1] THEN Append(info, NextToken.value = <<"SHOW">>) ELSE servers[c]]
  /\ field' = "code" /\ info' = <<>>
  /\ UNCHANGED <<lines, text, loading>>

\* The last field, and the insertion, which keeps an entry that is there.
ReadShow ==
  /\ loading /\ field = "show"
  /\ NextToken.kind = "string"
  /\ pos' = NextToken.next
  /\ servers' = [c \in DOMAIN servers \cup {info[1]} |->
                   IF c \in DOMAIN servers THEN servers[c]
                   ELSE Append(info, NextToken.value = <<"SHOW">>)]
  /\ field' = "code" /\ info' = <<>>
  /\ UNCHANGED <<lines, text, loading>>

\* The end of the file or section, or a read that throws: Load returns with the
\* servers it has.
Stop ==
  /\ loading
  /\ NextToken.kind # (IF field \in {"code", "port"} THEN "number" ELSE "string")
  /\ loading' = FALSE
  /\ UNCHANGED <<lines, text, pos, field, info, servers>>

Load == ReadCode \/ ReadName \/ ReadAddress \/ ReadPort \/ ReadShow \/ Stop

----------------------------------------------------------------------------
(* Properties.                                                             *)

\* The lines that count: the complete ones before the first end, broken or hash
\* line.
Counting ==
  {i \in DOMAIN lines :
     /\ lines[i] \in CompleteLine
     /\ \A j \in 1 .. i : lines[j] \notin BrokenLine /\ lines[j].kind \notin {"end", "hash"}}

Entry(l) == <<l.code, Name, Address, 10, l.show>>

\* The servers loaded are those of the lines that count, each code as its first
\* line has it.
LoadsTheList ==
  ~loading =>
    servers = [c \in {lines[i].code : i \in Counting} |->
                 Entry(lines[Min({i \in Counting : lines[i].code = c})])]

=============================================================================
