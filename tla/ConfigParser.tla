---------------------------- MODULE ConfigParser ----------------------------
(***************************************************************************)
(* The parser of configuration files, src/lib/config.c: a state machine    *)
(* over the characters of a chunk, whose state survives from one chunk to  *)
(* the next in part only.  A character here is one that the parser looks   *)
(* at, or a word of two or more that it does not: a string is a sequence   *)
(* of them.  The file is a sequence of lines, each with what it means, so  *)
(* that what was parsed can be compared with what was written.             *)
(***************************************************************************)
EXTENDS Naturals, Sequences, SequencesExt

CONSTANTS MaxLines,    \* lines of a file (bound)
          MaxChunks    \* chunks the file is read in (bound)

ASSUME ConfigAssumption == MaxLines \in Nat /\ MaxChunks \in Nat \ {0}

EOL == "eol"
SP == "space"
QUOTE == "quote"
BACKSLASH == "backslash"
Blank == {SP, EOL}
DEFAULT_SECTION == "default"

SectionLine(s) == [text |-> <<"[", s, "]", EOL>>, section |-> s]
EntryLine(t, k, v) == [text |-> t, key |-> <<k>>, value |-> v]

(* The lines of a file, in the ways of writing them that the tests and the *)
(* comments of the parser know.                                            *)
Lines ==
  {[text |-> <<EOL>>], SectionLine("sink"), SectionLine("source"),
   EntryLine(<<"port", "=", EOL>>, "port", <<>>),
   EntryLine(<<"port", "=", "21500", EOL>>, "port", <<"21500">>),
   EntryLine(<<SP, "host", SP, "=", SP, "sink", SP, EOL>>, "host", <<"sink">>),
   EntryLine(<<"device", "=", QUOTE, "CABLE", SP, "Input", QUOTE, SP, EOL>>,
             "device", <<"CABLE", SP, "Input">>),
   EntryLine(<<"device", "=", "VB", BACKSLASH, "Cable", EOL>>, "device",
             <<"VB", "Cable">>)}

Files == UNION {[1 .. n -> Lines] : n \in 0 .. MaxLines}

VARIABLES file,     \* the lines
          text,     \* their characters
          p,        \* how many were parsed
          flag,     \* the state config_parse is in
          q,        \* where the string begins; 0 is a chunk that is gone
          section,  \* the sections reached from section_head
          tail,     \* section_tail as an index, 0 for NULL
          prev,     \* prev_section likewise
          entry,    \* prev_entry is the last entry of prev_section, not NULL
          chunk,    \* which chunk is parsed
          torn      \* a chunk ended where its end does harm (history)

parserVars == <<file, text, p, flag, q, section, tail, prev, entry, chunk, torn>>

NoString == <<"NULL">>  \* the pointer NULL
Section(name) == [name |-> name, entries |-> <<>>]

ParserInit ==
  /\ file \in Files
  /\ text = FlattenSeq([i \in DOMAIN file |-> file[i].text])
  /\ p = 0 /\ flag = 0 /\ q = 0 /\ section = <<>> /\ tail = 0 /\ prev = 0
  /\ entry = FALSE /\ chunk = 1 /\ torn = FALSE

-----------------------------------------------------------------------------
c == text[p + 1]

(* strstrip stops before the first character: it strips nothing from blank *)
(* strings.                                                                *)
strstrip(s) ==
  LET last == SelectLastInSeq(s, LAMBDA x : x \notin Blank)
  IN IF last = 0 THEN s ELSE SubSeq(s, 1, last)

(* The characters from q to p, or whatever an unset q leads to.            *)
Taken == IF q = 0 THEN <<"?">> ELSE SubSeq(text, q, p)

(* Fault: strings are taken as they are.                                   *)
string_unstripped == Taken

string_create == strstrip(Taken)

(* A recursive function rather than SelectSeq, which has no definition to  *)
(* the provers.                                                            *)
string_unescape(s) ==
  LET kept[i \in 0 .. Len(s)] ==
        IF i = 0 THEN <<>>
        ELSE IF s[i] = BACKSLASH THEN kept[i - 1] ELSE Append(kept[i - 1], s[i])
  IN kept[Len(s)]

value_create == string_unescape(string_create)

(* Fault: a section behind another is never linked.                        *)
Unlinked(s) == IF prev = 0 THEN <<s>> ELSE section

(* section_create, linked behind prev_section; without one it becomes the  *)
(* head.                                                                   *)
Linked(s) == Append(SubSeq(section, 1, prev), s)

Kept == UNCHANGED <<section, tail, prev, entry>>

InitialState ==
  /\ flag = 0
  /\ \/ c = "[" /\ flag' = 1 /\ q' = p + 2
     \/ c \in Blank /\ flag' = 0 /\ UNCHANGED q
     \/ c \notin Blank \cup {"["} /\ flag' = 2 /\ q' = p + 1
  /\ p' = IF flag' = 1 THEN p + 2 ELSE p + 1
  /\ Kept

SectionReading ==
  /\ flag = 1
  /\ IF c # "]" THEN flag' = 1 /\ Kept
     ELSE /\ section' = Linked(Section(string_create))
          /\ tail' = prev + 1 /\ prev' = prev + 1
          /\ flag' = 0 /\ UNCHANGED entry
  /\ p' = p + 1 /\ UNCHANGED q

(* The entry goes to prev_section, or to a new default section, which does *)
(* not become section_tail.                                                *)
WithEntry(s, k) ==
  [s EXCEPT ![Len(s)].entries = Append(@, [key |-> k, value |-> NoString])]

KeyReading ==
  /\ flag = 2
  /\ IF c # "=" THEN flag' = 2 /\ Kept
     ELSE /\ IF prev = 0
             THEN /\ section' = WithEntry(Linked(Section(<<DEFAULT_SECTION>>)),
                                          string_create)
                  /\ prev' = 1
             ELSE section' = WithEntry(section, string_create) /\ UNCHANGED prev
          /\ entry' = TRUE /\ flag' = 3 /\ UNCHANGED tail
  /\ p' = p + 1 /\ UNCHANGED q

(* No character is both '\r' and '\n': only spaces are skipped.            *)
ValueStart ==
  /\ flag = 3
  /\ \/ c = SP /\ flag' = 3 /\ UNCHANGED q
     \/ c = QUOTE /\ flag' = 5 /\ q' = p + 2
     \/ c \notin {SP, QUOTE} /\ flag' = 4 /\ q' = p + 1
  /\ p' = p + 1 /\ Kept

PrevEntry == Len(section[prev].entries)

(* Fault: the end of a value does not end its entry.                       *)
ValueReadingOn(f, end) ==
  /\ flag = f /\ flag' = f /\ p' = p + 1
  /\ section' = IF c = end /\ entry
                THEN [section EXCEPT ![prev].entries[PrevEntry].value = value_create]
                ELSE section
  /\ UNCHANGED <<q, tail, prev, entry>>

ValueReading(f, end) ==
  /\ flag = f
  /\ IF c # end THEN flag' = f /\ UNCHANGED section
     ELSE /\ section' = IF entry
                        THEN [section EXCEPT ![prev].entries[PrevEntry].value =
                                value_create]
                        ELSE section
          /\ flag' = 0
  /\ p' = p + 1 /\ UNCHANGED <<q, tail, prev, entry>>

config_parse == /\ p < Len(text)
                /\ \/ InitialState \/ SectionReading \/ KeyReading \/ ValueStart
                   \/ ValueReading(4, EOL) \/ ValueReading(5, QUOTE)
                /\ UNCHANGED <<file, text, chunk, torn>>

(* The buffer is read again: the string that was begun is gone, and the    *)
(* list is entered again through section_tail.                             *)
NextChunk == /\ chunk < MaxChunks /\ 0 < p /\ p < Len(text)
             /\ chunk' = chunk + 1
             /\ torn' = (torn \/ flag \notin {0, 3} \/ prev # tail)
             /\ q' = 0 /\ prev' = tail
             /\ entry' = (tail # 0 /\ section[tail].entries # <<>>)
             /\ UNCHANGED <<file, text, p, flag, section, tail>>

EndOfFile == p >= Len(text) /\ UNCHANGED parserVars

ParserNext == config_parse \/ NextChunk \/ EndOfFile

ParserSpec == ParserInit /\ [][ParserNext]_parserVars

-----------------------------------------------------------------------------
(* Lookup: the first match counts.                                         *)
FirstOf(at) == Min(at)

ra_config_get_section(name) ==
  LET at == {i \in DOMAIN section : section[i].name = name}
  IN IF at = {} THEN <<>> ELSE section[FirstOf(at)].entries

ra_config_get_value(entries, k) ==
  LET at == {i \in DOMAIN entries : entries[i].key = k}
  IN IF at = {} THEN NoString ELSE entries[FirstOf(at)].value

-----------------------------------------------------------------------------
(* What the lines say: the reference the parser is compared with.          *)
Read(s, line) ==
  IF "section" \in DOMAIN line THEN Append(s, Section(<<line.section>>))
  ELSE IF "key" \notin DOMAIN line THEN s
  ELSE LET t == IF s = <<>> THEN <<Section(<<DEFAULT_SECTION>>)>> ELSE s
       IN [t EXCEPT ![Len(t)].entries =
             Append(@, [key |-> line.key, value |-> line.value])]

(* The sections, keys and values of the first n lines.                     *)
Meaning[n \in 0 .. Len(file)] ==
  IF n = 0 THEN <<>> ELSE Read(Meaning[n - 1], file[n])

(* The value of a key as a reader of the file finds it: under the first    *)
(* header with the name, or above every header for the default section,    *)
(* in the first line with the key.                                         *)
IsHeader(i) == "section" \in DOMAIN file[i]
Under(i) == {0} \cup {h \in 1 .. i : IsHeader(h)}
HeaderOf(i) == CHOOSE h \in Under(i) : \A g \in Under(i) : g <= h
NameOf(h) == IF h = 0 THEN DEFAULT_SECTION ELSE file[h].section

WrittenAt(name, k, n) ==
  {i \in 1 .. n : /\ "key" \in DOMAIN file[i] /\ file[i].key = k
                  /\ NameOf(HeaderOf(i)) = name
                  /\ \A h \in 1 .. HeaderOf(i) - 1 :
                       ~(IsHeader(h) /\ file[h].section = name)}

WrittenValue(name, k, n) ==
  LET at == WrittenAt(name, k, n)
  IN IF at = {} THEN NoString
     ELSE file[CHOOSE i \in at : \A j \in at : i <= j].value

NoValue(i) == "key" \in DOMAIN file[i] /\ file[i].value = <<>>

(* Up to the end of line n every key has a value and nothing was torn.     *)
Sound(n) == ~torn /\ \A i \in 1 .. n : ~NoValue(i)

(* How many characters the first n lines have.                             *)
Ends[n \in 0 .. Len(file)] ==
  IF n = 0 THEN 0 ELSE Ends[n - 1] + Len(file[n].text)

LineEnd(n) == p = Ends[n]

ParserTypeOK ==
  /\ file \in Files
  /\ p \in 0 .. Len(text) + 1 /\ q \in 0 .. Len(text) + 1
  /\ flag \in 0 .. 5
  /\ tail \in {0, prev} /\ prev \in 0 .. Len(section)
  /\ chunk \in 1 .. MaxChunks /\ entry \in BOOLEAN /\ torn \in BOOLEAN

(* Every key is found under its section with the value that was written    *)
(* first: the keys above the first header in the default section, and a    *)
(* section whose header is repeated is the first of them.                  *)
FoundAsWritten(n) ==
  \A name \in {DEFAULT_SECTION, "sink", "source"},
     k \in {"port", "host", "device"} :
    ra_config_get_value(ra_config_get_section(<<name>>), <<k>>)
      = WrittenValue(name, <<k>>, n)

(* At the end of each line the sections, keys and values are those of the  *)
(* lines so far, and look-ups find them, also when the file was read in    *)
(* chunks, unless a chunk ended in a string or before the first section    *)
(* header, or a key had no value (config_parse, ra_config_get_value).      *)
ParsedAsWritten ==
  \A n \in 0 .. Len(file) : LineEnd(n) /\ Sound(n) =>
    section = Meaning[n] /\ FoundAsWritten(n)

(* However the file is cut into chunks, the parser is back in its initial  *)
(* state at the end of each line, unless the line is a key without a value *)
(* (the test of config.c:122 is true of no character): that key takes the  *)
(* next line for its value, and no further one.                            *)
LinesResync ==
  \A n \in 1 .. Len(file) : LineEnd(n) /\ flag # 0 => NoValue(n)
=============================================================================
