------------------------------ MODULE Secrets ------------------------------
(***************************************************************************)
(* Secrets: names registered from Lua (l_module_ltf_register_secrets), the *)
(* file .secrets read line by line (ltf_secrets_parse_file), the           *)
(* validation of one against the other (ltf_parse_secrets) and the reads   *)
(* of the tests (l_module_ltf_get_secret, the operator Get).               *)
(*                                                                         *)
(* A string is a sequence of tokens: Space is any character up to ' ',     *)
(* Equals is '=', Quotes is three double quotes, Newline ends a line, and  *)
(* the other tokens are text.                                              *)
(***************************************************************************)
EXTENDS Naturals, Sequences, FiniteSets, SequencesExt

CONSTANTS
  Text,      \* tokens that are plain text
  Names,     \* strings that are registered
  Words,     \* strings that files are written from
  Blanks,    \* the four stretches of white space that an assignment is written with
  MaxLines,  \* bound on the lines of the file
  MaxNames,  \* bound on the names of one call of register_secrets
  MaxCalls   \* bound on the calls of register_secrets

Space   == " "
Equals  == "="
Quotes  == "QQQ"
Newline == "nl"
Null    == <<"null">>  \* a null pointer, no string of the model

Token == Text \cup {Space, Equals, Quotes, Newline}

\* What the constants must be; the module that gives them values assumes it.
ConstantsOK ==
  /\ Text \cap {Space, Equals, Quotes, Newline, Null[1]} = {}
  /\ Words \subseteq Seq(Token \ {Newline})
  /\ Blanks \subseteq [1 .. 4 -> Seq({Space})]
  /\ MaxLines \in Nat /\ MaxNames \in Nat /\ MaxCalls \in Nat

VARIABLES
  pc,            \* the step of ltf_test
  lines,         \* how many lines getline has returned
  meant,         \* history: the pairs that the lines read so far stand for,
  open,          \*   the key of the value in quotes they leave open, or << >>,
  text,          \*   and the lines of that value, joined, or Null without any
  in_multiline,
  ml_key,
  buf,
  specified,     \* the pairs read
  secrets,       \* the registered secrets
  validated,     \* how many of them ltf_parse_secrets saw
  calls

history == <<meant, open, text>>
parser  == <<lines, history, in_multiline, ml_key, buf, specified>>
vars    == <<pc, parser, secrets, validated, calls>>

Init ==
  /\ pc = "lib"
  /\ lines = 0
  /\ meant = << >> /\ open = << >> /\ text = Null
  /\ in_multiline = FALSE
  /\ ml_key = << >>
  /\ buf = << >>
  /\ specified = << >>
  /\ secrets = << >>
  /\ validated = 0
  /\ calls = 0

-----------------------------------------------------------------------------
\* Strings.

From(s, i)   == SubSeq(s, i, Len(s))
Before(s, i) == SubSeq(s, 1, i - 1)

\* The place of the first of a token, one past the end without any.
Find(s, t) == CHOOSE i \in 1 .. Len(s) + 1 :
                /\ i <= Len(s) => s[i] = t
                /\ \A j \in 1 .. i - 1 : s[j] # t

Holds(s, t) == \E i \in DOMAIN s : s[i] = t

StartsWith(s, t) == s # << >> /\ s[1] = t

ltrim(s) == From(s, CHOOSE i \in 1 .. Len(s) + 1 :
                      /\ i <= Len(s) => s[i] # Space
                      /\ \A j \in 1 .. i - 1 : s[j] = Space)
rtrim(s) == SubSeq(s, 1, CHOOSE n \in 0 .. Len(s) :
                           /\ n > 0 => s[n] # Space
                           /\ \A j \in n + 1 .. Len(s) : s[j] = Space)
trim(s)  == rtrim(ltrim(s))

-----------------------------------------------------------------------------
\* ltf_secrets_parse_file, one line of its loop at a time.

finish_multiline(value) ==
  /\ specified' = Append(specified, [key |-> ml_key, value |-> value])
  /\ ml_key' = << >>
  /\ buf' = << >>
  /\ in_multiline' = FALSE

\* Mutant: the newline before the closing quotes stays in the value.
ContinueMultilineKeeps(line) ==
  IF Holds(line, Quotes)
    THEN finish_multiline(buf \o Before(line, Find(line, Quotes)))
    ELSE /\ buf' = buf \o line \o <<Newline>>
         /\ UNCHANGED <<in_multiline, ml_key, specified>>

\* A line of a value in triple quotes.  Quotes that start the line end the
\* value and take away the newline before them; anything after them is lost.
ContinueMultiline(line) ==
  IF StartsWith(ltrim(line), Quotes)
    THEN finish_multiline(IF buf # << >> THEN Front(buf) ELSE buf)
  ELSE IF Holds(line, Quotes)
    THEN finish_multiline(buf \o Before(line, Find(line, Quotes)))
  ELSE /\ buf' = buf \o line \o <<Newline>>
       /\ UNCHANGED <<in_multiline, ml_key, specified>>

\* What is assigned to a key: a value, in quotes or not, or the start of one.
Assign(key, val) ==
  LET rest == Tail(val) IN
  IF ~StartsWith(val, Quotes)
    THEN /\ specified' = Append(specified, [key |-> key, value |-> val])
         /\ UNCHANGED <<in_multiline, ml_key, buf>>
  ELSE IF Holds(rest, Quotes)
    THEN /\ specified' = Append(specified,
              [key |-> key, value |-> Before(rest, Find(rest, Quotes))])
         /\ UNCHANGED <<in_multiline, ml_key, buf>>
  ELSE /\ in_multiline' = TRUE
       /\ ml_key' = key
       /\ buf' = IF rest = << >> THEN rest ELSE rest \o <<Newline>>
       /\ UNCHANGED specified

\* Any other line: an assignment, or nothing.
OtherLine(line) ==
  LET s   == trim(line)
      eq  == Find(s, Equals)
      key == trim(Before(s, eq))
      val == trim(From(s, eq + 1))
  IN  IF ~Holds(s, Equals) \/ key = << >>
        THEN UNCHANGED <<in_multiline, ml_key, buf, specified>>
        ELSE Assign(key, val)

ReadLine(line) ==
  /\ pc = "read"
  /\ lines < MaxLines
  /\ lines' = lines + 1
  /\ IF in_multiline THEN ContinueMultiline(line) ELSE OtherLine(line)
  /\ UNCHANGED <<pc, secrets, validated, calls>>

-----------------------------------------------------------------------------
\* The lines of a file, each with what whoever wrote it meant by it.

\* No white space at either end.
Bare(s) == s # << >> => s[1] # Space /\ s[Len(s)] # Space

Blank(s) == \A i \in DOMAIN s : s[i] = Space

Keys    == {w \in Words : w # << >> /\ Bare(w) /\ ~Holds(w, Equals)}
Content == {w \in Words : ~Holds(w, Quotes)}

Assignment(b, key, raw) ==
  b[1] \o key \o b[2] \o <<Equals>> \o b[3] \o raw \o b[4]

Means(key, value) == meant' = Append(meant, [key |-> key, value |-> value])

\* A line without a "=", or with nothing before it.
Malformed ==
  /\ open = << >>
  /\ \E w \in Words, b \in Blanks :
       \/ ~Holds(w, Equals) /\ ReadLine(w)
       \/ ReadLine(b[1] \o <<Equals>> \o w)
  /\ UNCHANGED history

\* key=value
PlainPair ==
  /\ open = << >>
  /\ \E b \in Blanks, key \in Keys, value \in Words :
       /\ Bare(value) /\ ~StartsWith(value, Quotes)
       /\ ReadLine(Assignment(b, key, value))
       /\ Means(key, value)
  /\ UNCHANGED <<open, text>>

\* key="""value""", and anything after the quotes.
QuotedPair ==
  /\ open = << >>
  /\ \E b \in Blanks, key \in Keys, value \in Content, rest \in Words :
       LET raw == <<Quotes>> \o value \o <<Quotes>> \o rest IN
       /\ Bare(raw)
       /\ ReadLine(Assignment(b, key, raw))
       /\ Means(key, value)
  /\ UNCHANGED <<open, text>>

\* key=""", and perhaps the first line of the value.
OpenValue ==
  /\ open = << >>
  /\ \E b \in Blanks, key \in Keys, first \in Content :
       LET raw == <<Quotes>> \o first IN
       /\ Bare(raw)
       /\ ReadLine(Assignment(b, key, raw))
       /\ open' = key
       /\ text' = IF first = << >> THEN Null ELSE first
  /\ UNCHANGED meant

\* The lines of the open value, and one more.
Joined(line) == IF text = Null THEN line ELSE text \o <<Newline>> \o line

\* One more line of the value, whatever it looks like.
ContentLine ==
  /\ open # << >>
  /\ \E line \in Content : ReadLine(line) /\ text' = Joined(line)
  /\ UNCHANGED <<meant, open>>

\* """ on a line of its own, or after the last line of the value.
ClosingLine ==
  /\ open # << >>
  /\ \E line \in Content, rest \in Words :
       /\ ReadLine(line \o <<Quotes>> \o rest)
       /\ Means(open, IF ~Blank(line) THEN Joined(line)
                      ELSE IF text = Null THEN << >> ELSE text)
  /\ open' = << >>
  /\ text' = Null

\* The file ended; a value that is still open ends with it, newline and all.
EndOfFile ==
  /\ pc = "read"
  /\ IF in_multiline THEN finish_multiline(buf)
                     ELSE UNCHANGED <<in_multiline, ml_key, buf, specified>>
  /\ IF open = << >> THEN UNCHANGED meant
     ELSE Means(open, IF text = Null THEN << >> ELSE text \o <<Newline>>)
  /\ open' = << >>
  /\ text' = Null
  /\ pc' = "validate"
  /\ UNCHANGED <<lines, secrets, validated, calls>>

\* The file is there and cannot be opened, or the memory is out.
CannotRead ==
  /\ pc = "read"
  /\ pc' = "failed"
  /\ UNCHANGED <<parser, secrets, validated, calls>>

-----------------------------------------------------------------------------
\* l_module_ltf_register_secrets.
RegisterSecrets(names) ==
  /\ pc \in {"lib", "tests", "run"}
  /\ calls < MaxCalls
  /\ calls' = calls + 1
  /\ secrets' = secrets \o [i \in DOMAIN names |-> [key |-> names[i], value |-> Null]]
  /\ UNCHANGED <<pc, parser, validated>>

\* l_module_ltf_get_secret of a registered name.
Get(name) ==
  secrets[CHOOSE i \in DOMAIN secrets :
            /\ secrets[i].key = name
            /\ \A j \in DOMAIN secrets : secrets[j].key = name => i <= j].value

Repeats(names) == \E i, j \in DOMAIN names : i # j /\ names[i] = names[j]

\* The places where the file gives a name a value, and the first of these values.
Provided(name) == {i \in DOMAIN specified : specified[i].key = name}
FirstProvided(name) ==
  specified[CHOOSE i \in Provided(name) : \A j \in Provided(name) : i <= j].value

Rejected ==
  \/ Repeats([i \in DOMAIN secrets |-> secrets[i].key])
  \/ Repeats([i \in DOMAIN specified |-> specified[i].key])
  \/ \E i \in DOMAIN secrets : Provided(secrets[i].key) = {}

\* ltf_parse_secrets after the file was read.
ParseSecrets ==
  /\ pc = "validate"
  /\ secrets' = [i \in DOMAIN secrets |->
                   IF Provided(secrets[i].key) = {} THEN secrets[i]
                   ELSE [secrets[i] EXCEPT !.value = FirstProvided(secrets[i].key)]]
  /\ validated' = Len(secrets)
  /\ pc' = IF Rejected THEN "failed" ELSE "tests"
  /\ UNCHANGED <<parser, calls>>

Proceed ==
  /\ pc \in {"lib", "tests", "run"}
  /\ pc' = [lib |-> "read", tests |-> "run", run |-> "done"][pc]
  /\ UNCHANGED <<parser, secrets, validated, calls>>

Terminated == pc \in {"done", "failed"} /\ UNCHANGED vars

Next ==
  \/ Malformed \/ PlainPair \/ QuotedPair
  \/ OpenValue \/ ContentLine \/ ClosingLine
  \/ EndOfFile \/ CannotRead
  \/ \E names \in SeqOf(Names, MaxNames) : RegisterSecrets(names)
  \/ ParseSecrets
  \/ Proceed
  \/ Terminated

Spec == Init /\ [][Next]_vars

-----------------------------------------------------------------------------
Started == pc \in {"tests", "run", "done"}

\* Every variable stays in its type; outside a value in triple quotes nothing
\* is left of the last one.
TypeOK ==
  /\ pc \in {"lib", "read", "validate", "tests", "run", "done", "failed"}
  /\ lines \in 0 .. MaxLines
  /\ meant \in Seq([key : Seq(Token), value : Seq(Token)])
  /\ open \in Seq(Token) /\ text \in Seq(Token) \cup {Null}
  /\ in_multiline \in BOOLEAN
  /\ ml_key \in Seq(Token) /\ buf \in Seq(Token)
  /\ ~in_multiline => ml_key = << >> /\ buf = << >>
  /\ specified \in Seq([key : Seq(Token), value : Seq(Token)])
  /\ secrets \in Seq([key : Names, value : Seq(Token) \cup {Null}])
  /\ validated \in 0 .. Len(secrets)
  /\ calls \in 0 .. MaxCalls

\* At every line of a file that is written in the documented forms the parser
\* has read the pairs that the lines stand for, multiline values to the last
\* newline, and knows whether the next line belongs to a value; malformed lines
\* change nothing; and once the tests are loaded every secret of lib reads what
\* the file says.
FileMeansItsPairs ==
  /\ specified = meant
  /\ in_multiline <=> open # << >>
  /\ Started =>
       \A i \in 1 .. validated : \E j \in DOMAIN meant :
         meant[j].key = secrets[i].key /\ meant[j].value = Get(secrets[i].key)

=============================================================================
