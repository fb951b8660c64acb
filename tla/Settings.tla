------------------------------ MODULE Settings ------------------------------
(***************************************************************************)
(* What ltf_test takes the test variables and the secrets from.  The       *)
(* command line and the scenarios leave a list of values (Options),        *)
(* against which the variables that are registered from Lua are validated  *)
(* (Variables); the file .secrets gives the registered secrets their       *)
(* values (Secrets).  The three keep their state apart.                    *)
(***************************************************************************)
EXTENDS Variables

CONSTANTS
  Tags, Targets, Paths, Files, MaxOptions,
  Text, SecretNames, Words, Blanks, MaxLines, MaxNames

VARIABLES
  o_pc, opts, level_set, parsed, scenario, stack, next, freed, twice, cli

VARIABLES
  s_pc, lines, meant, open, text, in_multiline, ml_key, buf, specified, secrets,
  s_validated, s_calls

O == INSTANCE Options WITH Keys <- Names, pc <- o_pc

ASSUME OptionsAssumption == O!ConstantsOK

Sec == INSTANCE Secrets WITH
       Names <- SecretNames, pc <- s_pc, validated <- s_validated, calls <- s_calls

ASSUME SecretsAssumption == Sec!ConstantsOK

oVars == <<o_pc, opts, level_set, parsed, scenario, stack, next, freed, twice, cli>>
sVars == <<s_pc, lines, meant, open, text, in_multiline, ml_key, buf, specified,
           secrets, s_validated, s_calls>>

\* What the command line asks for wins over every scenario (Options).
CliWins == O!CliWins

\* The options hold no string that was released (Options).
OptionsAlive == O!OptionsAlive

\* The values that the options leave behind are such as Variables starts from:
\* no name has two.
KeysApart == ~Repeats([i \in DOMAIN opts.vars |-> opts.vars[i].key])

\* A file of secrets is read as the pairs it stands for, and so do the tests
\* read it (Secrets).
FileMeansItsPairs == Sec!FileMeansItsPairs

=============================================================================
