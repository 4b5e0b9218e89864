----------------------------- MODULE CommandLine -----------------------------
(***************************************************************************)
(* CommandLine.hpp: CommandLine::Parse as a fold over the arguments.       *)
(*                                                                         *)
(* An argument is a record: `text` is the whole word, as it reads when the *)
(* argument before it takes it for its value; `flag` is the flag it names, *)
(* or "" ; `value` is the part after "=", or NoValue for a bare flag.      *)
(***************************************************************************)
EXTENDS Integers, SequencesExt

CONSTANTS
  Numerals,   \* function: the words std::stoi accepts, to their numbers
  NoValue,    \* a flag without "="
  Program     \* the file name in argv[0]

Unset == ""

TextFlags   == {"name", "host", "grpc_host", "conf", "key"}
NumberFlags == {"port", "grpc_port"}
Flags       == TextFlags \cup NumberFlags

\* CLIArgs as its initialisers leave it.  log_level and extras, which nothing
\* in the library reads, and profile, which names the candidate files, are
\* left out.
NoArgs == [f \in Flags |-> IF f \in NumberFlags THEN 0 ELSE Unset]

\* parse_str and parse_int: a word std::stoi rejects leaves the old number.
Store(args, flag, word) ==
  CASE flag \in TextFlags -> [args EXCEPT ![flag] = word]
    [] flag \in NumberFlags /\ word \in DOMAIN Numerals ->
         [args EXCEPT ![flag] = Numerals[word]]
    [] OTHER -> args

\* One argument.  `open` is the bare flag that takes this word for its value.  A
\* bare flag at the end of the line stays open and is dropped, as in the code.
Argument(acc, arg) ==
  CASE acc.open # Unset ->
         [open |-> Unset, args |-> Store(acc.args, acc.open, arg.text)]
    [] acc.open = Unset /\ arg.flag # Unset /\ arg.value = NoValue ->
         [acc EXCEPT !.open = arg.flag]
    [] acc.open = Unset /\ arg.flag # Unset /\ arg.value # NoValue ->
         [acc EXCEPT !.args = Store(acc.args, arg.flag, arg.value)]
    [] OTHER -> acc

\* Without --name the service is called after its executable.
Named(args) ==
  IF args.name = Unset THEN [args EXCEPT !.name = Program] ELSE args

Parse(argv) ==
  Named(FoldLeft(Argument, [open |-> Unset, args |-> NoArgs], argv).args)

=============================================================================
