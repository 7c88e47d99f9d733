----------------------------- MODULE Parameter -----------------------------
(****************************************************************************)
(* Parameter.hpp: the options of the command line tool.  main() runs the     *)
(* same parser twice, over a string of defaults and over the command line.   *)
(*                                                                           *)
(* A word of the command line is a tuple: <<"option", f>> for an option that *)
(* sets field f, long or short; <<"help">> for "-?" and "--..."; <<"unknown">> *)
(* for any other word with a dash; <<"number", n>>; <<"text", name>>.        *)
(****************************************************************************)
EXTENDS Integers, Sequences

VARIABLES
    arguments,  \* the words of the command line, after the program's name
    argv, i,    \* the words being parsed, and the next of them
    PP,         \* the fields of the Parameter object
    parsing     \* "defaults", "arguments", "done" or "help"

pvars == <<arguments, argv, i, PP, parsing>>

NULL == <<"text", "NULL">>

\* What init_0() leaves in the fields.
Cleared ==
    [weights |-> <<"text", "">>, degrees |-> <<"text", "">>, output |-> <<"text", "">>,
     const_u |-> 0, const_l |-> 0, sparse |-> 0, method |-> 0]

\* The string of defaults in main().
Defaults ==
    << <<"option", "weights">>, NULL, <<"option", "degrees">>, NULL, <<"option", "output">>, NULL,
       <<"option", "const_l">>, <<"number", -1>>, <<"option", "const_u">>, <<"number", -1>>,
       <<"option", "sparse">>, <<"number", 0>>, <<"option", "method">>, <<"number", 1>> >>

Dashed(word) == word[1] \in {"option", "help", "unknown"} \/ (word[1] = "number" /\ word[2] < 0)

atoi(word) == IF word[1] = "number" THEN word[2] ELSE 0

Value(field, word) == IF field \in {"weights", "degrees", "output"} THEN word ELSE atoi(word)

ParameterInit(words) ==
    /\ arguments = words
    /\ argv = Defaults /\ i = 1
    /\ PP = Cleared
    /\ parsing = "defaults"

AtOption == parsing \in {"defaults", "arguments"} /\ i <= Len(argv) /\ Dashed(argv[i])
WantsHelp == argv[i][1] = "help" \/ i = Len(argv)

\* print_help() leaves the program: exit(1).
PrintHelp ==
    /\ AtOption
    /\ WantsHelp
    /\ parsing' = "help"
    /\ UNCHANGED <<arguments, argv, i, PP>>

SetOption ==
    /\ AtOption
    /\ ~ WantsHelp
    /\ argv[i][1] = "option"
    /\ PP' = [PP EXCEPT ![argv[i][2]] = Value(argv[i][2], argv[i + 1])]
    /\ i' = i + 2
    /\ UNCHANGED <<arguments, argv, parsing>>

\* An unknown option takes the word after it along.
SkipOption ==
    /\ AtOption
    /\ ~ WantsHelp
    /\ argv[i][1] # "option"
    /\ i' = i + 2
    /\ UNCHANGED <<arguments, argv, PP, parsing>>

\* The first word without a dash, or the end of the words, ends the parsing.
EndOptions ==
    /\ parsing \in {"defaults", "arguments"}
    /\ ~ (i <= Len(argv) /\ Dashed(argv[i]))
    /\ argv' = arguments
    /\ i' = 1
    /\ parsing' = IF parsing = "defaults" THEN "arguments" ELSE "done"
    /\ UNCHANGED <<arguments, PP>>

Parse == PrintHelp \/ SetOption \/ SkipOption \/ EndOptions
=============================================================================
