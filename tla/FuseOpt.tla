------------------------------ MODULE FuseOpt ------------------------------
(***************************************************************************)
(* The option parser (lib/fuse_opt.c).  A command line is parsed several     *)
(* times, by parts of the library that know different options; each takes    *)
(* what it knows and rewrites the rest for the next.  Text is a sequence of  *)
(* characters, of which the comma and the backslash mean something.          *)
(***************************************************************************)
EXTENDS Integers, Sequences, SequencesExt

CONSTANTS
  CommandLines,   \* sequences of arguments, without the program's name
  KnownOptions    \* for every pass, the texts its table has

VARIABLES
  argv,       \* args->argv, the program's name left out
  ctx,        \* [argctr, out, opts, hasOpts, nonopt, failed]
  passes,     \* passes that are over
  taken,      \* what the passes took, in order
  original    \* the items of the command line as it was typed

optVars == <<argv, ctx, passes, taken, original>>

(* An argument by its first characters: "-o" and its group, "--", "-x", "-x" *)
(* that takes the next argument, or something else.                          *)
Arg(class, text) == [class |-> class, text |-> text]

NewContext == [argctr |-> 1, out |-> <<>>, opts |-> <<>>, hasOpts |-> FALSE, nonopt |-> 0,
               failed |-> FALSE]

(* add_opt_common, with escapes; the comma goes in front of all but the      *)
(* first.                                                                    *)
Escaped(text) ==
  FoldSeq(LAMBDA c, s : (IF c \in {",", "\\"} THEN <<"\\", c>> ELSE <<c>>) \o s, <<>>, text)

add_opt_plain(c, text) ==
  [c EXCEPT !.hasOpts = TRUE, !.opts = (IF @ = <<>> THEN <<>> ELSE @ \o <<",">>) \o text]
add_opt(c, text) ==
  [c EXCEPT !.hasOpts = TRUE, !.opts = (IF @ = <<>> THEN <<>> ELSE @ \o <<",">>) \o Escaped(text)]

add_arg(c, arg) == [c EXCEPT !.out = Append(@, arg)]

(* process_real_option_group: the options of a group, without the escapes.   *)
Split(group) ==
  LET step(s, ch) ==
        IF s.esc THEN [s EXCEPT !.cur = Append(@, ch), !.esc = FALSE]
        ELSE IF ch = "\\" THEN [s EXCEPT !.esc = TRUE]
        ELSE IF ch = "," THEN [s EXCEPT !.list = Append(@, s.cur), !.cur = <<>>]
        ELSE [s EXCEPT !.cur = Append(@, ch)]
      end == FoldLeft(step, [list |-> <<>>, cur |-> <<>>, esc |-> FALSE], group)
  IN  Append(end.list, IF end.esc THEN Append(end.cur, "\\") ELSE end.cur)

Known(item) == item.text \in KnownOptions[passes + 1]

(* The first pass takes the mount point. *)
TakesNonopt == passes = 0

-----------------------------------------------------------------------------
process_option_group(c, group) ==
  FoldLeft(LAMBDA d, t : IF Known(Arg("opt", t)) THEN d ELSE add_opt(d, t), c, Split(group))

TakenOfGroup(group) ==
  SelectSeq([i \in DOMAIN Split(group) |-> Arg("opt", Split(group)[i])], Known)

(* After "--" nothing is an option. *)
Behind(c) == c.nonopt # 0

(* One argument. *)
process_one ==
  /\ passes < Len(KnownOptions) /\ ctx.argctr <= Len(argv) /\ ~ ctx.failed
  /\ LET arg == argv[ctx.argctr]
         c == [ctx EXCEPT !.argctr = @ + 1]
         item == Arg(IF Behind(ctx) THEN "word" ELSE arg.class, arg.text)
     IN  IF Behind(ctx) \/ arg.class = "word"
         THEN IF TakesNonopt THEN ctx' = c /\ taken' = Append(taken, item)
              ELSE ctx' = add_arg(c, arg) /\ UNCHANGED taken
         ELSE IF arg.class = "group"
         THEN ctx' = process_option_group(c, arg.text) /\ taken' = taken \o TakenOfGroup(arg.text)
         ELSE IF arg.class = "--"
         THEN ctx' = [add_arg(c, arg) EXCEPT !.nonopt = Len(c.out) + 2] /\ UNCHANGED taken
         ELSE IF Known(arg)
         THEN IF arg.class = "sep" /\ ctx.argctr = Len(argv)    \* next_arg
              THEN ctx' = [ctx EXCEPT !.failed = TRUE] /\ UNCHANGED taken
              ELSE /\ ctx' = [c EXCEPT !.argctr = @ + (IF arg.class = "sep" THEN 1 ELSE 0)]
                   /\ taken' = Append(taken, item)
         ELSE ctx' = add_arg(c, arg) /\ UNCHANGED taken
  /\ UNCHANGED <<argv, passes, original>>

(* The end of opt_parse: the options that were kept become one group at the  *)
(* front; "--" goes if it is last by the count from before that.             *)
Rewritten(c) == IF c.hasOpts THEN <<Arg("group", c.opts)>> \o c.out ELSE c.out
Argc(c) == 1 + Len(c.out) + (IF c.hasOpts THEN 2 ELSE 0)

opt_parse_ends ==
  /\ passes < Len(KnownOptions) /\ ctx.argctr > Len(argv) /\ ~ ctx.failed
  /\ LET args == Rewritten(ctx)
         last == /\ ctx.nonopt # 0 /\ ctx.nonopt = Argc(ctx)
                 /\ args # <<>> /\ Last(args).class = "--"
     IN  argv' = IF last THEN Front(args) ELSE args
  /\ passes' = passes + 1
  /\ ctx' = NewContext
  /\ UNCHANGED <<taken, original>>

OptNext == process_one \/ opt_parse_ends

-----------------------------------------------------------------------------
(* What a command line says: options, flags and words in order.  A group is  *)
(* moved to the front as a whole, so the two sorts are kept apart.  The      *)
(* options that take the next argument are known to the first pass.          *)
Start == [list |-> <<>>, behind |-> FALSE, skip |-> FALSE]

Words(args) ==
  LET step(s, a) ==
        IF s.skip THEN [s EXCEPT !.skip = FALSE]
        ELSE IF s.behind \/ a.class = "word"
        THEN [s EXCEPT !.list = Append(@, Arg("word", a.text))]
        ELSE [s EXCEPT !.behind = a.class = "--", !.skip = a.class = "sep"]
  IN  FoldLeft(step, Start, args).list

Options(args) ==
  LET step(s, a) ==
        IF s.skip THEN [s EXCEPT !.skip = FALSE]
        ELSE IF s.behind \/ a.class = "word" THEN s
        ELSE [s EXCEPT
                !.behind = a.class = "--", !.skip = a.class = "sep",
                !.list = IF a.class # "group" THEN @
                         ELSE @ \o [i \in DOMAIN Split(a.text) |-> Arg("opt", Split(a.text)[i])]]
  IN  SelectSeq(FoldLeft(step, Start, args).list,
                LAMBDA x : x.text # <<>>)

SaidOnLine(args) == [words |-> Words(args), options |-> Options(args)]

OptInit ==
  /\ argv \in CommandLines
  /\ ctx = NewContext /\ passes = 0 /\ taken = <<>>
  /\ original = SaidOnLine(argv)

OfClass(s, class) == SelectSeq(s, LAMBDA x : x.class = class)
Remaining(s) ==
  SelectSeq(s, LAMBDA x : \A p \in 1..passes : x.text \notin KnownOptions[p])

(* An option that a pass does not know reaches the next one as it was typed, *)
(* commas and backslashes included, and in its place among the others; one   *)
(* that it knows reaches none.  (An empty option may disappear.)             *)
OptionsSurvive ==
  ctx = NewContext => Options(argv) = Remaining(original.options)

(* Words, and everything behind "--", are words to every pass: the pass that *)
(* wants them gets them all, in order, and as what they are.                 *)
WordsStayWords ==
  passes > 0 => OfClass(taken, "word") = original.words /\ Words(argv) = <<>>

(* However often a command line is rewritten, each argument reaches the     *)
(* pass it is meant for, as what it is.                                     *)
ArgumentsKept ==
    WordsStayWords /\ OptionsSurvive

(* "If option separator ("--") is the last argument, remove it"              *)
(* (lib/fuse_opt.c): no pass leaves a separator with nothing behind it.      *)
SeparatorRemoved ==
  ctx = NewContext /\ passes > 0 => argv = <<>> \/ Last(argv).class # "--"
=============================================================================
