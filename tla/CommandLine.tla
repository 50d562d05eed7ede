------------------------------ MODULE CommandLine ------------------------------
(***************************************************************************)
(* src/cli/framework.ts: how a command line becomes the flags and the      *)
(* positionals a command's handler is called with.  execute finds the      *)
(* command, takes every --json out of the line, lets parseArgs walk over   *)
(* the rest token by token, and checks what is required.                   *)
(*                                                                         *)
(* A token is known by its shape.  A token that becomes the value of a     *)
(* flag stays the token it is, whatever it looks like.                     *)
(***************************************************************************)
EXTENDS Naturals, Sequences

CONSTANTS Registered,  \* the commands, in the order of their registration
          Words,       \* the texts of plain tokens and of =values
          Numeric,     \* those that Number reads as a finite number
          Negative,    \* the names n for which it reads -n as one: 5, 0.5, ...
          Unset,       \* no value
          Lines        \* bound: the lines that are entered

(* --name, --name=value and -n; "end" is the -- that ends the flags, "help" *)
(* stands for those words and flags that execute answers by itself.         *)
Tokens == [kind : {"word"}, text : Words] \cup [kind : {"end", "json", "help"}]
          \cup [kind : {"long"}, name : STRING, value : Words \cup {Unset}]
          \cup [kind : {"short"}, name : STRING]

FlagTypes == {"boolean", "string", "number"}

(* A flag has a type and may have a letter, which no other has.             *)
Defines(defs) ==
    /\ \A n \in DOMAIN defs : defs[n].type \in FlagTypes
    /\ \A m, n \in DOMAIN defs :
         (defs[m].short \in STRING /\ defs[m].short = defs[n].short) => m = n

ASSUME CommandLineAssumption ==
    /\ Numeric \subseteq Words /\ Negative \subseteq STRING /\ Unset \notin Tokens
    /\ Len(Registered) \in Nat /\ DOMAIN Registered = 1 .. Len(Registered)
    /\ \A i \in DOMAIN Registered : Defines(Registered[i].flags)
    /\ \A l \in Lines : l \in Seq(Tokens) /\ \A i \in 2 .. Len(l) : l[i].kind # "help"

VARIABLES doing,        \* "waiting", "parsing", "checking", "handled", "refused"
                        \* or "ended"
          line,         \* the line
          argv,         \* the tokens parseArgs gets
          cursor,       \* the token it is at
          flags,        \* the flags set so far
          positionals,
          exitCode      \* at the end

commandVars == <<doing, line, argv, cursor, flags, positionals, exitCode>>

(* Those of the first n of s that are at P.                                 *)
Picked(s, P, n) ==
    LET upto[i \in 0 .. Len(s)] ==
          IF i = 0 THEN <<>>
          ELSE IF i \in P THEN Append(upto[i - 1], s[i]) ELSE upto[i - 1]
    IN  upto[n]

(* CommandRegistry: a name or alias stands for whom it was given to last.   *)
Named(n) == {i \in DOMAIN Registered : n \in Registered[i].names}
Command(n) == Registered[CHOOSE i \in Named(n) : \A j \in Named(n) : j <= i]
Def == Command(Head(line).text)

(* --json is taken out of all that follows the command, wherever it stands: *)
(* where a flag would have taken it, and behind -- too.                     *)
WithoutJson(s) == Picked(s, {i \in DOMAIN s : s[i].kind # "json"}, Len(s))

CommandInit ==
    /\ doing = "waiting" /\ line = <<>> /\ argv = <<>> /\ cursor = 1
    /\ flags = <<>> /\ positionals = <<>> /\ exitCode = Unset

End(code) == doing' = "ended" /\ exitCode' = code

(* execute, up to parseArgs.                                                *)
Execute ==
    /\ doing = "waiting"
    /\ \E l \in Lines :
         /\ line' = l
         /\ IF l = <<>> \/ Head(l).kind = "help"
            THEN End(0) /\ UNCHANGED <<argv, flags>>
            ELSE IF Head(l).kind # "word" \/ Named(Head(l).text) = {}
            THEN End(2) /\ UNCHANGED <<argv, flags>>
            ELSE /\ doing' = "parsing" /\ UNCHANGED exitCode
                 /\ argv' = WithoutJson(Tail(l))
                 /\ flags' = [n \in DOMAIN Command(Head(l).text).flags |-> Unset]
    /\ UNCHANGED <<cursor, positionals>>

Token == argv[cursor]
Parsing(kind) == doing = "parsing" /\ cursor <= Len(argv) /\ Token.kind = kind
Goto(i) == cursor' = i /\ UNCHANGED <<doing, line, argv, exitCode>>
UsageError == /\ doing' = "refused" /\ exitCode' = 2
              /\ UNCHANGED <<line, argv, cursor, flags, positionals>>
Set(n, v) == flags' = [flags EXCEPT ![n] = v] /\ UNCHANGED positionals

EndOfFlags ==
    /\ Parsing("end")
    /\ positionals' = positionals \o SubSeq(argv, cursor + 1, Len(argv)) /\ UNCHANGED flags
    /\ Goto(Len(argv) + 1)

Positional ==
    /\ Parsing("word")
    /\ positionals' = Append(positionals, Token) /\ UNCHANGED flags
    /\ Goto(cursor + 1)

(* A fault: a long flag does not step over the token it takes.              *)
TakeNextTwice(n) ==
    IF cursor = Len(argv) THEN UsageError ELSE Set(n, argv[cursor + 1]) /\ Goto(cursor + 1)

(* A fault: a flag that takes a token does not go on.                       *)
TakeNextStuck(n) ==
    IF cursor = Len(argv) THEN UsageError ELSE Set(n, argv[cursor + 1]) /\ Goto(cursor)

(* A flag that has a type and no value of its own takes the next token.     *)
TakeNext(n) ==
    IF cursor = Len(argv) THEN UsageError ELSE Set(n, argv[cursor + 1]) /\ Goto(cursor + 2)

LongFlag ==
    /\ Parsing("long")
    /\ LET n == Token.name IN
         IF n \notin DOMAIN Def.flags THEN UsageError
         ELSE IF Def.flags[n].type = "boolean"
         THEN Set(n, [on |-> Token.value # "false"]) /\ Goto(cursor + 1)
         ELSE IF Token.value = Unset THEN TakeNext(n)
         ELSE Set(n, [kind |-> "word", text |-> Token.value]) /\ Goto(cursor + 1)

Abbreviated(s) == {n \in DOMAIN Def.flags : Def.flags[n].short = s}

ShortFlag ==
    /\ Parsing("short")
    /\ LET ns == Abbreviated(Token.name) IN
         IF ns = {} THEN UsageError
         ELSE \E n \in ns :
                IF Def.flags[n].type = "boolean" THEN Set(n, [on |-> TRUE]) /\ Goto(cursor + 1)
                ELSE TakeNext(n)

Parsed ==
    /\ doing = "parsing" /\ cursor > Len(argv) /\ doing' = "checking"
    /\ UNCHANGED <<line, argv, cursor, flags, positionals, exitCode>>

(* A number flag has what Number makes of its token, which may look like a  *)
(* short flag: -5.                                                          *)
IsNumber(v) ==
    /\ "kind" \in DOMAIN v
    /\ \/ v.kind = "word" /\ v.text \in Numeric
       \/ v.kind = "short" /\ v.name \in Negative

(* The rest of execute: of the required arguments, that there is one, and   *)
(* that a number is one.                                                    *)
Complete ==
    /\ Def.required => positionals # <<>>
    /\ \A n \in DOMAIN flags :
         (Def.flags[n].type = "number" /\ flags[n] # Unset) => IsNumber(flags[n])

CheckArguments ==
    /\ doing = "checking"
    /\ IF Complete THEN doing' = "handled" /\ UNCHANGED <<line, argv, cursor, flags, positionals, exitCode>>
       ELSE UsageError

(* The handler returns a number or nothing, or throws.                      *)
Handle ==
    /\ doing = "handled"
    /\ \E code \in 0 .. 2 : End(code)
    /\ UNCHANGED <<line, argv, cursor, flags, positionals>>

ParseStep == EndOfFlags \/ Positional \/ LongFlag \/ ShortFlag \/ Parsed \/ CheckArguments \/ Handle
CommandNext == Execute \/ ParseStep

CommandSpec == CommandInit /\ [][CommandNext]_commandVars

-----------------------------------------------------------------------------
(* What a token is if no flag before it takes it: a flag asks if it takes   *)
(* the next.                                                                *)
FlagOf(defs, t) ==
    IF t.kind = "long" THEN {t.name} \cap DOMAIN defs
    ELSE {n \in DOMAIN defs : defs[n].short = t.name}

Alone(defs, t) ==
    IF t.kind = "word" THEN "word" ELSE IF t.kind = "end" THEN "end"
    ELSE IF FlagOf(defs, t) = {} THEN "unknown"
    ELSE IF /\ \E n \in FlagOf(defs, t) : defs[n].type # "boolean"
            /\ t.kind = "long" => t.value = Unset
    THEN "asks" ELSE "flag"

(* What each token is, from left to right.                                  *)
RolesOf(defs, args) ==
    LET role[i \in 0 .. Len(args)] ==
          IF i = 0 THEN "flag"
          ELSE IF role[i - 1] \in {"end", "rest"} THEN "rest"
          ELSE IF role[i - 1] = "asks" THEN "value" ELSE Alone(defs, args[i])
    IN  [i \in DOMAIN args |-> role[i]]

WordsAt(defs, args) ==
    LET roles == RolesOf(defs, args) IN {i \in DOMAIN args : roles[i] \in {"word", "rest"}}

Given(defs, args) == Picked(args, WordsAt(defs, args), Len(args))

(* Where a flag is mentioned, and what that gives it.                       *)
SetsOf(defs, args, n) ==
    LET roles == RolesOf(defs, args) IN
    {i \in DOMAIN args : roles[i] \in {"flag", "asks"} /\ n \in FlagOf(defs, args[i])}
LastOf(S) == CHOOSE i \in S : \A j \in S : j <= i

ValueAt(defs, args, i, type) ==
    IF RolesOf(defs, args)[i] = "asks" THEN args[i + 1]
    ELSE IF type = "boolean"
    THEN [on |-> args[i].kind = "short" \/ args[i].value # "false"]
    ELSE [kind |-> "word", text |-> args[i].value]

(* Once --json is out, the tokens of a line are used once each and none is  *)
(* lost: a handler is called with the words that no flag took, in their     *)
(* order and followed by all that stands after --, whatever it looks like;  *)
(* a flag has what its last mention gives it, a number flag a number, be it *)
(* a token with a dash in front; and a line is refused for an unknown flag, *)
(* a flag at the end that has no value, no argument where one is required,  *)
(* or a value that is no number where one is, and for nothing else          *)
(* (cli/framework.ts:68-118, 138-164).                                      *)
HandlersGetTheLine ==
    LET defs == Def.flags
        args == WithoutJson(Tail(line))
        Sets(n) == SetsOf(defs, args, n)
        Last(n, type) == ValueAt(defs, args, LastOf(Sets(n)), type)
    IN
    /\ doing = "handled" =>
         /\ positionals = Given(defs, args)
         /\ \A n \in DOMAIN flags :
              IF Sets(n) = {} THEN flags[n] = Unset
              ELSE /\ flags[n] = Last(n, defs[n].type)
                   /\ defs[n].type = "number" => IsNumber(flags[n])
         /\ Def.required => positionals # <<>>
    /\ doing = "refused" =>
         \/ cursor <= Len(args) /\ RolesOf(defs, args)[cursor] = "unknown"
         \/ cursor = Len(args) /\ RolesOf(defs, args)[cursor] = "asks"
         \/ Def.required /\ Given(defs, args) = <<>>
         \/ \E n \in DOMAIN flags :
              /\ defs[n].type = "number" /\ Sets(n) # {}
              /\ ~IsNumber(Last(n, "number"))
=============================================================================
