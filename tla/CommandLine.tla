----------------------------- MODULE CommandLine -----------------------------
(***************************************************************************)
(* From argv to the options of an endpoint (cli.cpp): the minimist rules   *)
(* of parse_argv, validate, and the dispatch of run.                       *)
(*                                                                         *)
(* A token is an option, with one dash or two and perhaps "=value", or a   *)
(* word.  A value is a record with one field, which says what its text is: *)
(* num, a whole number; text, a connection string; host; empty; or dash,   *)
(* an option that was taken for a value.  Messages and the log level are   *)
(* left out, and an optional value is a set of at most one value.          *)
(***************************************************************************)
EXTENDS Keys

CONSTANTS
    Short,          \* chosen keys of fewer than 32 characters
    DefaultHost     \* 127.0.0.1

ASSUME ShortAssumption == Short \subseteq Chosen

Option(name)         == [dashes |-> 2, name |-> name, eq |-> {}]
OptionIs(name, v)    == [dashes |-> 2, name |-> name, eq |-> {v}]
ShortOption(name)    == [dashes |-> 1, name |-> name, eq |-> {}]
Word(v)              == [dashes |-> 0, value |-> v]

Empty    == [empty |-> TRUE]
Num(n)   == [num |-> n]
Text(t)  == [text |-> t]
Host(h)  == [host |-> h]

\* The values that stand on a command line.
Values(argv) ==
    UNION {IF argv[k].dashes = 0 THEN {argv[k].value} ELSE argv[k].eq : k \in 1..Len(argv)}

ValueOr(opt, default) == IF opt = {} THEN default ELSE CHOOSE v \in opt : TRUE

-----------------------------------------------------------------------------
(* minimist                                                                *)

\* The value a token is when it is swallowed by the option before it.
AsValue(token) ==
    IF token.dashes = 0 THEN token.value ELSE [dash |-> token.name]

\* A later mention of a name replaces an earlier one, whatever its form.
SetValue(args, name, v) ==
    [args EXCEPT
        !.values = [n \in DOMAIN @ \cup {name} |-> IF n = name THEN v ELSE @[n]],
        !.flags  = @ \ {name}]
SetFlag(args, name) ==
    [args EXCEPT !.values = [n \in DOMAIN @ \ {name} |-> @[n]],
                 !.flags  = @ \cup {name}]

\* An option without a value waits (in `open`) for the next token, and takes
\* it unless that begins with two dashes.
ParseToken(args, token) ==
    LET name  == ValueOr(args.open, "")
        ended == [(IF args.open = {} THEN args ELSE SetFlag(args, name))
                    EXCEPT !.open = {}]
    IN  IF args.open # {} /\ token.dashes # 2
        THEN [SetValue(args, name, AsValue(token)) EXCEPT !.open = {}]
        ELSE IF token.dashes = 0
        THEN [ended EXCEPT !.rest = Append(@, token.value)]
        ELSE IF token.eq # {}
        THEN SetValue(ended, token.name, ValueOr(token.eq, Empty))
        ELSE [ended EXCEPT !.open = {token.name}]

ParseArgv(argv) ==
    LET none == [values |-> [n \in {} |-> Empty], flags |-> {}, rest |-> <<>>,
                 open |-> {}]
        after[k \in 0..Len(argv)] ==
          IF k = 0 THEN none ELSE ParseToken(after[k - 1], argv[k])
        args == after[Len(argv)]
    IN  IF args.open = {} THEN args ELSE SetFlag(args, ValueOr(args.open, ""))

Has(args, name)     == name \in args.flags \cup DOMAIN args.values
Boolean(args, name) == name \in args.flags
Str(args, name) ==
    IF name \in DOMAIN args.values THEN {args.values[name]} ELSE {}
Number(args, name) ==
    {v.num : v \in {w \in Str(args, name) : "num" \in DOMAIN w}}

Truthy(args, name) ==
    \/ Boolean(args, name)
    \/ \E v \in Str(args, name) :
          IF "num" \in DOMAIN v THEN v.num # 0 ELSE v # Empty

\* The numbers valid_port accepts.
PortNumbers == 0..65535
ValidPort(args, name) == \E n \in Number(args, name) : n \in PortNumbers

-----------------------------------------------------------------------------
(* validate and run                                                        *)

\* The exit code of a refused command line, in a set that is empty when it is
\* accepted.
Validate(args) ==
    LET tooShort ==
          \E v \in Str(args, "key") :
             "text" \in DOMAIN v /\ ~v.text.scheme /\ v.text.key \in Short
    IN  IF Boolean(args, "key") THEN {0}
        ELSE IF \/ tooShort /\ ~Truthy(args, "force")
                \/ Truthy(args, "connect") /\ args.rest # <<>>
                \/ Truthy(args, "live") /\ ~ValidPort(args, "live")
                \/ Truthy(args, "port") /\ ~ValidPort(args, "port")
                \/ ~Truthy(args, "port") /\ Empty \in Str(args, "port")
        THEN {2}
        ELSE {}

\* What run() does with an accepted command line.
Dispatch(args) ==
    IF Truthy(args, "help") \/ Truthy(args, "h") THEN "help"
    ELSE IF Truthy(args, "version") THEN "version"
    ELSE IF Truthy(args, "live") THEN "server"
    ELSE IF Truthy(args, "connect") \/ args.rest # <<>> THEN "client"
    ELSE IF Truthy(args, "filemanager") THEN "filemanager"
    ELSE IF Truthy(args, "lookup") THEN "lookup"
    ELSE "help"

-----------------------------------------------------------------------------
(* The options of an endpoint                                              *)

\* A host option is only ever given a host.
HostOf(args) == {v.host : v \in {w \in Str(args, "host") : "host" \in DOMAIN w}}
UdpOf(args)  == IF Has(args, "udp") THEN {Truthy(args, "udp")} ELSE {}

\* `!argv.public`: a value given to --public, even 1, reads as not public.
SecureOf(args) == IF Has(args, "public") THEN {~Boolean(args, "public")} ELSE {}

\* The text of a key option: an empty value is an empty key.
TextOf(v) == IF "text" \in DOMAIN v THEN v.text ELSE Bare(<<>>)

ServerOptions(args) ==
    [server |-> TRUE,
     port   |-> Number(args, "live"),
     host   |-> {ValueOr(HostOf(args), DefaultHost)},
     udp    |-> UdpOf(args),
     secure |-> {ValueOr(SecureOf(args), TRUE)},
     key    |-> {TextOf(v) : v \in Str(args, "key")}]

ClientOptions(args) ==
    [server |-> FALSE,
     port   |-> IF ValidPort(args, "port") THEN Number(args, "port") ELSE {},
     host   |-> HostOf(args),
     udp    |-> UdpOf(args),
     secure |-> SecureOf(args),
     key    |-> {TextOf(ValueOr(Str(args, "connect"),
                    IF args.rest = <<>> THEN Empty ELSE args.rest[1]))}]
=============================================================================
