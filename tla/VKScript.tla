------------------------------ MODULE VKScript ------------------------------
(***************************************************************************)
(* The interpreter behind the method execute: internal/vkscript/script.go, *)
(* internal/api/execute.go, with the parameters it hands to the methods it *)
(* calls (Params).                                                         *)
(*                                                                         *)
(* The interpreter has no syntax tree: it evaluates while it parses, token *)
(* by token from left to right, and calls methods of the API on its way.   *)
(* An error, of the script or of a method, ends it with no value; what it  *)
(* called before is done.  Tokens are given (the lexer is not modelled),   *)
(* numbers are integers, and the text of an object is one character.       *)
(***************************************************************************)
EXTENDS Params, FiniteSetsExt, SequencesExt

CONSTANTS
    Api(_, _),  \* Api(path, params): what a method answers, as JSON; NoMethod: an error
    Paths,      \* the methods that scripts call, as sequences of names
    Names,      \* the names in scripts: of variables, of members, of arguments
    Seeds,      \* the expressions that scripts grow from
    Operands,   \* the expressions that stand beside the growing one
    MaxSize     \* bound: the steps in which a script is written

VARIABLES
    script,     \* the finished statements
    expr,       \* the expression being written, or NoExpr
    size        \* the steps so far

vars == <<script, expr, size>>

NoMethod == [error |-> TRUE]

-----------------------------------------------------------------------------
(* Values.                                                                 *)

Null == [null |-> TRUE]
Bool(b) == [bool |-> b]
Num(n) == [num |-> n]
Text(s) == [text |-> s]
List(items) == [list |-> items]
Object(fields) == [object |-> fields]

Is(v, kind) == DOMAIN v = {kind}

RECURSIVE Stringify(_)
Stringify(v) ==
    CASE Is(v, "null") -> <<>>
      [] Is(v, "bool") -> IF v.bool THEN <<1>> ELSE <<0>>
      [] Is(v, "num") -> formatNumber(v.num)
      [] Is(v, "text") -> v.text
      [] Is(v, "list") -> Join([i \in DOMAIN v.list |-> Stringify(v.list[i])])
      [] OTHER -> <<Json>>

(* Which values asFloat takes for numbers, and the number.                 *)
IsFloat(v) == Is(v, "num") \/ (Is(v, "text") /\ IsNumber(v.text))

asFloat(v) == IF Is(v, "num") THEN v.num ELSE NumberOf(v.text)

add(a, b) ==
    IF IsFloat(a) /\ IsFloat(b) THEN Num(asFloat(a) + asFloat(b)) ELSE Text(Stringify(a) \o Stringify(b))

member(v, name) == IF Is(v, "object") /\ name \in DOMAIN v.object THEN v.object[name] ELSE Null

indexOf(v, index) ==
    IF Is(v, "list") /\ IsFloat(index) /\ asFloat(index) + 1 \in DOMAIN v.list
    THEN v.list[asFloat(index) + 1] ELSE Null

(* Items without the member are left out.                                  *)
project(v, name) ==
    IF Is(v, "list")
    THEN List(SelectSeq([i \in DOMAIN v.list |-> member(v.list[i], name)], LAMBDA m : m # Null))
    ELSE Null

-----------------------------------------------------------------------------
(* Parameters.  A method reads its arguments as texts.                     *)

(* scalar is Stringify once more.                                          *)
FromAny(args) == [name \in DOMAIN args |-> Stringify(args[name])]

-----------------------------------------------------------------------------
(* The parser.  Every function takes the tokens and a state s, and returns *)
(* the state after what it parsed: the position, the variables, the calls  *)
(* so far, the value, and whether all went well.                           *)

Ident(name) == [ident |-> name]
Number(n) == [number |-> n]
String(s) == [string |-> s]
Punct(c) == [punct |-> c]
EOF == [eof |-> TRUE]

peek(ts, s) == IF s.pos <= Len(ts) THEN ts[s.pos] ELSE EOF
next(s) == [s EXCEPT !.pos = @ + 1]
fail(s) == [s EXCEPT !.ok = FALSE, !.val = Null]
give(s, v) == [s EXCEPT !.val = v]
isPunct(ts, s, c) == s.ok /\ peek(ts, s) = Punct(c)
isIdent(ts, s) == Is(peek(ts, s), "ident")
expectPunct(ts, s, c) == IF isPunct(ts, s, c) THEN next(s) ELSE fail(s)

(* Fields of objects, and arguments; a later one replaces an earlier one.  *)
Put(fields, name, v) == [n \in DOMAIN fields \cup {name} |-> IF n = name THEN v ELSE fields[n]]
Merge(f, g) == [n \in DOMAIN f \cup DOMAIN g |-> IF n \in DOMAIN g THEN g[n] ELSE f[n]]
NoFields == [n \in {} |-> Null]

Start == [pos |-> 1, vars |-> NoFields, calls |-> <<>>, val |-> Null, ok |-> TRUE]

(* The result of op on the value of s, if all went well.                   *)
Of(s, op(_)) == IF s.ok THEN give(s, op(s.val)) ELSE s

Negated(s) == IF s.ok /\ IsFloat(s.val) THEN give(s, Num(-asFloat(s.val))) ELSE fail(s)

RECURSIVE parseUnary(_, _), Postfixes(_, _), parseAtom(_, _), Terms(_, _), Path(_, _, _),
          Args(_, _, _), Fields(_, _, _, _), Items(_, _, _)

parseExpr(ts, s) == Terms(ts, parseUnary(ts, s))

(* Mutant: + groups to the right. *)
TermsRight(ts, s) ==
    IF isPunct(ts, s, "+")
    THEN Of(Terms(ts, parseUnary(ts, next(s))), LAMBDA v : add(s.val, v))
    ELSE s

Terms(ts, s) ==
    IF isPunct(ts, s, "+")
    THEN Terms(ts, Of(parseUnary(ts, next(s)), LAMBDA v : add(s.val, v)))
    ELSE s

parseUnary(ts, s) ==
    IF isPunct(ts, s, "-") THEN Negated(parseUnary(ts, next(s))) ELSE Postfixes(ts, parseAtom(ts, s))

(* A name must be next; v is the value then.                               *)
Named(ts, s, v) == IF s.ok /\ isIdent(ts, s) THEN give(next(s), v) ELSE fail(s)

(* What follows the value of s: [index], .name, @.name.                    *)
Postfixes(ts, s) ==
    IF isPunct(ts, s, "[")
    THEN Postfixes(ts, Of(expectPunct(ts, parseExpr(ts, next(s)), "]"), LAMBDA i : indexOf(s.val, i)))
    ELSE IF isPunct(ts, s, ".")
    THEN Postfixes(ts, Named(ts, next(s), member(s.val, peek(ts, next(s)).ident)))
    ELSE IF isPunct(ts, s, "@")
    THEN Postfixes(ts, Named(ts, expectPunct(ts, next(s), "."), project(s.val, peek(ts, next(next(s))).ident)))
    ELSE s

parseArray(ts, s) ==
    IF isPunct(ts, next(s), "]") THEN give(next(next(s)), List(<<>>)) ELSE Items(ts, parseExpr(ts, next(s)), <<>>)

(* Here and below, s is the state after an item, a field, an argument.     *)
Items(ts, s, items) ==
    IF isPunct(ts, s, ",")
    THEN Items(ts, parseExpr(ts, next(s)), Append(items, s.val))
    ELSE Of(expectPunct(ts, s, "]"), LAMBDA v : List(Append(items, v)))

(* A key may be a string or a number as well; here it is a name.           *)
Value(ts, s) == IF isIdent(ts, s) THEN parseExpr(ts, expectPunct(ts, next(s), ":")) ELSE fail(s)

parseObject(ts, s) ==
    IF isPunct(ts, next(s), "}") THEN give(next(next(s)), Object(NoFields))
    ELSE Fields(ts, Value(ts, next(s)), peek(ts, next(s)), NoFields)

Fields(ts, s, key, fields) ==
    IF isPunct(ts, s, ",")
    THEN Fields(ts, Value(ts, next(s)), peek(ts, next(s)), Put(fields, key.ident, s.val))
    ELSE Of(expectPunct(ts, s, "}"), LAMBDA v : Object(Put(fields, key.ident, v)))

acceptPunct(ts, s, c) == IF isPunct(ts, s, c) THEN next(s) ELSE s

(* The arguments of a call: the fields of all objects among them.  Other   *)
(* arguments are evaluated and dropped.                                    *)
Argument(ts, s) ==
    IF isPunct(ts, s, "{") THEN parseObject(ts, s) ELSE give(parseExpr(ts, s), Object(NoFields))

Args(ts, s, args) ==
    IF isPunct(ts, s, ",")
    THEN Args(ts, Argument(ts, next(s)), Merge(args, s.val.object))
    ELSE Of(expectPunct(ts, s, ")"), LAMBDA v : Object(Merge(args, v.object)))

(* After an opening bracket.                                               *)
parseArgs(ts, s) ==
    IF isPunct(ts, s, ")") THEN give(next(s), Object(NoFields)) ELSE Args(ts, Argument(ts, s), NoFields)

(* The call itself, by Server.invoke.                                      *)
Answered(s, value) == IF value = NoMethod THEN fail(s) ELSE give(s, value)

invoke(s, path, args) ==
    Answered([s EXCEPT !.calls = Append(@, [path |-> path, args |-> FromAny(args)])], Api(path, FromAny(args)))

(* Mutant: calls although the arguments are in error. *)
CalledAnyway(s, path) == invoke(s, path, IF s.ok THEN s.val.object ELSE NoFields)

PathEager(ts, s, path) ==
    IF isPunct(ts, s, ".")
    THEN IF isIdent(ts, next(s)) THEN Path(ts, next(next(s)), Append(path, peek(ts, next(s)).ident)) ELSE fail(s)
    ELSE IF path = <<>> THEN fail(s)
    ELSE CalledAnyway(parseArgs(ts, expectPunct(ts, s, "(")), path)

Called(s, path) == IF s.ok THEN invoke(s, path, s.val.object) ELSE s

(* API.name.name(arguments), after API.                                    *)
Path(ts, s, path) ==
    IF isPunct(ts, s, ".")
    THEN IF isIdent(ts, next(s)) THEN Path(ts, next(next(s)), Append(path, peek(ts, next(s)).ident)) ELSE fail(s)
    ELSE IF path = <<>> THEN fail(s)
    ELSE Called(parseArgs(ts, expectPunct(ts, s, "(")), path)

(* A name without a value is null.                                         *)
ValueOf(s, name) ==
    CASE name = "true" -> Bool(TRUE)
      [] name = "false" -> Bool(FALSE)
      [] name = "null" -> Null
      [] OTHER -> IF name \in DOMAIN s.vars THEN s.vars[name] ELSE Null

Atom(ts, s, t) ==
    CASE ~s.ok -> s
      [] Is(t, "number") -> give(next(s), Num(t.number))
      [] Is(t, "string") -> give(next(s), Text(t.string))
      [] t = Punct("{") -> parseObject(ts, s)
      [] t = Punct("[") -> parseArray(ts, s)
      [] Is(t, "ident") -> IF t.ident = "API" THEN Path(ts, next(s), <<>>) ELSE give(next(s), ValueOf(s, t.ident))
      [] OTHER -> fail(s)

parseAtom(ts, s) == Atom(ts, s, peek(ts, s))

(* Statements.  The "=" and the ";" may be missing.                        *)
RECURSIVE run(_, _)

RunOn(ts, s) == IF s.ok THEN run(ts, acceptPunct(ts, s, ";")) ELSE s

Assigned(s, name) == [s EXCEPT !.vars = Put(@, name, s.val)]

run(ts, s) ==
    IF peek(ts, s) = EOF THEN give(s, Null)
    ELSE IF isPunct(ts, s, ";") THEN run(ts, next(s))
    ELSE IF peek(ts, s) = Ident("var")
    THEN IF isIdent(ts, next(s))
         THEN RunOn(ts, Assigned(parseExpr(ts, acceptPunct(ts, next(next(s)), "=")), peek(ts, next(s)).ident))
         ELSE fail(next(s))
    ELSE IF peek(ts, s) = Ident("return") THEN parseExpr(ts, next(s))
    ELSE RunOn(ts, parseExpr(ts, s))

(* What execute answers: the value, or error 12; and what it has called.   *)
Outcome(s) == [calls |-> s.calls, answer |-> IF s.ok THEN s.val ELSE [error |-> TRUE]]

Eval(ts) == Outcome(run(ts, Start))

-----------------------------------------------------------------------------
(* The reference: scripts as trees, what they mean, and how they are       *)
(* written.                                                                *)
Literal(v) == [literal |-> v]
Name(x) == [name |-> x]
Neg(e) == [neg |-> e]
Sum(l, r) == [sum |-> <<l, r>>]
Index(e, i) == [index |-> <<e, i>>]
Member(e, x) == [member |-> <<e, x>>]
Project(e, x) == [project |-> <<e, x>>]
Array(es) == [array |-> es]
Record(x, e) == [record |-> <<x, e>>]
Call(path, es) == [call |-> <<path, es>>]

Var(x, e) == [var |-> <<x, e>>]
Do(e) == [do |-> e]
Return(e) == [return |-> e]

Kind(e) == CHOOSE k \in DOMAIN e : TRUE

IsUnary(e) == Kind(e) # "sum"
IsPostfix(e) == Kind(e) \notin {"sum", "neg"}

Commas(parts) == IF parts = <<>> THEN <<>> ELSE Tail(FlattenSeq([i \in DOMAIN parts |-> <<Punct(",")>> \o parts[i]]))

Written(v) ==
    CASE Is(v, "num") -> Number(v.num)
      [] Is(v, "text") -> String(v.text)
      [] OTHER -> Ident("null")

RECURSIVE Tokens(_)
Tokens(e) ==
    CASE Is(e, "literal") -> <<Written(e.literal)>>
      [] Is(e, "name") -> <<Ident(e.name)>>
      [] Is(e, "neg") -> <<Punct("-")>> \o Tokens(e.neg)
      [] Is(e, "sum") -> Tokens(e.sum[1]) \o <<Punct("+")>> \o Tokens(e.sum[2])
      [] Is(e, "index") -> Tokens(e.index[1]) \o <<Punct("[")>> \o Tokens(e.index[2]) \o <<Punct("]")>>
      [] Is(e, "member") -> Tokens(e.member[1]) \o <<Punct("."), Ident(e.member[2])>>
      [] Is(e, "project") -> Tokens(e.project[1]) \o <<Punct("@"), Punct("."), Ident(e.project[2])>>
      [] Is(e, "array") -> <<Punct("[")>> \o Commas([i \in DOMAIN e.array |-> Tokens(e.array[i])]) \o <<Punct("]")>>
      [] Is(e, "record") -> <<Punct("{"), Ident(e.record[1]), Punct(":")>> \o Tokens(e.record[2]) \o <<Punct("}")>>
      [] Is(e, "call") ->
            <<Ident("API")>> \o FlattenSeq([i \in DOMAIN e.call[1] |-> <<Punct("."), Ident(e.call[1][i])>>])
              \o <<Punct("(")>> \o Commas([i \in DOMAIN e.call[2] |-> Tokens(e.call[2][i])]) \o <<Punct(")")>>
      [] Is(e, "var") -> <<Ident("var"), Ident(e.var[1]), Punct("=")>> \o Tokens(e.var[2]) \o <<Punct(";")>>
      [] Is(e, "do") -> Tokens(e.do) \o <<Punct(";")>>
      [] Is(e, "return") -> <<Ident("return")>> \o Tokens(e.return) \o <<Punct(";")>>

(* m: the variables, the calls so far, the value, and whether all is well. *)
RECURSIVE Meaning(_, _), MeaningAll(_, _)

(* The values of es, from left to right, as a list.                        *)
MeaningRest(es, m) == Of(MeaningAll(es, m), LAMBDA v : List(<<m.val>> \o v.list))

MeaningAll(es, m) ==
    IF es = <<>> THEN give(m, List(<<>>)) ELSE MeaningRest(Tail(es), Meaning(Head(es), m))

(* A method gets the fields of its arguments that are objects.             *)
MeaningOfCall(path, es, m) ==
    LET ofRecord(k) == IF Is(es[k], "record") THEN m.val.list[k].object ELSE NoFields
        args == FoldLeft(LAMBDA f, k : Merge(f, ofRecord(k)), NoFields, [k \in DOMAIN es |-> k])
    IN  IF m.ok THEN invoke(m, path, args) ELSE m

Meaning(e, m) ==
    CASE ~m.ok -> m
      [] Is(e, "literal") -> give(m, e.literal)
      [] Is(e, "name") -> give(m, IF e.name \in DOMAIN m.vars THEN m.vars[e.name] ELSE Null)
      [] Is(e, "neg") -> Negated(Meaning(e.neg, m))
      [] Is(e, "sum") -> Of(MeaningAll(e.sum, m), LAMBDA v : add(v.list[1], v.list[2]))
      [] Is(e, "index") -> Of(MeaningAll(e.index, m), LAMBDA v : indexOf(v.list[1], v.list[2]))
      [] Is(e, "member") -> Of(Meaning(e.member[1], m), LAMBDA v : member(v, e.member[2]))
      [] Is(e, "project") -> Of(Meaning(e.project[1], m), LAMBDA v : project(v, e.project[2]))
      [] Is(e, "array") -> MeaningAll(e.array, m)
      [] Is(e, "record") -> Of(Meaning(e.record[2], m), LAMBDA v : Object(e.record[1] :> v))
      [] Is(e, "call") -> MeaningOfCall(e.call[1], e.call[2], MeaningAll(e.call[2], m))

RECURSIVE MeaningOf(_, _)

MeaningAfter(e, rest, m) ==
    CASE ~m.ok \/ Is(e, "return") -> m
      [] Is(e, "var") -> MeaningOf(rest, Assigned(m, e.var[1]))
      [] Is(e, "do") -> MeaningOf(rest, m)

MeaningOf(statements, m) ==
    IF statements = <<>> THEN give(m, Null)
    ELSE LET e == Head(statements)
         IN  MeaningAfter(e, Tail(statements), Meaning(IF Is(e, "var") THEN e.var[2] ELSE e[Kind(e)], m))

-----------------------------------------------------------------------------
(* Writing a script: an expression grows around its seed, each form where  *)
(* the grammar has it, and ends as a statement.                            *)
NoExpr == [noExpr |-> TRUE]

Growths(e) ==
    {Array(<<e>>)} \cup {Array(<<a, e>>) : a \in Operands}
      \cup {Record(x, e) : x \in Names}
      \cup {Sum(e, a) : a \in Operands}
      \cup {Index(Name(x), e) : x \in Names}

UnaryGrowths(e) == {Neg(e)} \cup {Sum(a, e) : a \in Operands}

PostfixGrowths(e) ==
    {Member(e, x) : x \in Names} \cup {Project(e, x) : x \in Names} \cup {Index(e, a) : a \in Operands}

(* What begins with a brace is one object and nothing more, as an argument.*)
IsArgument(e) == Is(e, "record") \/ Head(Tokens(e)) # Punct("{")

CallGrowths(e) ==
    {Call(p, <<e>>) : p \in Paths} \cup {Call(p, <<Record(x, a), e>>) : p \in Paths, x \in Names, a \in Operands}

Init == script = <<>> /\ expr = NoExpr /\ size = 0

Step == size < MaxSize /\ size' = size + 1

Begin ==
    /\ Step
    /\ expr = NoExpr
    /\ expr' \in Seeds
    /\ UNCHANGED script

GrowExpr == expr # NoExpr /\ Step /\ expr' \in Growths(expr) /\ UNCHANGED script

GrowUnary == expr # NoExpr /\ IsUnary(expr) /\ Step /\ expr' \in UnaryGrowths(expr) /\ UNCHANGED script

GrowPostfix == expr # NoExpr /\ IsPostfix(expr) /\ Step /\ expr' \in PostfixGrowths(expr) /\ UNCHANGED script

GrowCall == expr # NoExpr /\ IsArgument(expr) /\ Step /\ expr' \in CallGrowths(expr) /\ UNCHANGED script

Statements(e) == {Do(e), Return(e)} \cup {Var(x, e) : x \in Names}

End ==
    /\ expr # NoExpr
    /\ \E statement \in Statements(expr) : script' = Append(script, statement)
    /\ expr' = NoExpr
    /\ UNCHANGED size

Next == Begin \/ GrowExpr \/ GrowUnary \/ GrowPostfix \/ GrowCall \/ End

Spec == Init /\ [][Next]_vars

Code == FlattenSeq([i \in DOMAIN script |-> Tokens(script[i])])

-----------------------------------------------------------------------------
(* Evaluating while parsing gives what the script means as a tree: the     *)
(* same value or error, and the same calls with the same arguments in the  *)
(* same order.                                                             *)
EvalIsMeaning == expr = NoExpr => Eval(Code) = Outcome(MeaningOf(script, Start))

(* A script is not checked before it runs: when it breaks off at any token *)
(* (an error there ends it), it has called a prefix of what the whole      *)
(* script calls, no more and in no other order, and that is done.          *)
CallsBeforeErrorStand ==
    expr = NoExpr =>
        LET code == Code
            calls == Eval(code).calls
        IN  \A k \in DOMAIN code : IsPrefix(Eval(SubSeq(code, 1, k)).calls, calls)

(* A list of ints that a script collects (by project, from what one        *)
(* method answered) and hands to the next method, which reads it from a    *)
(* text, arrives there whole and in order.                                 *)
ListsArriveWhole ==
    expr = NoExpr =>
        LET v == Eval(Code).answer
        IN  Is(v, "list") /\ (\A i \in DOMAIN v.list : Is(v.list[i], "num") /\ v.list[i].num \in GoInt)
              => IntList(Stringify(v)) = [i \in DOMAIN v.list |-> v.list[i].num]
=============================================================================
