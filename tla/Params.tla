------------------------------- MODULE Params -------------------------------
(***************************************************************************)
(* The parameters of the methods, internal/params/params.go: every one is  *)
(* a text, and a list of numbers is a text with commas, which the script   *)
(* of an execute writes (Stringify, internal/vkscript/script.go) and the   *)
(* method takes apart again.                                               *)
(*                                                                         *)
(* Texts are sequences of characters: the ten digits, and one letter for   *)
(* all the others.                                                         *)
(***************************************************************************)
EXTENDS Integers, Sequences

CONSTANT MaxInt     \* the largest number of the type int

ASSUME MaxIntAssumption == MaxInt \in Nat

GoInt == -MaxInt - 1 .. MaxInt

-----------------------------------------------------------------------------
Digit == 0 .. 9
Minus == 10
Comma == 11
Letter == 12
Json == 13

Char == Digit \cup {Minus, Comma, Letter, Json}

(* What step makes of start and the items, one after the other.            *)
Loop(step, start, items) ==
    LET at[i \in 0 .. Len(items)] == IF i = 0 THEN start ELSE step[<<at[i - 1], items[i]>>]
    IN  at[Len(items)]

-----------------------------------------------------------------------------
(* Writing.                                                                *)

Digits[n \in Nat] == IF n < 10 THEN <<n>> ELSE Append(Digits[n \div 10], n % 10)

formatNumber(n) == IF n < 0 THEN <<Minus>> \o Digits[-n] ELSE Digits[n]

(* strings.Join(parts, ",").                                               *)
JoinTwo == [x \in Seq(Char) \X Seq(Char) |-> x[1] \o <<Comma>> \o x[2]]

Join(parts) == IF parts = <<>> THEN <<>> ELSE Loop(JoinTwo, Head(parts), Tail(parts))

-----------------------------------------------------------------------------
(* Reading.                                                                *)

(* strconv.Atoi and ParseFloat, of the texts there are here.               *)
Unsigned(s) == IF s # <<>> /\ s[1] = Minus THEN Tail(s) ELSE s

IsNumber(s) == Unsigned(s) # <<>> /\ \A i \in DOMAIN Unsigned(s) : Unsigned(s)[i] \in Digit

NextDigit == [x \in Nat \X Digit |-> 10 * x[1] + x[2]]

NumberOf(s) ==
    LET n == Loop(NextDigit, 0, Unsigned(s))
    IN  IF s[1] = Minus THEN -n ELSE n

(* strings.Split(s, ","): a comma begins a part, and what is no comma ends *)
(* the last one.                                                           *)
Extended(parts, c) == [parts EXCEPT ![Len(parts)] = Append(@, c)]

NextChar == [x \in Seq(Seq(Char)) \X Char |-> IF x[2] = Comma THEN Append(x[1], <<>>) ELSE Extended(x[1], x[2])]

Split(s) == Loop(NextChar, << <<>> >>, s)

(* What is no number of the type is left out.                              *)
IsInt(part) == IsNumber(part) /\ NumberOf(part) \in GoInt

NextPart == [x \in Seq(GoInt) \X Seq(Char) |->
                IF IsInt(x[2]) THEN Append(x[1], NumberOf(x[2])) ELSE x[1]]

(* Mutant: the first item is lost. *)
IntListTail(s) == Loop(NextPart, <<>>, Tail(Split(s)))

IntList(s) == Loop(NextPart, <<>>, Split(s))
=============================================================================
