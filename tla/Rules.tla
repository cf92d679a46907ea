-------------------------------- MODULE Rules -------------------------------
(***************************************************************************)
(* The conditions of stribution's rules: stribution.c and the operators of *)
(* strib_parser.y.                                                         *)
(*                                                                         *)
(* A message maps the names of its fields to values, which are strings of  *)
(* a small ordered set.  Regular expressions are those of the C library.   *)
(***************************************************************************)
EXTENDS Integers, SequencesExt

CONSTANTS
  Strings,   \* the strings, in the order of strcmp
  Number,    \* strtoll of those that are a number as a whole
  Matches    \* regexec: the strings each regular expression matches

ASSUME RulesAssumption == DOMAIN Number \subseteq Range(Strings)

Op(text, op) == [text |-> text, op |-> op]

(* Mutant: the shortest first.                                             *)
str2binaryop_Short(str) ==
  LET ops == << Op(<<"=">>, "EQ"), Op(<<">">>, "GT"), Op(<<"<">>, "LT"),
                Op(<<">", "=">>, "GE"), Op(<<"<", "=">>, "LE"), Op(<<"=", "~">>, "RE") >>
  IN  ops[SelectInSeq(ops, LAMBDA o : IsPrefix(o.text, str))].op

(* The first operator that str starts with; the lexer hands the rest of    *)
(* the line along.                                                         *)
str2binaryop(str) ==
  LET ops == << Op(<<">", "=">>, "GE"), Op(<<"<", "=">>, "LE"), Op(<<"=", "~">>, "RE"),
                Op(<<"=">>, "EQ"), Op(<<">">>, "GT"), Op(<<"<">>, "LT") >>
  IN  ops[SelectInSeq(ops, LAMBDA o : IsPrefix(o.text, str))].op

Compare(op, a, b) ==
  CASE op = "GT" -> a > b
    [] op = "GE" -> a >= b
    [] op = "LT" -> a < b
    [] op = "LE" -> a <= b
    [] op = "EQ" -> a = b
    [] op = "RE" -> FALSE    \* on integers: a warning

Rank(str) == CHOOSE i \in DOMAIN Strings : Strings[i] = str

(* binary_op_str: strcmp does not survive the NULL of an unset reference.  *)
binary_op_str(op, a, b) == IF b = "unset" THEN "crash" ELSE Compare(op, Rank(a), Rank(b))

(* cond is [op, field, type, value]: a string, a number or the name of the *)
(* field that is referred to.                                              *)
condition_eval(cond, msg) ==
  LET set   == cond.field \in DOMAIN msg
      value == msg[cond.field]
      other == IF cond.type = "string" THEN cond.value
               ELSE IF cond.value \in DOMAIN msg THEN msg[cond.value] ELSE "unset"
  IN  IF cond.op = "ALWAYS" THEN TRUE
      ELSE IF cond.op = "SET" THEN set
      ELSE IF cond.op = "UNSET" THEN ~ set
      ELSE IF ~ set THEN FALSE
      ELSE IF cond.type = "number" THEN value \in DOMAIN Number /\ Compare(cond.op, Number[value], cond.value)
      ELSE IF cond.op = "RE" THEN value \in Matches[cond.value]
      ELSE binary_op_str(cond.op, value, other)
=============================================================================
