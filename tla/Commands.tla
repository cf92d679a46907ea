------------------------------ MODULE Commands ------------------------------
(***************************************************************************)
(* The line of a command and its arguments: lib/cmd.c.  A line is a        *)
(* sequence of characters, or of words whose letters nothing looks at.     *)
(***************************************************************************)
EXTENDS Integers, SequencesExt

CONSTANTS
  CMD_MAX_ARGS,
  Strtoll         \* the words that strtoll reads whole, in base 0, with their values

ASSUME CommandsAssumption == CMD_MAX_ARGS \in Nat

is_delimiter == {" ", "\t", "\n", "\r", "\\0"}

(* The first character of each token that a delimiter follows, in order.   *)
Tokens(buf) ==
  SelectSeq([i \in DOMAIN buf |-> i],
            LAMBDA i : /\ buf[i] \notin is_delimiter
                       /\ i = 1 \/ buf[i - 1] \in is_delimiter
                       /\ \E j \in i .. Len(buf) : buf[j] \in is_delimiter)

EndOf(buf, i) == Min({j \in i .. Len(buf) : buf[j] \in is_delimiter})

(* A nul byte replaces the delimiter behind each token.  With as many      *)
(* tokens as CMD_MAX_ARGS it returns -E2BIG, which is no error to a caller.*)
tokenize(buf) ==
  LET tokens == Tokens(buf)
      ends   == {EndOf(buf, tokens[k]) : k \in DOMAIN tokens}
  IN  [fit    |-> Len(tokens) < CMD_MAX_ARGS,
       tokens |-> tokens,
       buf    |-> [i \in DOMAIN buf |-> IF i \in ends THEN "\\0" ELSE buf[i]]]

(* The string that starts there, up to the next nul byte.                  *)
StringAt(buf, i) == SubSeq(buf, i, Min({j \in i .. Len(buf) : buf[j] = "\\0"}) - 1)

IsInteger(str) == Len(str) = 1 /\ str[1] \in DOMAIN Strtoll

is_seq(str) == str[1] \in DOMAIN Strtoll

(* def is [min, max, types, negseq].                                       *)
Integer(def, k) == k \in DOMAIN def.types /\ def.types[k] = "integer"

Swallows(def, args) == Len(args) > def.max /\ ~ Integer(def, def.max)

(* Arguments that must be integers become them.                            *)
Transcoded(def, args) ==
  [ok   |-> Len(args) >= def.min /\ \A k \in DOMAIN args : Integer(def, k) => IsInteger(args[k]),
   args |-> [k \in DOMAIN args |-> IF Integer(def, k) /\ IsInteger(args[k]) THEN Strtoll[args[k][1]] ELSE args[k]]]

(* Mutant: the tokens too many are dropped.                                *)
build_cmd_Drops(buf, args, def) ==
  Transcoded(def, [k \in 1 .. (IF Swallows(def, args) THEN def.max ELSE Len(args)) |-> StringAt(buf, args[k])])

(* A last argument that is a string swallows the tokens too many: the byte *)
(* in front of each becomes a space.  Otherwise they are kept.             *)
build_cmd(buf, args, def) ==
  LET joined == {args[k] - 1 : k \in def.max + 1 .. Len(args)}
      buf1   == [i \in DOMAIN buf |-> IF i \in joined /\ Swallows(def, args) THEN " " ELSE buf[i]]
  IN  Transcoded(def, [k \in 1 .. (IF Swallows(def, args) THEN def.max ELSE Len(args)) |-> StringAt(buf1, args[k])])

NoCommand == [is |-> "error"]

(* parse_line for one definition, that of keyword (whose case is not       *)
(* modelled).  Without a number the -E2BIG of tokenize is taken for a      *)
(* number of arguments, and build_cmd writes and reads out of bounds.      *)
parse_cmd(line, keyword, def) ==
  LET t      == tokenize(line)
      str(k) == StringAt(t.buf, t.tokens[k])
      with   == is_seq(str(1))
      key    == IF with THEN 2 ELSE 1
      seq    == IF with THEN Strtoll[str(1)[1]] ELSE 0
      cmd    == build_cmd(t.buf, SubSeq(t.tokens, key + 1, Len(t.tokens)), def)
  IN  IF t.tokens = <<>> THEN NoCommand
      ELSE IF with /\ (~ t.fit \/ Len(t.tokens) < 2 \/ ~ IsInteger(str(1))) THEN NoCommand
      ELSE IF (seq < 0 /\ ~ def.negseq) \/ (seq > 0 /\ def.negseq) \/ str(key) # keyword THEN NoCommand
      ELSE IF ~ t.fit THEN [is |-> "undefined"]
      ELSE IF ~ cmd.ok THEN NoCommand
      ELSE [is |-> "command", seq |-> IF seq < 0 THEN - seq ELSE seq, args |-> cmd.args]
=============================================================================
