------------------------------- MODULE Header -------------------------------
(***************************************************************************)
(* Message headers: lib/header.c, and of commons/varbuf.c and misc.c what  *)
(* reads them line by line.  A text is a sequence of characters, a string  *)
(* of length one or a whole word whose letters no property looks at.  A    *)
(* header is the sequence of its fields.                                   *)
(***************************************************************************)
EXTENDS Integers, SequencesExt

CONSTANTS
  Lower,             \* tolower: the lower-case form of the upper-case characters
  MAX_HEADER_LINES,
  MAX_HEADLINE_LENGTH

ASSUME HeaderAssumption == MAX_HEADER_LINES \in Nat /\ MAX_HEADLINE_LENGTH \in Nat \ {0}

isblank == {" ", "\t"}
iseol   == {"\n", "\r"}
isspace == isblank \cup iseol

(* What is behind the last character is the nul byte.                      *)
Nul == ""
At(str, i) == IF i \in DOMAIN str THEN str[i] ELSE Nul

FirstFrom(str, from, Test(_)) ==
  LET found == {i \in from .. Len(str) : Test(i)}
  IN  IF found = {} THEN Len(str) + 1 ELSE Min(found)

Skip(str, from, blanks) == FirstFrom(str, from, LAMBDA i : str[i] \notin blanks)

str_tolower(str) == [i \in DOMAIN str |-> IF str[i] \in DOMAIN Lower THEN Lower[str[i]] ELSE str[i]]

SameButCase(a, b) == str_tolower(a) = str_tolower(b)

-----------------------------------------------------------------------------
(* Fields.                                                                 *)

header_field_new(h, name, value) == Append(h, [name |-> str_tolower(name), value |-> value])

(* The index of the next field of that name after prev, 0 when none is.    *)
header_find(h, name, prev) ==
  LET found == {i \in prev + 1 .. Len(h) : SameButCase(h[i].name, name)}
  IN  IF found = {} THEN 0 ELSE Min(found)

-----------------------------------------------------------------------------
(* Parameters.                                                             *)

(* Mutant: quotes are not looked at.                                       *)
find_next_param_delim_Plain(str, from) ==
  FirstFrom(str, from, LAMBDA i : str[i] = ";")

find_next_param_delim(str, from) ==
  LET Quotes(i) == Cardinality({j \in from .. i - 1 : str[j] = "\""})
  IN  FirstFrom(str, from, LAMBDA i : str[i] = ";" /\ Quotes(i) % 2 = 0)

Unset == [found |-> FALSE, value |-> <<>>]

RECURSIVE parameter_find(_, _, _)
parameter_find(str, name, from) ==
  LET delim == find_next_param_delim(str, from)
      start == Skip(str, delim + 1, {" "})
      after == Skip(str, start + Len(name), {" "})
      val   == Skip(str, after + 1, {" "})
      first == IF At(str, val) = "\"" THEN val + 1 ELSE val
      last  == FirstFrom(str, first, LAMBDA i : str[i] = IF first > val THEN "\"" ELSE ";") - 1
  IN  IF delim > Len(str) THEN Unset
      ELSE IF ~ SameButCase(SubSeq(str, start, Min({start + Len(name) - 1, Len(str)})), name)
        THEN parameter_find(str, name, start)
      ELSE IF At(str, after) # "=" THEN parameter_find(str, name, after)
      ELSE [found |-> TRUE, value |-> SubSeq(str, first, last)]

parameter_extract(str, name) == parameter_find(str, name, 1)

(* The value alone, without the spaces that are left at its end.           *)
parameter_suppress(str) ==
  LET delim == find_next_param_delim(str, 1)
      kept  == {i \in 1 .. delim - 1 : str[i] \notin isspace}
  IN  SubSeq(str, 1, IF kept = {} THEN 0 ELSE Max(kept))

-----------------------------------------------------------------------------
(* Reading.                                                                *)

(* Every run of spaces becomes one, none is left at either end.            *)
Compact(str) ==
  LET Add(text, c) ==
        IF c \notin isspace THEN Append(text, c)
        ELSE IF text = <<>> \/ Last(text) = " " THEN text
        ELSE Append(text, " ")
      text == FoldLeft(Add, <<>>, str)
  IN  IF text # <<>> /\ Last(text) = " " THEN Front(text) ELSE text

(* delimiters are the positions where is_delimiter holds; end is the next  *)
(* one, behind the text when there is none.                                *)
parse(msg, from, delimiters) ==
  LET end == FirstFrom(msg, from, LAMBDA i : i \in delimiters)
  IN  [end |-> end, text |-> Compact(SubSeq(msg, from, end - 1))]

(* A field, or why there is none.                                          *)
parse_field(msg, from) ==
  LET is_end_of_name  == {i \in DOMAIN msg : msg[i] = ":" \/ msg[i] \in iseol}
      is_end_of_value == {i \in DOMAIN msg : msg[i] \in iseol /\ At(msg, i + 1) \notin isblank}
      name  == parse(msg, from, is_end_of_name)
      value == parse(msg, name.end + 1, is_end_of_value)
  IN  IF name.end > Len(msg) THEN [is |-> "error"]
      ELSE IF name.end = from THEN [is |-> "end"]
      ELSE IF value.end > Len(msg) \/ value.end = name.end + 1 THEN [is |-> "error"]
      ELSE [is |-> "field", name |-> name.text, value |-> value.text, next |-> value.end + 1]

(* The fields added to h, and where the first character that is not        *)
(* consumed is.                                                            *)
RECURSIVE header_parse(_, _, _)
header_parse(h, msg, from) ==
  LET With(field) ==
        IF field.is # "field" THEN [h |-> h, ok |-> field.is = "end", next |-> from]
        ELSE header_parse(header_field_new(h, field.name, field.value), msg, field.next)
  IN  IF from > Len(msg) THEN [h |-> h, ok |-> TRUE, next |-> from] ELSE With(parse_field(msg, from))

(* varbuf_read_line: CR LF becomes LF, and CRs before anything else one    *)
(* CR.  A line that is longer than maxlen comes in pieces.                 *)
varbuf_read_line(fd, from, maxlen) ==
  LET eol     == FirstFrom(fd, from, LAMBDA i : fd[i] = "\n")
      kept(i) == fd[i] # "\r" \/ (i < Len(fd) /\ fd[i + 1] \notin iseol)
      full    == {i \in from .. eol - 1 : fd[i] # "\r" /\ Cardinality({k \in from .. i : kept(k)}) >= maxlen}
      end     == Min(full \cup {eol})
      indices == SelectSeq([k \in 1 .. Len(fd) |-> k], LAMBDA k : k \in from .. end /\ kept(k))
  IN  [line |-> [k \in DOMAIN indices |-> fd[indices[k]]], next |-> end + 1, eof |-> end > Len(fd)]

line_match(line, delim) ==
  /\ IsPrefix(delim, line)
  /\ \A i \in Len(delim) + 1 .. Len(line) : line[i] \in isspace

(* The lines before the first that is delim, which is read but not kept.   *)
RECURSIVE ReadUntil(_, _, _, _, _, _)
ReadUntil(fd, from, maxlen, delim, text, nb_lines) ==
  LET With(new) ==
        IF new.eof THEN [text |-> text \o new.line, lines |-> nb_lines, eof |-> TRUE]
        ELSE IF line_match(new.line, delim) THEN [text |-> text, lines |-> nb_lines + 1, eof |-> FALSE]
        ELSE ReadUntil(fd, new.next, maxlen, delim, text \o new.line, nb_lines + 1)
  IN  With(varbuf_read_line(fd, from, maxlen))

header_read(fd) ==
  LET With(lines, got) == [ok |-> lines \in 1 .. MAX_HEADER_LINES /\ got.ok, h |-> got.h]
      read == ReadUntil(fd, 1, MAX_HEADLINE_LENGTH, <<>>, <<>>, 0)
  IN  With(read.lines, header_parse(<<>>, read.text, 1))

-----------------------------------------------------------------------------
(* Writing.                                                                *)

(* Mutant: no empty line ends the header.                                  *)
header_write_Open(h) ==
  FlattenSeq([i \in DOMAIN h |-> h[i].name \o <<":", " ">> \o h[i].value \o <<"\n">>])

(* header_write and header_dump.                                           *)
header_write(h) ==
  FlattenSeq([i \in DOMAIN h |-> h[i].name \o <<":", " ">> \o h[i].value \o <<"\n">>]) \o <<"\n">>

(* header_to_file opens without O_TRUNC: what a longer file held stays.    *)
header_to_file(h, file) ==
  LET text == header_write(h)
  IN  text \o SubSeq(file, Len(text) + 1, Len(file))

header_from_file(file) == header_read(file)
=============================================================================
