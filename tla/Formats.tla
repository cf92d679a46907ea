------------------------------ MODULE Formats -------------------------------
(***************************************************************************)
(* What the texts that the programs exchange and store mean: headers and   *)
(* their parameters, mails, command lines, rights, rules.  Each module     *)
(* translates the functions that write and read one of them; here they are *)
(* put to an input, and what is read must be what was written.  The errors *)
(* that all these functions report with, and the numbers that processes    *)
(* share, are modules with steps.                                          *)
(***************************************************************************)
EXTENDS Mime, Users, Rules, Commands, Dates, Errors, Persist

CONSTANT Inputs   \* records [what, ...]

VARIABLE input

Init == input \in Inputs /\ ErrInit /\ SeqInit

Next == \/ input.what = "errors" /\ ErrNext /\ UNCHANGED <<input, seqvars>>
        \/ input.what = "sequence" /\ SeqNext /\ UNCHANGED <<input, errvars>>

Spec == Init /\ [][Next]_<<input, errvars, seqvars>>

-----------------------------------------------------------------------------
(* Whatever text a header was parsed from, folded, oddly spaced or with    *)
(* lines that are no fields, header_from_file reads from the file that     *)
(* header_to_file wrote over an older, possibly longer one exactly the     *)
(* fields it had, unless one has a blank name.  It refuses the file as a   *)
(* whole, and never returns some of the fields, exactly when they take     *)
(* more lines than MAX_HEADER_LINES, where a line longer than              *)
(* MAX_HEADLINE_LENGTH counts for its pieces, or when one of the pieces is *)
(* blank and passes for the end: a line of just that length cannot be read *)
(* back.                                                                   *)
HeaderKept ==
  LET Line(field) == field.name \o <<":", " ">> \o field.value \o <<"\n">>
      Pieces(len) == (len + MAX_HEADLINE_LENGTH - 1) \div MAX_HEADLINE_LENGTH
      Piece(line, k) == SubSeq(line, (k - 1) * MAX_HEADLINE_LENGTH + 1, Min({k * MAX_HEADLINE_LENGTH, Len(line)}))
      Fits(h) ==
        /\ FoldLeft(LAMBDA n, field : n + Pieces(Len(Line(field))), 1, h) <= MAX_HEADER_LINES
        /\ \A i \in DOMAIN h : \A k \in 1 .. Pieces(Len(Line(h[i]))) : Range(Piece(Line(h[i]), k)) \ isspace # {}
      Same(got, h) == got.ok = Fits(h) /\ (got.ok => got.h = h)
      Kept(h) == (\A i \in DOMAIN h : h[i].name # <<>>) => Same(header_from_file(header_to_file(h, input.old)), h)
  IN  input.what = "header" => Kept(header_parse(<<>>, input.text, 1).h)

(* A parameter is found by its name and with its value, whatever other     *)
(* parameters surround it: names that start alike, delimiters and even     *)
(* whole parameters within quotes; without them the value is left.         *)
ParametersKept ==
  input.what = "params" =>
    LET par(i) == <<";", " ">> \o input.pars[i].name \o <<"=", "\"">> \o input.pars[i].value \o <<"\"">>
        str    == input.base \o FlattenSeq([i \in DOMAIN input.pars |-> par(i)])
        named  == {i \in DOMAIN input.pars : SameButCase(input.pars[i].name, input.name)}
    IN  /\ parameter_extract(str, input.name) =
             IF named = {} THEN Unset ELSE [found |-> TRUE, value |-> input.pars[Min(named)].value]
        /\ parameter_suppress(str) = input.base

(* A mail that sendmail writes is read by smtpd with every part that is    *)
(* not empty, last first: its bytes, through base64 and the line breaks,   *)
(* and, as a later forward of the message extracts them from the resource, *)
(* its name and its type as snprintf makes them, two percent signs one;    *)
(* and smtpd never reads beyond it.  sendmail gives up exactly when one of *)
(* the texts is too long for its line, and nothing is said of those with a *)
(* single percent sign.                                                    *)
PartsKept ==
  LET fwd == input.fwd
      Typed   == {i \in DOMAIN fwd.parts : fwd.parts[i].type.found}
      Named   == {i \in Typed : fwd.parts[i].name.found}
      Reply   == IF fwd.extid.found THEN {fwd.extid.value} ELSE {}
      (* The texts, each with the number of characters that surround it.   *)
      Texts   == {[text |-> t, around |-> 5] : t \in {fwd.from, fwd.descr} \cup Range(fwd.to) \cup Reply}
                 \cup {[text |-> fwd.parts[i].type.value, around |-> 6] : i \in Typed}
                 \cup {[text |-> fwd.parts[i].name.value, around |-> 7] : i \in Named}
      Run(t, i)   == i - Max({0} \cup {j \in 1 .. i : t[j] # "%"})
      Odd(t)      == \E i \in DOMAIN t : Run(t, i) % 2 = 1 /\ (i = Len(t) \/ t[i + 1] # "%")
      Plain(t)    == LET kept == SelectSeq([i \in DOMAIN t |-> i], LAMBDA i : t[i] # "%" \/ Run(t, i) % 2 = 0)
                     IN  [k \in DOMAIN kept |-> t[kept[k]]]
      long    == \E t \in Texts : Len(Plain(t.text)) + t.around >= MAX_SMTP_LINE
      Sent    == SelectSeq(Reverse(fwd.parts), LAMBDA p : p.data # <<>>)
      Same(got, sent) ==
        LET name == parameter_extract(got.resource, <<"name">>)
            type == parameter_extract(got.resource, <<"type">>)
        IN  /\ got.data = sent.data
            /\ sent.name.found /\ sent.type.found => name.found /\ name.value = Plain(sent.name.value)
            /\ sent.type.found => parameter_suppress(type.value) = Plain(sent.type.value)
      AllSame(got) == Len(got) = Len(Sent) /\ \A i \in DOMAIN got : Same(got[i], Sent[i])
      Read(tree)   == tree.is = "multipart" /\ AllSame(store_file_rec(tree))
      Kept(mail)   == IF long THEN mail.is = "error" ELSE mail.is = "sent" /\ Read(msg_tree_read(mail.text))
  IN  input.what = "mail" => (\E t \in Texts : Odd(t.text)) \/ Kept(send_data(fwd))

(* A text in quoted-printable is decoded to what was encoded, with any of  *)
(* its characters quoted and soft line breaks anywhere.                    *)
QuotedKept ==
  input.what = "quoted" =>
    decode_quoted(FlattenSeq([i \in DOMAIN input.text |-> input.text[i].written])).out =
      FlattenSeq([i \in DOMAIN input.text |-> input.text[i].means])

(* The groups that a group contains, however deep; user files that do not  *)
(* exist contain nothing.                                                  *)
Within(dir, group) ==
  LET Wider(S, k) == S \cup UNION {Range(dir[g]) : g \in S \cap DOMAIN dir}
  IN  FoldLeft(Wider, {group}, [k \in 1 .. Cardinality(DOMAIN dir) |-> k])

Member(dir, user, group) == {user, Everyone} \cap Within(dir, group) # {}

Granted(dir, user, perms, what) ==
  LET fields == perms \o default_perms
      names  == {i \in DOMAIN fields : fields[i].what = what /\ Member(dir, user, fields[i].group)}
  IN  names # {} /\ fields[Min(names)].allow

(* The rights that auth.c gives are those of the first field that names a  *)
(* group the user is in, through aliases of aliases and cycles of them;    *)
(* where groups refer to user files that do not exist it gives fewer, and  *)
(* never more.                                                             *)
RightsSound ==
  input.what = "rights" =>
    LET can == mdir_user_can_write(input.dir, "u", input.perms)
        may == \E what \in {"write", "admin"} : Granted(input.dir, "u", input.perms, what)
        all == UNION {Within(input.dir, g) : g \in {"admin"} \cup {input.perms[i].group : i \in DOMAIN input.perms}}
    IN  /\ can => may
        /\ all \subseteq DOMAIN input.dir \cup {Everyone} => can = may

(* Exactly one of <, = and > holds of a field and what it is compared      *)
(* with, <= and >= are the unions their signs say, and none holds of a     *)
(* field that is unset or is not the number it should be.                  *)
OperatorsExclusive ==
  input.what = "rule" =>
    LET Holds(sign) == condition_eval([op |-> str2binaryop(sign \o <<" ">>), field |-> "f",
                                       type |-> input.type, value |-> input.value], input.msg)
        comparable  == "f" \in DOMAIN input.msg /\ (input.type = "number" => input.msg["f"] \in DOMAIN Number)
        holding     == {sign \in {<<"<">>, <<"=">>, <<">">>} : Holds(sign)}
    IN  /\ Cardinality(holding) = IF comparable THEN 1 ELSE 0
        /\ Holds(<<"<", "=">>) = (holding \cap {<<"<">>, <<"=">>} # {})
        /\ Holds(<<">", "=">>) = (holding \cap {<<">">>, <<"=">>} # {})

(* The line that carries a command is read as the number without its sign  *)
(* and the arguments it was written with, integers as their values, and an *)
(* argument of several words as the last, as far as its words are one      *)
(* space apart; a line with too few words, a word for an integer, a number *)
(* that is none or has the wrong sign for the keyword, or a number and too *)
(* many words is refused as a whole.  Nothing is said of a line without a  *)
(* number and with too many words, which the code takes out of bounds.     *)
CommandKept ==
  LET spaced(words) == FlattenSeq([i \in DOMAIN words |-> <<" ">> \o words[i]])
      line   == input.seq \o spaced(<<<<"KEY">>>> \o input.args) \o <<"\n">>
      size   == Len(Tokens(line))
      single == IsInteger(input.seq)
      value  == IF single THEN Strtoll[input.seq[1]] ELSE 0
      Read(i) ==
        LET arg    == input.args[i]
            double == {j \in 2 .. Len(arg) : arg[j - 1] = " " /\ arg[j] = " "}
        IN  IF Integer(input.def, i) THEN Strtoll[arg[1]]
            ELSE IF double = {} THEN arg ELSE SubSeq(arg, 1, Min(double) - 2)
      refused ==
        \/ Len(input.args) < input.def.min
        \/ \E i \in DOMAIN input.args : Integer(input.def, i) /\ ~ IsInteger(input.args[i])
        \/ input.seq # <<>> /\ (~ single \/ size >= CMD_MAX_ARGS)
        \/ value # 0 /\ (value < 0) # input.def.negseq
      Expected ==
        IF refused THEN NoCommand
        ELSE [is |-> "command", seq |-> Max({value, - value}), args |-> [i \in DOMAIN input.args |-> Read(i)]]
  IN  input.what = "command" =>
        \/ input.seq = <<>> /\ size >= CMD_MAX_ARGS
        \/ parse_cmd(line, <<"KEY">>, input.def) = Expected

(* Days since a day long ago, by the calendar that starts in March.        *)
DayNumber(cd) ==
  LET y == IF cd.month >= 2 THEN cd.year ELSE cd.year - 1
      m == (cd.month + 10) % 12
  IN  365 * y + y \div 4 - y \div 100 + y \div 400 + (153 * m + 2) \div 5 + cd.day

MinuteNumber(cd) == 24 * 60 * DayNumber(cd) + IF cal_date_has_time(cd) THEN 60 * cd.hour + cd.min ELSE 0

SameDate(a, b) == [a EXCEPT !.min = 0] = [b EXCEPT !.min = 0] /\ (cal_date_has_time(a) => a.min = b.min)

(* In a zone whose time is UTC (the conversion of the others, which is not *)
(* modelled, is wrong at the ends of months), an event that is edited      *)
(* without touching its dates keeps them: the editor reads what it         *)
(* printed; and a stop that is entered as a duration is a date that exists *)
(* and comes that many minutes after the start, across the ends of days,   *)
(* months and leap years.                                                  *)
DatesKept ==
  input.what = "date" =>
    LET cd    == cal_date_ctor_from_str(input.start)
        again == cal_date_ctor_from_input([plus |-> FALSE, hours |-> FALSE, nums |-> Printed(cd)], NotSet)
        later == cal_date_ctor_from_input([plus |-> TRUE, parts |-> input.parts], cd)
        total == FoldLeft(LAMBDA n, p : n + p.n * (CASE p.unit = "d" -> 1440 [] p.unit = "h" -> 60 [] OTHER -> 1),
                          0, input.parts)
    IN  /\ again.ok /\ SameDate(again.cd, cd)
        /\ later.ok /\ later.cd.month \in 0 .. 11 /\ later.cd.day \in 1 .. month_days(later.cd.year, later.cd.month)
        /\ MinuteNumber(later.cd) = MinuteNumber(cd) + total

(* Each day of a month shows exactly the events of the chosen folders that *)
(* start on it or before and do not end before it, with a time or without, *)
(* in the order of their starts whatever the order they came in; the mark  *)
(* of the present comes after those that have started and before the rest. *)
DayShown ==
  input.what = "events" =>
    LET list    == FoldLeft(cal_msg_ctor, <<>>, input.events)
        month   == reset_month(list, input.dirs, input.year, input.month)
        Day(d)  == DayNumber(cal_date_ctor(input.year, input.month, d, 99, 0))
        Covers(c, d) == DayNumber(c.start) <= Day(d) /\ Day(d) <= DayNumber(LastDate(c))
        now     == cal_date_ctor(input.year, input.month, input.day, 10, 30)
    IN  /\ \A d \in DOMAIN month :
             /\ Range(month[d]) = {c \in Range(list) : c.dir \in input.dirs /\ Covers(c, d)}
             /\ \A i \in 1 .. Len(month[d]) - 1 :
                  MinuteNumber(month[d][i].start) <= MinuteNumber(month[d][i + 1].start)
        /\ LET today == month[input.day]
               k     == reset_day(today, now)
           IN  \A i \in DOMAIN today : (i <= k) = (MinuteNumber(today[i].start) < MinuteNumber(now))

(* What one function of the programs writes its counterpart reads, at the  *)
(* boundaries where it is easily lost: headers and parameters, the parts   *)
(* of a mail, quoted text, command lines and dates, each as stated above.  *)
TextsKept ==
  HeaderKept /\ ParametersKept /\ PartsKept /\ QuotedKept /\ CommandKept /\ DatesKept

(* Where the code decides, it decides as a plain definition of the same    *)
(* question does, stated above: who may write (auth.c), which condition of *)
(* a rule holds (stribution), which events a day shows (calendar.c).       *)
DecidesAsDefined == RightsSound /\ OperatorsExclusive /\ DayShown
=============================================================================
