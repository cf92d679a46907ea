-------------------------------- MODULE Mime --------------------------------
(***************************************************************************)
(* The text of a mail: what sendmail writes behind DATA (forwarder.c) and  *)
(* what smtpd makes of it (smtpd/parse.c, queries.c).                      *)
(***************************************************************************)
EXTENDS Header, TLC

CONSTANTS
  LineWidth,             \* 76 in send_file
  Boundary, my_hostname, \* words
  Char,                  \* the character of a byte, for the bytes of quoted-printable texts
  MAX_SMTP_LINE,
  MAX_MAILLINE_LENGTH

ASSUME MimeAssumption ==
  /\ LineWidth \in {4 * n : n \in 1 .. 19}
  /\ MAX_SMTP_LINE \in Nat /\ MAX_MAILLINE_LENGTH \in Nat
  /\ LineWidth < MAX_SMTP_LINE /\ MAX_SMTP_LINE < MAX_MAILLINE_LENGTH

B64 == <<"A", "B", "C", "D", "E", "F", "G", "H", "I", "J", "K", "L", "M", "N", "O", "P", "Q", "R", "S", "T", "U",
         "V", "W", "X", "Y", "Z", "a", "b", "c", "d", "e", "f", "g", "h", "i", "j", "k", "l", "m", "n", "o", "p",
         "q", "r", "s", "t", "u", "v", "w", "x", "y", "z", "0", "1", "2", "3", "4", "5", "6", "7", "8", "9", "+", "/">>

Sextet == [c \in Range(B64) |-> (CHOOSE i \in DOMAIN B64 : B64[i] = c) - 1]

Hex == [c \in {B64[i] : i \in 53 .. 62} |-> Sextet[c] - 52] @@ [c \in {B64[i] : i \in 1 .. 6} |-> Sextet[c] + 10]

CRLF == <<"\r", "\n">>

-----------------------------------------------------------------------------
(* sendmail.                                                               *)

(* Mutant: a last group of one byte is padded as one of two.               *)
send_file_Pad(data) ==
  LET Byte(i)   == IF i \in DOMAIN data THEN data[i] ELSE 0
      Letter(v) == B64[v + 1]
      Group(k)  ==
        LET a == Byte(3 * k - 2) b == Byte(3 * k - 1) c == Byte(3 * k)
        IN  (IF (4 * k) % LineWidth = 0 THEN CRLF ELSE <<>>) \o
            << Letter(a \div 4),
               Letter((a % 4) * 16 + b \div 16),
               Letter((b % 16) * 4 + c \div 64),
               IF 3 * k <= Len(data) THEN Letter(c % 64) ELSE "=" >>
  IN  FlattenSeq([k \in 1 .. (Len(data) + 2) \div 3 |-> Group(k)])

(* Groups of three bytes as four letters, padded; a line break comes       *)
(* before each group that fills LineWidth.                                 *)
send_file(data) ==
  LET Byte(i)   == IF i \in DOMAIN data THEN data[i] ELSE 0
      Letter(v) == B64[v + 1]
      Group(k)  ==
        LET a == Byte(3 * k - 2) b == Byte(3 * k - 1) c == Byte(3 * k)
        IN  (IF (4 * k) % LineWidth = 0 THEN CRLF ELSE <<>>) \o
            << Letter(a \div 4),
               Letter((a % 4) * 16 + b \div 16),
               IF 3 * k - 1 <= Len(data) THEN Letter((b % 16) * 4 + c \div 64) ELSE "=",
               IF 3 * k <= Len(data) THEN Letter(c % 64) ELSE "=" >>
  IN  FlattenSeq([k \in 1 .. (Len(data) + 2) \div 3 |-> Group(k)])

(* snprintf takes each text as a format without arguments: two percent    *)
(* signs are one, and a single one is undefined.                           *)
Formatted(arg) ==
  LET Add(f, c) == IF f.percent THEN [f EXCEPT !.percent = FALSE, !.text = Append(@, c), !.ok = @ /\ c = "%"]
                   ELSE IF c = "%" THEN [f EXCEPT !.percent = TRUE]
                   ELSE [f EXCEPT !.text = Append(@, c)]
      Result(f) == [ok |-> f.ok /\ ~ f.percent, text |-> f.text]
  IN  Result(FoldLeft(Add, [text |-> <<>>, percent |-> FALSE, ok |-> TRUE], arg))

(* A line in the making is the sequence of its texts.  One that fills the  *)
(* buffer with its CR LF is an error, and nothing of it is written.        *)
send_smtp_strs(args) ==
  LET Write(ok, text) == [is |-> IF ~ ok THEN "undefined" ELSE IF Len(text) >= MAX_SMTP_LINE THEN "error" ELSE "sent",
                          text |-> text]
      Line(fs) == Write(\A i \in DOMAIN fs : fs[i].ok, FlattenSeq([i \in DOMAIN fs |-> fs[i].text]) \o CRLF)
  IN  Line([i \in DOMAIN args |-> Formatted(args[i])])

(* A part is a file with the name and the type of its resource, each a     *)
(* text, or Unset's when the resource has none.                            *)
send_part(part) ==
  <<send_smtp_strs(<<<<"Content-Transfer-Encoding", ":", " ", "base64">>>>)>>
  \o (IF ~ part.type.found THEN <<>>
      ELSE <<send_smtp_strs(<<<<"Content-Type", ":", " ">>, part.type.value, <<";">>>>)>>
           \o (IF ~ part.name.found THEN <<>>
               ELSE <<send_smtp_strs(<<<<"\t", "name", "=", "\"">>, part.name.value, <<"\"">>>>)>>))
  \o <<send_smtp_strs(<<>>), [is |-> "sent", text |-> send_file(part.data)]>>

(* What send_forward writes between the answer to DATA and that to the     *)
(* final dot, up to the first line that cannot be written; fwd has the     *)
(* fields of the mail and its parts.                                       *)
send_data(fwd) ==
  LET to(i)   == send_smtp_strs(<<IF i = 1 THEN <<"To", ":", " ">> ELSE <<" ", ",", " ">>, fwd.to[i]>>)
      part(i) == <<send_smtp_strs(<<>>), send_smtp_strs(<<<<"-", "-">>, <<Boundary>>>>)>> \o send_part(fwd.parts[i])
      Sent(writes) ==
        LET stops == {i \in DOMAIN writes : writes[i].is # "sent"}
            last  == IF stops = {} THEN Len(writes) ELSE Min(stops) - 1
        IN  [is   |-> IF stops = {} THEN "sent" ELSE writes[Min(stops)].is,
             text |-> FlattenSeq([i \in 1 .. last |-> writes[i].text])]
  IN  Sent(
        <<send_smtp_strs(<<<<"From", ":", " ">>, fwd.from>>)>>
        \o [i \in DOMAIN fwd.to |-> to(i)]
        \o <<send_smtp_strs(<<<<"Subject", ":", " ">>, fwd.descr>>),
             send_smtp_strs(<<<<"Message-Id", ":", " ", "<">>, fwd.version, <<"@">>, <<my_hostname>>, <<">">>>>)>>
        \o (IF fwd.extid.found THEN <<send_smtp_strs(<<<<"In-Reply-To", ":", " ">>, fwd.extid.value>>)>> ELSE <<>>)
        \o <<send_smtp_strs(<<<<"Mime-Version", ":", " ", "1.0">>>>),
             send_smtp_strs(<<<<"Content-Type", ":", " ", "multipart/", "mixed", ";", " ", "boundary", "=">>,
                             <<Boundary>>>>)>>
        \o FlattenSeq([i \in DOMAIN fwd.parts |-> part(i)])
        \o <<send_smtp_strs(<<>>), send_smtp_strs(<<<<"-", "-">>, <<Boundary>>, <<"-", "-">>>>),
             send_smtp_strs(<<<<".">>>>)>>)

-----------------------------------------------------------------------------
(* smtpd: the encodings.                                                   *)

Decoded0 == [ok |-> TRUE, out |-> <<>>, vals |-> <<>>, pads |-> 0]

(* What is not a letter is ignored, paddings are never forgotten, and a    *)
(* group is complete with four of either.                                  *)
decode_base64(msg) ==
  LET Read(d, c) ==
        IF c = "=" THEN [d EXCEPT !.pads = @ + 1, !.ok = @ /\ d.pads < 2]
        ELSE IF c \notin DOMAIN Sextet THEN d
        ELSE [d EXCEPT !.vals = Append(@, Sextet[c]), !.ok = @ /\ d.pads = 0]
      Val(d, i) == IF i \in DOMAIN d.vals THEN d.vals[i] ELSE 0
      Output(d) == << (Val(d, 1) * 4 + Val(d, 2) \div 16) % 256,
                      (Val(d, 2) * 16 + Val(d, 3) \div 4) % 256,
                      (Val(d, 3) * 64 + Val(d, 4)) % 256 >>
      Flush(d)  == IF ~ d.ok \/ Len(d.vals) + d.pads < 4 THEN d
                   ELSE [d EXCEPT !.out = @ \o SubSeq(Output(d), 1, 3 - d.pads), !.vals = <<>>]
      Step(d, c) == IF d.ok THEN Flush(Read(d, c)) ELSE d
  IN  FoldLeft(Step, Decoded0, msg)

(* Mutant: what follows "=" and is no digit is kept.                       *)
decode_quoted_Keeps(msg) ==
  LET Step(d, c) ==
        IF d.pads = 0 THEN IF c = "=" THEN [d EXCEPT !.pads = 1, !.vals = <<>>] ELSE [d EXCEPT !.out = Append(@, c)]
        ELSE IF c \notin DOMAIN Hex THEN [d EXCEPT !.pads = 0, !.out = Append(@, c)]
        ELSE IF d.pads = 1 THEN [d EXCEPT !.pads = 2, !.vals = <<Hex[c]>>]
        ELSE [d EXCEPT !.pads = 0, !.out = Append(@, Char[d.vals[1] * 16 + Hex[c]])]
  IN  FoldLeft(Step, Decoded0, msg)

(* pads is the state: 0 READ_UNQUOTED, 1 READ_QUOTE1, 2 READ_QUOTE2.  What *)
(* follows "=" and is no digit, a soft line break or an error, is dropped. *)
decode_quoted(msg) ==
  LET Step(d, c) ==
        IF d.pads = 0 THEN IF c = "=" THEN [d EXCEPT !.pads = 1, !.vals = <<>>] ELSE [d EXCEPT !.out = Append(@, c)]
        ELSE IF c \notin DOMAIN Hex THEN [d EXCEPT !.pads = 0]
        ELSE IF d.pads = 1 THEN [d EXCEPT !.pads = 2, !.vals = <<Hex[c]>>]
        ELSE [d EXCEPT !.pads = 0, !.out = Append(@, Char[d.vals[1] * 16 + Hex[c]])]
  IN  FoldLeft(Step, Decoded0, msg)

decode_in_varbuf(msg, h) ==
  LET i == header_find(h, <<"content-transfer-encoding">>, 0)
  IN  IF i # 0 /\ SameButCase(h[i].value, <<"quoted-printable">>) THEN decode_quoted(msg)
      ELSE IF i # 0 /\ SameButCase(h[i].value, <<"base64">>) THEN decode_base64(msg)
      ELSE [Decoded0 EXCEPT !.out = msg]

-----------------------------------------------------------------------------
(* smtpd: the tree of parts.                                               *)

(* The parameters of the resource: the file name that the disposition or   *)
(* the type gives, one made up from the type otherwise, and the type.      *)
build_params(h) ==
  LET disp   == header_find(h, <<"content-disposition">>, 0)
      type   == header_find(h, <<"content-type">>, 0)
      Par(i, name) == IF i = 0 THEN Unset ELSE parameter_extract(h[i].value, name)
      param(name, value) == <<name, "=", "\"">> \o value \o <<"\"">>
      name   == IF Par(disp, <<"filename">>).found THEN Par(disp, <<"filename">>).value
                ELSE IF Par(type, <<"name">>).found THEN Par(type, <<"name">>).value
                ELSE IF type # 0 THEN <<"noname", ".", "ext">> ELSE <<"noname">>
  IN  param("name", name) \o (IF type = 0 THEN <<>> ELSE <<";", " ">> \o param("type", h[type].value))

MailError == [is |-> "error"]

(* The size of the body has wrapped: smtpd reads beyond the mail.          *)
Beyond == [is |-> "undefined"]

RECURSIVE parse_mail_node(_, _, _, _), parse_multipart(_, _, _, _, _, _)

(* The part of msg from from to before end, whose header is head, parsed   *)
(* without regard to end.                                                  *)
parse_mail_node(msg, from, end, head) ==
  LET type == header_find(head.h, <<"content-type">>, 0)
      b    == parameter_extract(head.h[type].value, <<"boundary">>)
      body == IF At(msg, head.next) = "\n" THEN head.next + 1 ELSE head.next
      File(data) == IF data.ok THEN [is |-> "file", params |-> build_params(head.h), data |-> data.out]
                    ELSE MailError
  IN  IF ~ head.ok THEN MailError
      ELSE IF head.next > end THEN [is |-> "abort"]
      ELSE IF type # 0 /\ At(head.h[type].value, 1) = "multipart/" /\ b.found
        THEN parse_multipart(msg, from, end, <<"\n", "-", "-">> \o b.value, TRUE, <<>>)
      ELSE IF body > end THEN Beyond
      ELSE File(decode_in_varbuf(SubSeq(msg, body, end - 1), head.h))

parse_mail_rec(msg, from, end) == parse_mail_node(msg, from, end, header_parse(<<>>, msg, from))

(* From one boundary to the next, up to the one that "--" follows.  A part *)
(* goes in front of those before it; one that cannot be parsed is left out.*)
parse_multipart(msg, from, end, boundary, first, parts) ==
  LET delim  == FirstFrom(msg, from, LAMBDA i : /\ i + Len(boundary) <= end
                                                /\ SubSeq(msg, i, i + Len(boundary) - 1) = boundary)
      after  == delim + Len(boundary)
      last   == At(msg, after) = "-" /\ At(msg, after + 1) = "-"
      eol    == Skip(msg, IF last THEN after + 2 ELSE after, isblank)
      Insert(part) ==
        LET parts1 == IF part.is = "error" THEN parts ELSE <<part>> \o parts
        IN  IF part.is \in {"abort", "undefined"} THEN part
            ELSE IF At(msg, eol) # "\n" THEN MailError
            ELSE IF eol + 1 < end /\ ~ last THEN parse_multipart(msg, eol + 1, end, boundary, FALSE, parts1)
            ELSE [is |-> "multipart", parts |-> parts1]
  IN  IF delim > Len(msg) THEN MailError
      ELSE Insert(IF first THEN MailError ELSE parse_mail_rec(msg, from, delim))

msg_tree_read(fd) ==
  LET read == ReadUntil(fd, 1, MAX_MAILLINE_LENGTH, <<".">>, <<>>, 0)
  IN  IF read.eof THEN MailError ELSE parse_mail_rec(read.text, 1, Len(read.text) + 1)

(* The resources of the message that smtpd adds, one per file that is not  *)
(* empty: what it holds and the value of the field.                        *)
RECURSIVE store_file_rec(_)
store_file_rec(tree) ==
  IF tree.is = "multipart" THEN FlattenSeq([i \in DOMAIN tree.parts |-> store_file_rec(tree.parts[i])])
  ELSE IF tree.is # "file" \/ tree.data = <<>> THEN <<>>
  ELSE <<[data |-> tree.data, resource |-> <<"ref", ";", " ">> \o tree.params]>>
=============================================================================
