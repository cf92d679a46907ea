----------------------------- MODULE MCFormats ------------------------------
(***************************************************************************)
(* Small sets of inputs for Formats.                                       *)
(***************************************************************************)
EXTENDS Formats

CONSTANTS MaxText, MaxLines, MaxData   \* bounds: characters and lines of a header, bytes of a file

MCLower == ("A" :> "a") @@ ("To" :> "to") @@ ("From" :> "from") @@ ("Subject" :> "subject")
           @@ ("Message-Id" :> "message-id") @@ ("In-Reply-To" :> "in-reply-to")
           @@ ("Mime-Version" :> "mime-version") @@ ("Content-Type" :> "content-type")
           @@ ("Content-Transfer-Encoding" :> "content-transfer-encoding")

MCChar  == (61 :> "=") @@ (97 :> "a") @@ (10 :> "\n")

(* Short texts, and texts of whole lines: an ordinary one, one that is     *)
(* folded and oddly spaced, one that is no field, one of just the length   *)
(* of a line, a longer one, and two with a blank value.                    *)
Lines == {<<"A", ":", "a", "\n">>, <<"a", " ", ":", "a", " ", "\n", "\t", "a", "\n">>, <<"A", "a", "\n">>,
          <<"a", ":", "b", "c", "d", "\n">>, <<"b", ":", " ", "a", "b", " ", "c", "d", "\n">>,
          <<"A", ":", " ", "\n">>, <<"A", "b", "c", "d", "e", ":", " ", "\n">>}
Texts == BoundedSeq({"a", "A", ":", " ", "\n"}, MaxText)
         \cup {FlattenSeq(ls) : ls \in BoundedSeq(Lines, MaxLines)}

HeaderInputs ==
  [what : {"header"}, text : Texts,
   old  : {<<>>, header_write(<<[name |-> <<"a">>, value |-> <<"x", "y", "z", "t">>],
                                [name |-> <<"b">>, value |-> <<"x">>],
                                [name |-> <<"c">>, value |-> <<"x", "y">>]>>)}]

ParamNames  == {<<"n">>, <<"n", "m">>, <<"N">>}
ParamInputs ==
  [what : {"params"}, base : {<<"v">>, <<"v", " ", "w">>}, name : ParamNames,
   pars : BoundedSeq([name : ParamNames, value : {<<>>, <<"x", ";">>, <<";", " ", "n", "=", "y">>}], 2)]

Set(v)  == [found |-> TRUE, value |-> v]
Data    == {<<>>, <<0>>, <<255, 107>>, <<0, 107, 255, 1>>}
Parts   == [type : {Unset, Set(<<"text/", "plain">>)}, name : {Unset, Set(<<"n", ";", " ", "m">>)}, data : Data]
File    == [type : {Set(<<"text/", "plain">>)}, name : {Set(<<"n">>)}, data : BoundedSeq({0, 107, 255}, MaxData)]
(* Names, types and subjects with percent signs, and of the length that    *)
(* just fits and of the first that does not.                               *)
OddTexts == {<<"n", "%", "%">>, <<"%", "%", "%", "%">>, <<"%", "s">>, <<"n", "%">>,
             <<"n", "m", "o", "p", "q">>, <<"n", "m", "o", "p", "q", "r">>,
             <<"n", "m", "o", "p", "q", "r", "s", "t">>, <<"n", "m", "o", "%", "%", "q">>}
OddParts == [type : {Set(<<"text/", "plain">>)} \cup {Set(<<"text/">> \o t) : t \in OddTexts},
             name : {Set(t) : t \in OddTexts}, data : {<<0>>}]
Forward == [from : {<<"u">>}, to : {<<<<"v">>>>, <<<<"v">>, <<"w">>>>}, descr : {<<"s">>}, version : {<<"1">>},
            extid : {Unset}, parts : BoundedSeq(Parts, 2) \cup BoundedSeq(File, 1)]
           \cup [from : {<<"u">>}, to : {<<<<"v">>, <<"w">>>>}, descr : {<<"s">>} \cup OddTexts, version : {<<"1">>},
                 extid : {Unset, Set(<<"<", "i", ">">>)}, parts : [1 .. 1 -> OddParts]]
MailInputs == [what : {"mail"}, fwd : Forward]

Pieces == {[written |-> <<"a">>, means |-> <<"a">>], [written |-> <<"=", "6", "1">>, means |-> <<"a">>],
           [written |-> <<"=", "3", "D">>, means |-> <<"=">>], [written |-> <<"=", "0", "A">>, means |-> <<"\n">>],
           [written |-> <<"=", "\n">>, means |-> <<>>], [written |-> <<"\n">>, means |-> <<"\n">>]}
QuotedInputs == [what : {"quoted"}, text : BoundedSeq(Pieces, 4)]

Aliases     == BoundedSeq({"u", "g", "h", "x", Everyone}, 2)
Directories == {("u" :> <<>>) @@ ("g" :> a) @@ ("h" :> b) @@ d :
                  a \in Aliases, b \in BoundedSeq({"u", "g", "x"}, 2), d \in {<<>>, ("admin" :> <<"h">>)}}
RightsInputs ==
  [what : {"rights"}, dir : Directories,
   perms : BoundedSeq([allow : BOOLEAN, what : {"write", "admin"}, group : {"u", "g"}], 2)]

MCStrings == <<"", "010", "10", "9", "x">>
MCNumber  == ("" :> 0) @@ ("010" :> 8) @@ ("10" :> 10) @@ ("9" :> 9)
MCMatches == ("x" :> {"x"})
Messages  == UNION {[F -> Range(MCStrings)] : F \in SUBSET {"f", "g"}}
RuleInputs ==
  [what : {"rule"}, msg : Messages, type : {"string"}, value : Range(MCStrings)]
  \cup [what : {"rule"}, msg : Messages, type : {"number"}, value : {0, 8, 9}]
  \cup [what : {"rule"}, msg : {m \in Messages : "g" \in DOMAIN m}, type : {"ref"}, value : {"g"}]

MCStrtoll == ("7" :> 7) @@ ("-7" :> -7) @@ ("010" :> 8)
Words   == {<<"a">>, <<"010">>}
Phrases == {<<"a", " ", "b">>, <<"b", " ", "a", " ", "010">>, <<"b", " ", "a", " ", " ", "b">>}
Definitions == {d \in [min : 0 .. 2, max : 1 .. 2, types : BoundedSeq({"string", "integer"}, 2), negseq : BOOLEAN] :
                  d.min <= d.max /\ Len(d.types) <= d.max}
CommandInputs ==
  {c \in [what : {"command"}, seq : {<<>>, <<"7">>, <<"-7">>, <<"7", "x">>}, def : Definitions,
           args : BoundedSeq(Words \cup Phrases, 2) \cup [1 .. 6 -> Words]] :
     /\ Len(c.args) > c.def.max => Integer(c.def, c.def.max)
     /\ \A i \in DOMAIN c.args : c.args[i] \in Phrases => i = c.def.max /\ ~ Integer(c.def, i)}

Starts    == {<<2007, 12, 31>>, <<2008, 2, 28, 23, 45>>, <<2008, 2, 29>>, <<2100, 2, 28>>, <<2100, 2, 28, 0, 0>>}
Durations == BoundedSeq([n : {0, 1, 15, 400}, unit : {"m", "h", "d"}], 2)
DateInputs == [what : {"date"}, start : Starts, parts : Durations \cup {<<[n |-> 15, unit |-> "none"]>>}]

EventDates == {<<2008, 2, 28>>, <<2008, 2, 29>>, <<2008, 2, 29, 0, 0>>, <<2008, 2, 29, 10, 30>>, <<2008, 3, 1>>}
Entered    == [start : EventDates, stop : EventDates \cup {<<>>}, dir : {"a"}]
              \cup [start : {<<2008, 2, 29>>}, stop : {<<>>}, dir : {"b"}]
Numbered(s) == [i \in DOMAIN s |-> [id |-> i] @@ s[i]]
EventInputs ==
  {[what |-> "events", year |-> 2008, month |-> 1, day |-> 29, dirs |-> {"a"}, events |-> Numbered(s)] :
     s \in BoundedSeq(Entered, 2) \cup [1 .. 3 -> {e \in Entered : e.stop \in {<<>>, <<2008, 2, 29>>}}]}

MCInputs == HeaderInputs \cup ParamInputs \cup MailInputs \cup QuotedInputs \cup RightsInputs
            \cup RuleInputs \cup CommandInputs \cup DateInputs \cup EventInputs
            \cup {[what |-> "errors"], [what |-> "sequence"]}
=============================================================================
