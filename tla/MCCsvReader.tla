----------------------------- MODULE MCCsvReader -----------------------------
(* Values for CsvReader.cfg: files with blank, short, long and comment     *)
(* lines, with and without a last newline, and tables whose texts need     *)
(* quotes.                                                                 *)
EXTENDS CsvReader

Default ==
  [columns |-> nil, comment |-> nil, ctx |-> FALSE, dtypes |-> <<>>, header |-> TRUE, infer |-> 0,
   nrows |-> 0, nulls |-> {<<>>, <<"NA">>}, quote |-> "\"", sep |-> ",", skip |-> 0, skipAfter |-> 0]

MCOptions ==
  {Default,
   [Default EXCEPT !.sep = Wide],
   [Default EXCEPT !.quote = Wide],
   [Default EXCEPT !.infer = 1],
   [Default EXCEPT !.nrows = 2],
   [Default EXCEPT !.header = FALSE, !.ctx = TRUE],
   [Default EXCEPT !.header = FALSE, !.nrows = 1, !.columns = <<<<"a">>>>],
   [Default EXCEPT !.skip = 1, !.columns = <<<<"b">>, <<"a">>>>],
   [Default EXCEPT !.columns = <<<<"b">>>>, !.dtypes = (<<"b">> :> "Int64")],
   [Default EXCEPT !.dtypes = (<<"a">> :> "Date")],
   [Default EXCEPT !.comment = "#", !.skipAfter = 1, !.columns = <<<<"a">>, <<"a">>>>]}

\* Lines joined by newlines; the file has no other newline at its end
Joined(lines) == FlattenSeq([k \in DOMAIN lines |-> IF k = 1 THEN lines[k] ELSE <<NewLine>> \o lines[k]])

MCFiles ==
  {<<>>,
   Joined(<<<<"a", ",", "b">>, <<"1", ",", "0">>, <<"7", ",">>, <<>>, <<"x">>, <<"0", ",", "true", ",", "1">>, <<>>>>),
   Joined(<<<<"a", ",", "b", CR>>, <<"#", "x">>, <<" ", "1", ".", "5", ",", "NA">>, <<"2", ",", " ", "NA">>,
            <<"\"", ",", "\"", ",", "0">>, <<"x", "\"", "1">>>>),
   Joined(<<<<>>, <<"a", ",", "b">>, <<"1", ",", "2">>, <<"0", ",", "2">>, <<"7", ",", "1">>, <<"false", ",", "7">>>>),
   Joined(<<<<"a", ",", "a", ",", "b">>, <<CR>>, <<"1", ",", "0", ",", "1">>, <<"1", ",", "2", ",", "0">>>>)}

Name(x) == <<x>>
MCTables ==
  {<<Series(Name("a"), "Int64", <<1, Null, 409>>), Series(Name("b"), "Float64", <<15, 1270, Null>>)>>,
   <<Series(<<"a", ",", "\"">>, "String", << <<"x", "\"">>, <<"\"", ",", "x">>, <<"x", CR>>, <<Wide>> >>)>>,
   <<Series(Name("a"), "Boolean", <<1, 0>>), Series(Name("b"), "String", << <<"\"">>, <<"x">> >>)>>,
   <<Series(Name("a"), "Int64", <<1, 0>>), Series(Name("b"), "String", << <<"x", NewLine>>, Null>>)>>,
   <<Series(Name("a"), "Int64", <<7, Null, 5>>)>>,
   <<>>}
=============================================================================
