---------------------------- MODULE MCLazyFrame ----------------------------
(* Values for LazyFrame.cfg and LazyScan.cfg: one data frame, in memory    *)
(* and in files, whose column a has no equal values while b, whose numbers *)
(* are already in ascending order, has two of them and a null; columns c   *)
(* and d are there only once a query has computed them.                    *)
EXTENDS LazyFrame

a == Col("a")
b == Col("b")
c == Col("c")
Num(v) == Lit(v, "Int64")

\* A text of digits is represented by its number.
Digits(v) == Lit(v, "String")

\* The first and the last print alike, and the other writes their column.
Rewritten == <<Add(a, Num(1)), Add(a, a), Add(a, Num(1))>>

Data == Frame(<<Series("a", "Int64", <<2, 1, 3, 4>>), Series("b", "Int64", <<Null, 0, 1, 1>>)>>)

MCSources == {ScanNode(Data), FileScanNode("ScanCSV", Data), FileScanNode("ScanParquet", Data)}
MCOthers == {ScanNode(Frame(<<Series("b", "Int64", <<1, Null>>), Series("a", "Int64", <<7, 8>>)>>))}

MCFilters == {Gt(a, Num(1)), IsNull(b), Gt(CumSum(a), Num(2)), Gt(c, Num(2)), Gt(Num(1), Num(2))}
MCSelects == {<<b, a>>, <<a>>, <<c>>, <<Alias(Add(a, b), "c"), a>>, <<Add(Num(1), Num(2))>>}
MCWiths == {<<Alias(Add(a, a), "c")>>, <<Alias(Num(1), "c")>>, <<Add(a, Num(1)), Add(a, Num(1))>>,
            <<Add(a, Num(1)), Alias(a, "c"), Add(a, Num(1))>>, Rewritten,
            <<Num(1), Digits(1)>>, <<Alias(IsNull(b), "d")>>}
MCSorts == {<<"a", TRUE>>, <<"b", TRUE>>}
MCGroups == {<<"b", "a">>}
MCSubsets == {<<"b">>}
MCDrops == {<<"b">>}
MCRenames == {<<"a", "c">>}

(* The query of the README: a CSV file, one filter, two columns.           *)
ScanSources == {FileScanNode("ScanCSV", Data)}
ScanFilters == {Gt(b, Num(0))}
ScanSelects == {<<a>>}
None == {}
=============================================================================
