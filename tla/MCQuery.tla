------------------------------ MODULE MCQuery ------------------------------
(* Small instances of Query for TLC: bytes of four values, an Integer of one *)
(* byte, a BigInt and a Double of two.                                       *)
EXTENDS Query

MCSchemas == {<<"int", "big">>, <<"dbl", "bool">>, <<"str", "int">>}

(* No string is a prefix of another.                                         *)
Strings == {<<"str", <<1>>>>, <<"str", <<2>>>>}

(* Of the Doubles: 0.0, -0.0, a number and its negative, NaN.                *)
MCValues ==
    {Null} \cup {Value("bool", n) : n \in {0, 1}} \cup {Value("int", n) : n \in {-1, 1}}
    \cup {Value("big", n) : n \in {-5, 1, 5}} \cup {Value("dbl", n) : n \in {0, 8, 3, 11, 7}}
    \cup Strings

(* A table of strings of which one is a prefix of the other.                 *)
MCPrefixSchemas == {<<"str", "int">>}
MCPrefixValues == {Null, <<"str", <<1>>>>, <<"str", <<1, 2>>>>}

Row(cols, exprs) == [cols |-> cols, exprs |-> exprs]

MCRows ==
    {Row(<<1>>, <<Param(1)>>),
     Row(<<1, 2>>, <<Param(1), Lit(Value("big", 1))>>),
     Row(<<2, 1>>, <<Lit(True), Neg(Lit(Value("dbl", 3)))>>),
     Row(<<2>>, <<Neg(Lit(Value("big", 5)))>>),
     Row(<<1, 2>>, <<Param(1)>>), Row(<<3>>, <<Param(1)>>)}

And(l, r) == Bin("and", l, r)
Compares(op, n) == Bin(op, Col(1), Param(n))

MCWheres ==
    {Compares(op, 1) : op \in Comparisons} \cup
    {And(Compares(">", 1), Compares("<=", 2)), And(Compares(">=", 1), Compares("=", 2)),
     And(Compares("<", 1), Compares("<=", 2)),
     And(Bin("=", Col(2), Param(1)), Compares(">=", 2)),
     And(Compares("=", 1), Bin("=", Col(2), Param(1))),
     And(IsNull(Col(2), TRUE), Compares("<=", 1)),
     Bin("or", Compares("=", 1), Bin("<", Param(1), Col(1))),
     Bin("or", Not(Compares("<", 1)), IsNull(Col(1), FALSE)),
     Bin("=", Compares("<", 1), Compares(">", 1)),
     Bin("<=", Neg(Col(1)), Lit(Value("big", 5))),
     Bin("<", Col(1), Lit(Value("big", 5))), Bin("<", Col(1), Lit(Value("big", 1))),
     Bin(">", Col(1), Lit(Null)), Bin("=", Col(1), Col(2)), Col(2),
     Bin("=", Col(3), Param(1)), Compares("=", 2), Param(1),
     Bin("=", Bin("+", Col(1), Param(1)), Col(1))}

(* The low byte of the first page is greater than any byte of a string but  *)
(* one.                                                                      *)
MCPages == <<3, 6>>
=============================================================================
