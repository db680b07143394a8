----------------------------- MODULE MCAssertions -----------------------------
EXTENDS Assertions

\* "10", "9", "9.0", "nan", "abc": the first two are ordered one way as text and
\* the other way as numbers.
Ten == [rank |-> 1, num |-> 10]
Nine == [rank |-> 2, num |-> 9]
NineZero == [rank |-> 3, num |-> 9]
Abc == [rank |-> 4, num |-> None]
Nan == [rank |-> 5, num |-> NaN]

Literal(text) == [kind |-> "literal", text |-> text]
Glob(texts) == [kind |-> "glob", matches |-> texts, bad |-> FALSE]
BadGlob == [kind |-> "glob", matches |-> {}, bad |-> TRUE]

Operands ==
    { [kind |-> "none"], Literal(Nine), Literal(Abc), Literal(Nan), Glob({Abc}), BadGlob }

Status(cmp, value) == [op |-> "status_code_check", cmp |-> cmp, value |-> value]
Header(key_cmp, key, value_cmp, operand) ==
    [op |-> "header_check", key_cmp |-> key_cmp, key |-> key,
     value_cmp |-> value_cmp, operand |-> operand]
JsonPath(query, cmp, operand) ==
    [op |-> "json_path", query |-> query, cmp |-> cmp, operand |-> operand]

Plain == [error |-> None, fails |-> FALSE, cost |-> 2, selects |-> TRUE]
Queries ==
    { Plain, [Plain EXCEPT !.selects = FALSE], [Plain EXCEPT !.fails = TRUE],
      [Plain EXCEPT !.error = "pest_error"], [Plain EXCEPT !.error = "invalid_glob"],
      [Plain EXCEPT !.error = "invalid_number"] }

And(children) == [op |-> "and", children |-> children]
Or(children) == [op |-> "or", children |-> children]
Not(operand) == [op |-> "not", operand |-> operand]

\* Every leaf: all comparisons with all operands.
Leaves ==
    { Status(cmp, value) : cmp \in Comparison, value \in { 200, 404 } }
    \cup { JsonPath(query, cmp, operand) :
             query \in Queries, cmp \in Comparison, operand \in Operands }
    \cup { Header(key_cmp, key, value_cmp, operand) :
             key_cmp \in Comparison, key \in { Literal(Abc), Literal(Ten), Glob({Abc}), BadGlob },
             value_cmp \in Comparison, operand \in Operands }

Over(ops, width) ==
    LET lists == UNION { [1 .. n -> ops] : n \in 0 .. width }
    IN ops \cup { Not(op) : op \in ops } \cup { And(l) : l \in lists } \cup { Or(l) : l \in lists }

\* Leaves that pass, fail, fail with an error and do not compile.
FewLeaves ==
    { Status("equals", 200), JsonPath(Plain, "equals", Literal(Nine)),
      Header("always", Literal(Abc), "less_than", Literal(Ten)) }

MCRoots ==
    Leaves
    \cup Over(FewLeaves \cup { JsonPath(Plain, "equals", BadGlob), JsonPath(Plain, "equals", Glob({Abc})) }, 3)
    \cup Over(Over(FewLeaves, 2), 2)

Json(kind, text) == [kind |-> kind, text |-> text]

MCResponses ==
    { [status |-> 200, headers |-> << [key |-> Abc, value |-> NineZero] >>,
       body |-> << Json("number", Nine) >>],
      [status |-> 404,
       headers |-> << [key |-> Ten, value |-> Nine], [key |-> Abc, value |-> Abc],
                      [key |-> Abc, value |-> None] >>,
       body |-> << Json("string", Nine), Json("string", NineZero), Json("other", Abc) >>],
      [status |-> 200, headers |-> <<>>, body |-> None] }

===============================================================================
