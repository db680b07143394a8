------------------------------ MODULE Assertions ------------------------------
(***************************************************************************)
(* The assertion on a response (assertions/mod.rs, assertions/compiled.rs):*)
(* compile with its budget of operations, eval with its gas, the reason    *)
(* eval gives for a verdict and the part of the assertion that             *)
(* extract_failure_data cuts out by it.                                    *)
(*                                                                         *)
(* An Op is a record with its kind in "op"; a tree of them is walked by    *)
(* recursive operators, so this module is for TLC.  A text is what the     *)
(* comparisons see of it: its place in the order of strings and the number *)
(* it parses to, None if it parses to none.  A glob is the set of texts it *)
(* matches.  A body is None if it is not JSON, and otherwise the sequence  *)
(* of the values that a JSONPath query selects in it.                      *)
(***************************************************************************)
EXTENDS Integers, Sequences, SequencesExt

CONSTANTS
    None,
    NaN,               \* what "nan" parses to: neither below, above nor equal to a number
    Roots,             \* the assertions
    Responses,         \* records of status, headers and body
    MaxOps,            \* values of max_assertion_ops
    Complexities       \* values of assertion_complexity

Comparison == { "always", "never", "less_than", "greater_than", "equals", "not_equal" }

CompilationError ==
    { "invalid_glob", "json_path_parser", "invalid_json_path", "too_many_operations" }

RuntimeError ==
    { "invalid_json_path", "took_too_long", "invalid_json_body", "invalid_type_comparison" }

------------------------------------------------------------------------------
(* Comparisons.  Each yields an error or a truth value, and the gas left.   *)

Yields(val, gas) == [err |-> None, val |-> val, gas |-> gas]

Fails(err, gas) == [err |-> err, val |-> FALSE, gas |-> gas]

\* Mutant of Consume: out of gas, the comparison is false.
ConsumeQuietly(amount, gas, val) ==
    IF amount > gas THEN Yields(FALSE, gas) ELSE Yields(val, gas - amount)

\* Gas::consume, and the value of the comparison it pays for
Consume(amount, gas, val) ==
    IF amount > gas THEN Fails("took_too_long", gas) ELSE Yields(val, gas - amount)

\* cmp_lt, cmp_gt, cmp_eq
Ordered(cmp, response_value, test_value) ==
    /\ response_value # NaN /\ test_value # NaN
    /\ CASE cmp = "less_than" -> response_value < test_value
         [] cmp = "greater_than" -> response_value > test_value
         [] cmp = "equals" -> response_value = test_value

\* Value::from: a literal that parses is a number.
IsNumeric(literal) == literal.num # None

\* Against a numeric literal a header must be a number too.
CompareHeader(cmp, text, operand, gas) ==
    CASE operand.kind = "none" -> Yields(FALSE, gas)
      [] operand.kind = "glob" ->
            IF cmp = "equals" THEN Consume(5, gas, text \in operand.matches)
            ELSE Yields(FALSE, gas)
      [] operand.kind = "literal" /\ ~ IsNumeric(operand.text) ->
            Consume(1, gas, Ordered(cmp, text.rank, operand.text.rank))
      [] operand.kind = "literal" /\ IsNumeric(operand.text) ->
            IF text.num = None THEN Fails("invalid_type_comparison", gas)
            ELSE Consume(1, gas, Ordered(cmp, text.num, operand.text.num))

\* The coercion goes by the value in the body: a number is compared with the number
\* the literal parses to, a string with its text, and nothing else compares.
CoerceJson(cmp, value, literal, gas) ==
    IF value.kind = "number" /\ literal.num # None
    THEN Consume(1, gas, Ordered(cmp, value.text.num, literal.num))
    ELSE IF value.kind = "string"
         THEN Consume(1, gas, Ordered(cmp, value.text.rank, literal.rank))
         ELSE Fails("invalid_type_comparison", gas)

CompareJson(cmp, value, operand, gas) ==
    CASE operand.kind = "none" -> Yields(FALSE, gas)
      [] operand.kind = "literal" -> CoerceJson(cmp, value, operand.text, gas)
      [] operand.kind = "glob" /\ cmp = "equals" ->
            IF gas >= 5 /\ value.kind # "string" THEN Fails("took_too_long", gas - 5)
            ELSE Consume(5, gas, value.text \in operand.matches)
      [] operand.kind = "glob" /\ cmp # "equals" -> Yields(FALSE, gas)

\* Both kinds of operand: always and never compare nothing, not_equal negates equals.
Decide(cmp, compared, gas) ==
    CASE cmp = "always" -> Yields(TRUE, gas)
      [] cmp = "never" -> Yields(FALSE, gas)
      [] cmp = "not_equal" -> [compared EXCEPT !.val = compared.err = None /\ ~ compared.val]
      [] OTHER -> compared

Comparator(cmp) == IF cmp = "not_equal" THEN "equals" ELSE cmp

\* HeaderOperand::eval
TestHeader(cmp, text, operand, gas) ==
    Decide(cmp, CompareHeader(Comparator(cmp), text, operand, gas), gas)

\* one round of JSONPathOperand::eval
TestJson(cmp, value, operand, gas) ==
    Decide(cmp, CompareJson(Comparator(cmp), value, operand, gas), gas)

------------------------------------------------------------------------------
(* The operations that read the response.                                   *)

CheckStatusCode(op, status, gas) ==
    Consume(1, gas,
        CASE op.cmp = "always" -> TRUE
          [] op.cmp = "never" -> FALSE
          [] op.cmp = "not_equal" -> status # op.value
          [] OTHER -> Ordered(op.cmp, status, op.value))

\* The first header whose key and value pass decides; one whose value is not
\* text (None) cannot.
CheckHeaders(op, headers, gas) ==
    LET Visit(found, header) ==
            IF found.err # None \/ found.val THEN found
            ELSE LET key == TestHeader(op.key_cmp, header.key, op.key, found.gas)
                 IN IF key.err # None \/ ~ key.val THEN key
                    ELSE IF header.value = None THEN Yields(FALSE, key.gas)
                    ELSE TestHeader(op.value_cmp, header.value, op.operand, key.gas)
    IN FoldLeft(Visit, Yields(FALSE, gas), headers)

\* Mutant of ParseBody: a body that is not JSON has nothing to select.
ParseBodyLeniently(body, gas) ==
    IF body = None THEN Yields(FALSE, 0) ELSE Yields(TRUE, gas)

\* serde_json::from_slice
ParseBody(body, gas) ==
    IF body = None THEN Fails("invalid_json_body", gas) ELSE Yields(TRUE, gas)

\* js_path_process: the query costs gas and may fail.
Query(op, body, gas) ==
    IF op.query.fails THEN Fails("invalid_json_path", gas) ELSE Consume(op.query.cost, gas, TRUE)

\* Mutant of CheckSelected: one value that passes is enough.
CheckSelectedAny(op, values, gas) ==
    LET Visit(some, value) ==
            IF some.err # None \/ some.val THEN some
            ELSE TestJson(op.cmp, value, op.operand, some.gas)
    IN FoldLeft(Visit, Yields(FALSE, gas), values)

\* JSONPathOperand::eval: no value is false, and every value must pass.
CheckSelected(op, values, gas) ==
    LET Visit(all, value) ==
            IF all.err # None \/ ~ all.val THEN all
            ELSE TestJson(op.cmp, value, op.operand, all.gas)
    IN FoldLeft(Visit, Yields(values # <<>>, gas), values)

CheckJsonPath(op, body, gas) ==
    LET parsed == ParseBody(body, gas)
        queried == Query(op, body, gas)
    IN CASE parsed.err # None \/ ~ parsed.val -> parsed
         [] parsed.val /\ queried.err # None -> queried
         [] OTHER -> CheckSelected(op, IF op.query.selects THEN body ELSE <<>>, queried.gas)

CheckLeaf(op, response, gas) ==
    CASE op.op = "status_code_check" -> CheckStatusCode(op, response.status, gas)
      [] op.op = "header_check" -> CheckHeaders(op, response.headers, gas)
      [] op.op = "json_path" -> CheckJsonPath(op, response.body, gas)

------------------------------------------------------------------------------
(* Op::eval.  A result also has the reason, the indices of EvalPath down to *)
(* its Leaf or AllChildren, and the path, which an error leaves where it    *)
(* stood.                                                                   *)

\* The reason of a leaf, and of a node that all its children decided, is empty.
EvalResult(val, gas, path) ==
    [err |-> None, val |-> val, gas |-> gas, reason |-> <<>>, path |-> path]

\* One child decided.
ChildIdx(index, val, child) ==
    [child EXCEPT !.val = val, !.reason = <<index>> \o child.reason]

IsLeaf(op) == op.op \in { "status_code_check", "header_check", "json_path" }

\* path.pop, which the early return of an error skips
LeavePath(out, path) == IF out.err = None THEN [out EXCEPT !.path = path] ELSE out

RECURSIVE Eval(_, _, _, _, _)

\* The children of an And are visited until one is false, those of an Or until one
\* is true.
EvalChildren(op, response, gas, path) ==
    LET decisive == op.op = "or"
        Visit(out, i) ==
            IF out.err # None \/ out.val = decisive THEN out
            ELSE LET child == Eval(op.children[i], i - 1, response, out.gas, path)
                 IN CASE child.err # None -> child
                      [] child.err = None /\ child.val = decisive -> ChildIdx(i - 1, decisive, child)
                      [] OTHER -> EvalResult(~ decisive, child.gas, path)
    IN FoldLeft(Visit, EvalResult(~ decisive, gas, path), [i \in DOMAIN op.children |-> i])

Eval(op, idx, response, gas, path) ==
    LET here == Append(path, idx)
        leaf == CheckLeaf(op, response, gas)
        operand == Eval(op.operand, 0, response, gas, here)
    IN LeavePath(
        CASE op.op \in { "and", "or" } -> EvalChildren(op, response, gas, here)
          [] op.op = "not" ->
                IF operand.err # None THEN operand ELSE ChildIdx(0, ~ operand.val, operand)
          [] IsLeaf(op) -> [EvalResult(leaf.val, leaf.gas, here) EXCEPT !.err = leaf.err],
        path)

\* Mutant of SetRuntimePath: the path is popped once too often.
SetRuntimePathShort(out) ==
    [out EXCEPT !.path = IF out.err # None /\ out.path # <<>> THEN Front(out.path) ELSE <<>>]

\* RuntimeError::set_path keeps the path of two of the errors.
SetRuntimePath(out) ==
    [out EXCEPT !.path =
        IF out.err \in { "invalid_json_path", "invalid_type_comparison" } THEN out.path ELSE <<>>]

EvalAssertion(root, response, assertion_complexity) ==
    SetRuntimePath(Eval(root, 0, response, assertion_complexity, <<>>))

RECURSIVE ExtractFailureData(_, _)

\* Mutant of ExtractFailureData: the index counts from one.
ExtractFailureDataOff(path, op) ==
    IF path = <<>> \/ IsLeaf(op) THEN op
    ELSE IF op.op = "not" THEN [op EXCEPT !.operand = ExtractFailureData(Tail(path), op.operand)]
    ELSE LET i == IF Head(path) = 0 THEN 1 ELSE Head(path)
         IN [op EXCEPT !.children = << ExtractFailureData(Tail(path), op.children[i]) >>]

ExtractFailureData(path, op) ==
    IF path = <<>> THEN op
    ELSE IF op.op = "not" THEN [op EXCEPT !.operand = ExtractFailureData(Tail(path), op.operand)]
    ELSE [op EXCEPT !.children =
              << ExtractFailureData(Tail(path), op.children[Head(path) + 1]) >>]

------------------------------------------------------------------------------
(* compile_op: an error, the operations left of the budget, and the path.   *)

\* TryFrom of the operands: a glob that relay_pattern refuses
OperandError(operand) ==
    IF operand.kind = "glob" /\ operand.bad THEN "invalid_glob" ELSE None

\* From<JsonPathError>: what parse_json_path refuses
FromJsonPathError(error) ==
    CASE error = None -> None
      [] error = "pest_error" -> "json_path_parser"
      [] error = "invalid_glob" -> "invalid_glob"
      [] OTHER -> "invalid_json_path"

LeafError(op) ==
    CASE op.op = "status_code_check" -> None
      [] op.op = "header_check" ->
            IF OperandError(op.key) # None THEN OperandError(op.key) ELSE OperandError(op.operand)
      [] op.op = "json_path" ->
            IF op.query.error # None THEN FromJsonPathError(op.query.error) ELSE OperandError(op.operand)

\* Mutant of DecOps: one operation too many.
DecOpsLate(out) ==
    IF out.left >= 0 THEN [out EXCEPT !.left = @ - 1]
    ELSE [out EXCEPT !.err = "too_many_operations"]

DecOps(out) ==
    IF out.left > 0 THEN [out EXCEPT !.left = @ - 1]
    ELSE [out EXCEPT !.err = "too_many_operations"]

RECURSIVE CompileOp(_, _, _)

VisitChildren(children, out) ==
    FoldLeft(LAMBDA done, i : IF done.err # None THEN done ELSE CompileOp(children[i], i - 1, done),
             out, [i \in DOMAIN children |-> i])

CompileOp(op, idx, out) ==
    LET entered == DecOps([out EXCEPT !.path = Append(@, idx)])
    IN LeavePath(
        CASE entered.err # None -> entered
          [] entered.err = None /\ op.op \in { "and", "or" } -> VisitChildren(op.children, entered)
          [] entered.err = None /\ op.op = "not" -> CompileOp(op.operand, 0, entered)
          [] entered.err = None /\ IsLeaf(op) -> [entered EXCEPT !.err = LeafError(op)],
        out.path)

\* compile: every CompilationError keeps its path.
Compile(root, max_assertion_ops) ==
    CompileOp(root, 0, [err |-> None, left |-> max_assertion_ops, path |-> <<>>])

------------------------------------------------------------------------------
(* A check's use of its assertion.                                          *)

VARIABLES
    root,              \* Assertion.root
    response,
    max_ops,           \* max_assertion_ops
    complexity,        \* assertion_complexity
    stage,
    compiled,          \* the outcome of compile
    outcome,           \* the outcome of eval
    failure_data       \* assertion_failure_data

vars == <<root, response, max_ops, complexity, stage, compiled, outcome, failure_data>>

Init ==
    /\ root \in Roots /\ response \in Responses
    /\ max_ops \in MaxOps /\ complexity \in Complexities
    /\ stage = "compile"
    /\ compiled = None /\ outcome = None /\ failure_data = None

CompileAssertion ==
    /\ stage = "compile"
    /\ compiled' = Compile(root, max_ops)
    /\ stage' = IF compiled'.err = None THEN "eval" ELSE "rejected"
    /\ UNCHANGED <<root, response, max_ops, complexity, outcome, failure_data>>

EvaluateAssertion ==
    /\ stage = "eval"
    /\ outcome' = EvalAssertion(root, response, complexity)
    /\ failure_data' = IF outcome'.err = None /\ ~ outcome'.val
                       THEN ExtractFailureData(outcome'.reason, root) ELSE None
    /\ stage' = "judged"
    /\ UNCHANGED <<root, response, max_ops, complexity, compiled>>

Next == CompileAssertion \/ EvaluateAssertion

Spec == Init /\ [][Next]_vars

TypeOK ==
    /\ max_ops \in MaxOps /\ complexity \in Complexities
    /\ stage \in { "compile", "rejected", "eval", "judged" }
    /\ stage \in { "eval", "judged" } => compiled.err = None
    /\ stage = "rejected" => compiled.err \in CompilationError
    /\ stage = "judged" => outcome.err \in RuntimeError \cup {None} /\ outcome.gas \in 0 .. complexity

------------------------------------------------------------------------------
(* The operations of an assertion in the order compile meets them, each with*)
(* its path.                                                                *)

RECURSIVE Operations(_, _)

Operations(op, path) ==
    LET children == CASE op.op \in { "and", "or" } -> op.children
                      [] op.op = "not" -> << op.operand >>
                      [] OTHER -> <<>>
    IN << [op |-> op, path |-> path] >>
       \o FlattenSeq([i \in DOMAIN children |-> Operations(children[i], Append(path, i - 1))])

\* What an assertion means: no gas, no order, and a comparison of things that do
\* not compare is false.
Holds(tested) == tested.err = None /\ tested.val

RECURSIVE Means(_, _, _)

\* unknown is what a leaf says that cannot be evaluated at all
Means(op, resp, unknown) ==
    CASE op.op = "and" -> \A i \in DOMAIN op.children : Means(op.children[i], resp, unknown)
      [] op.op = "or" -> \E i \in DOMAIN op.children : Means(op.children[i], resp, unknown)
      [] op.op = "not" -> ~ Means(op.operand, resp, unknown)
      [] IsLeaf(op) /\ CheckLeaf(op, resp, 1000).err # None -> unknown
      [] op.op = "status_code_check" /\ CheckLeaf(op, resp, 1000).err = None ->
            \/ op.cmp = "always"
            \/ op.cmp = "less_than" /\ resp.status < op.value
            \/ op.cmp = "greater_than" /\ resp.status > op.value
            \/ op.cmp = "equals" /\ resp.status = op.value
            \/ op.cmp = "not_equal" /\ resp.status # op.value
      [] op.op = "header_check" /\ CheckLeaf(op, resp, 1000).err = None ->
            \E i \in DOMAIN resp.headers :
                /\ Holds(TestHeader(op.key_cmp, resp.headers[i].key, op.key, 5))
                /\ resp.headers[i].value # None
                /\ Holds(TestHeader(op.value_cmp, resp.headers[i].value, op.operand, 5))
      [] op.op = "json_path" /\ CheckLeaf(op, resp, 1000).err = None ->
            /\ op.query.selects /\ resp.body \notin { None, <<>> }
            /\ \A i \in DOMAIN resp.body :
                    Holds(TestJson(op.cmp, resp.body[i], op.operand, 5))

------------------------------------------------------------------------------
(* Properties.                                                              *)

\* compile accepts an assertion if and only if it has at most max_assertion_ops
\* operations, all well formed; otherwise its error has the path of the first
\* operation, in the order they are written, that is one too many or malformed.
RejectionNamesCulprit ==
    stage # "compile" =>
        LET ops == Operations(root, <<0>>)
            culprits == { i \in DOMAIN ops :
                            \/ i > max_ops
                            \/ IsLeaf(ops[i].op) /\ LeafError(ops[i].op) # None }
        IN IF culprits = {} THEN compiled.err = None /\ compiled.left = max_ops - Len(ops)
           ELSE LET first == CHOOSE i \in culprits : \A j \in culprits : i <= j
                IN compiled.err # None /\ compiled.path = ops[first].path

\* A verdict is what the assertion means, whatever the leaves that eval never
\* reached, or could not have evaluated, would have said.
VerdictIsTheMeaning ==
    stage = "judged" /\ outcome.err = None =>
        \A unknown \in BOOLEAN : outcome.val = Means(root, response, unknown)

\* The path of an error that has one leads to a leaf that fails that way by itself.
ErrorNamesItsLeaf ==
    stage = "judged" /\ outcome.err \in { "invalid_json_path", "invalid_type_comparison" } =>
        \E i \in DOMAIN Operations(root, <<0>>) :
            LET at == Operations(root, <<0>>)[i]
            IN /\ at.path = outcome.path /\ IsLeaf(at.op)
               /\ CheckLeaf(at.op, response, 1000).err = outcome.err

\* The gas decides whether there is a verdict, never which: with more of it the
\* verdict is the same.
GasNeverFlipsVerdict ==
    stage = "judged" /\ outcome.err = None =>
        \A more \in Complexities : more >= complexity =>
            LET again == EvalAssertion(root, response, more)
            IN again.err = None /\ again.val = outcome.val /\ again.reason = outcome.reason

\* The failure data of a result are an assertion that fails on the same response
\* for the same reason, within the same gas: they explain the failure.
FailureDataExplain ==
    failure_data # None =>
        LET again == EvalAssertion(failure_data, response, complexity)
        IN again.err = None /\ ~ again.val

\* A JSON document that read_body_bounded cuts off is not JSON, so a verdict reached
\* without the rest of it is the one the whole document would have had.
CutBodyNeverJudged ==
    stage = "judged" /\ outcome.err = None /\ response.body = None =>
        \A whole \in Responses :
            LET again == EvalAssertion(root, [response EXCEPT !.body = whole.body], complexity)
            IN again.err = None /\ again.val = outcome.val

\* RuntimeError says "Assertion took too long" of one that would pass or fail given
\* the gas.
TookTooLongMeansGas ==
    stage = "judged" /\ outcome.err = "took_too_long" =>
        EvalAssertion(root, response, 1000).err # "took_too_long"

===============================================================================
