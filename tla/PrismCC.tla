------------------------------ MODULE PrismCC ------------------------------
(***************************************************************************)
(* The PrismCC compiler: one pass from the tokens of a source to the bytes *)
(* of an image.  Every operator takes the compiler's record and returns it *)
(* as the function of that name leaves it; once error is set nothing more  *)
(* is read or emitted.  The lexer is left out: a token is its type and the *)
(* number, text or name it carries.                                        *)
(***************************************************************************)
EXTENDS Integers, SequencesExt

CONSTANTS
    LocalsMax,      \* PRISMCC_MAX_LOCALS and BCVM_LOCALS_MAX
    CodeMax,        \* PRISMCC_MAX_CODE_SIZE
    DataMax,        \* PRISMCC_MAX_DATA_SIZE
    FloatScale      \* of the fixed-point numbers: 1000 in the code

Op == [PUSH_I32 |-> 1, LOAD_LOCAL |-> 2, STORE_LOCAL |-> 3, ADD |-> 4, SUB |-> 5,
       MUL |-> 6, DIV |-> 7, PRINT_INT |-> 9, PRINT_NL |-> 10, POP |-> 11, RET |-> 12,
       NEG |-> 14, JMP |-> 15, JMP_IF_ZERO |-> 16, EQ |-> 17, NE |-> 18, LT |-> 19,
       LE |-> 20, GT |-> 21, GE |-> 22, CALL_ARGS |-> 24, READ_INT |-> 25,
       READ_TEXT |-> 27, PRINT_INPUT |-> 28, INPUT_LEN |-> 29, INPUT_EQ |-> 30,
       PRINT_STR_VAL |-> 31, STR_LEN |-> 32, STR_EQ |-> 33, PRINT_COLOR_STR_VAL |-> 34,
       ARR_NEW |-> 35, ARR_GET |-> 36, ARR_SET |-> 37, FILE_READ |-> 38,
       FILE_WRITE |-> 39, FILE_APPEND |-> 40, FILE_EXISTS |-> 41, MOD |-> 42,
       SET_FULLSCREEN |-> 43, APP_SHOULD_QUIT |-> 44, APP_EXIT |-> 45, DRAW_PIXEL |-> 46,
       PRINT_CHAR |-> 47, FMUL |-> 48, FDIV |-> 49, PRINT_FLOAT |-> 50,
       DRIVER_SERIAL_WRITE |-> 51, DRIVER_SERIAL_READ |-> 52, DRIVER_PORT_READ8 |-> 53,
       DRIVER_PORT_WRITE8 |-> 54, DRIVER_MMIO_READ32 |-> 55, DRIVER_MMIO_WRITE32 |-> 56,
       DRIVER_SHOULD_STOP |-> 57]

IntegerTypes ==
    {"int", "int8", "int16", "int32", "uint8", "uint16", "uint32", "char"}

VariableTypes == IntegerTypes \cup {"string", "float"}

(* LOCAL_TYPE_VOID and LOCAL_TYPE_FLOAT are the same number.               *)
Void == "float"

LocalType(token) ==
    CASE token \in {"string", "float"} -> token
      [] token = "void" -> Void
      [] OTHER -> "int"

TypesCompatible(target, given) ==
    target = given \/ (target = "float" /\ given = "int")

-----------------------------------------------------------------------------
(* The token stream.                                                       *)
Fail(c) == [c EXCEPT !.error = TRUE]

(* What follows, once c has been reached without an error.                 *)
Then(c, Follow(_)) == IF c.error THEN c ELSE Follow(c)

(* What follows is given x, which is so evaluated once, and after an error *)
(* as well.                                                                *)
With(x, Follow(_)) == Follow(x)

Require(c, holds) == IF c.error \/ holds THEN c ELSE Fail(c)

NextToken(c) ==
    IF c.error \/ c.at = Len(c.source) THEN c ELSE [c EXCEPT !.at = @ + 1]

Kind(c) == c.source[c.at].kind

Value(c) == c.source[c.at].value

Expect(c, kind) == NextToken(Require(c, Kind(c) = kind))

(* A name is read and passed; what it was is read from c before.           *)
PassName(c) == Expect(c, "name")

-----------------------------------------------------------------------------
(* What is emitted, little end first.                                      *)
U16(n) == <<n % 256, n \div 256>>

U32(n) == <<n % 256, (n \div 256) % 256, (n \div 65536) % 256, n \div 16777216>>

Emit(c, bytes) ==
    IF c.error THEN c
    ELSE IF Len(c.code) + Len(bytes) > CodeMax THEN Fail(c)
    ELSE [c EXCEPT !.code = @ \o bytes]

Push(c, n) == Emit(c, <<Op.PUSH_I32>> \o U32(n))

LoadLocal(c, index) == Emit(c, <<Op.LOAD_LOCAL>> \o U16(index))

StoreLocal(c, index) == Emit(c, <<Op.STORE_LOCAL>> \o U16(index))

Here(c) == Len(c.code)

(* The offset of the four bytes that the last placeholder left open.       *)
Hole(c) == Len(c.code) - 4

PlaceJump(c, op) == Emit(c, <<op>> \o U32(0))

PatchU32(c, offset, n) ==
    IF c.error \/ offset + 4 > Len(c.code) THEN Fail(c)
    ELSE [c EXCEPT !.code = SubSeq(@, 1, offset) \o U32(n) \o SubSeq(@, offset + 5, Len(@))]

AddData(c, text) ==
    IF c.error \/ Len(c.data) + Len(text) > DataMax THEN Fail(c)
    ELSE [c EXCEPT !.data = @ \o text]

-----------------------------------------------------------------------------
(* Locals, structs, functions and the calls that wait for an address.      *)
IndexOf(entries, name) == SelectInSeq(entries, LAMBDA e : e.name = name)

FindLocal(c, name) == IndexOf(c.locals, name)

IsLocal(c, name) == FindLocal(c, name) # 0

LocalOf(c, name) == c.locals[FindLocal(c, name)]

(* Locals are numbered from 0 in the frame.                                *)
LocalIndex(c, name) == FindLocal(c, name) - 1

AddLocal(c, name, type, element, struct) ==
    IF c.error \/ Len(c.locals) >= LocalsMax \/ IsLocal(c, name) THEN Fail(c)
    ELSE [c EXCEPT !.locals = Append(@,
            [name |-> name, type |-> type, element |-> element, struct |-> struct])]

FindOverloadByName(c, name, types) ==
    SelectInSeq(c.functions, LAMBDA f : f.name = name)

FindOverload(c, name, types) ==
    SelectInSeq(c.functions, LAMBDA f : f.name = name /\ f.params = types)

AddFunction(c, name, types, returns) ==
    IF c.error \/ FindOverload(c, name, types) # 0 THEN Fail(c)
    ELSE [c EXCEPT !.functions = Append(@, [name |-> name, params |-> types,
                                            returns |-> returns, entry |-> Here(c)])]

EmitCall(c, name, types, expectsValue) ==
    Then(Emit(c, <<Op.CALL_ARGS>> \o U32(0) \o <<Len(types)>>),
         LAMBDA d : [d EXCEPT !.patches = Append(@,
            [callee |-> name, at |-> Here(d) - 5, types |-> types, value |-> expectsValue])])

(* The type of an expression, told from its first tokens alone.            *)
GuessType(c) ==
    LET next == NextToken(c)
        third == NextToken(next)
        FieldType(local) ==
            IF Kind(next) = "." /\ Kind(third) = "name"
               /\ IndexOf(c.structs[local.struct].fields, Value(third)) # 0
            THEN LET fields == c.structs[local.struct].fields
                 IN  fields[IndexOf(fields, Value(third))].type
            ELSE "struct"
    IN  CASE Kind(c) \in {"+", "-"} /\ Kind(next) = "float_number" -> "float"
          [] Kind(c) = "float_number" -> "float"
          [] Kind(c) \in {"text", "read_text", "file_read"} -> "string"
          [] Kind(c) = "name" /\ IsLocal(c, Value(c)) ->
               LET local == LocalOf(c, Value(c))
               IN  CASE local.type = "array" /\ Kind(next) = "[" -> local.element
                     [] local.type = "struct" -> FieldType(local)
                     [] OTHER -> local.type
          [] OTHER -> "int"

-----------------------------------------------------------------------------
(* The calls of built-in functions: the types their arguments must start   *)
(* with, and what follows the arguments.                                   *)
Builtin(args, ops) == [args |-> args, ops |-> ops, driver |-> FALSE]

DriverApi(args, op) == [args |-> args, ops |-> <<op>>, driver |-> TRUE]

ValueBuiltins == [
    file_read |-> Builtin(<<"string">>, <<Op.FILE_READ>>),
    file_exists |-> Builtin(<<"string">>, <<Op.FILE_EXISTS>>),
    string_len |-> Builtin(<<"any">>, <<Op.STR_LEN>>),
    string_eq |-> Builtin(<<"any", "any">>, <<Op.STR_EQ>>),
    input_len |-> Builtin(<<>>, <<Op.INPUT_LEN>>),
    input_int |-> Builtin(<<>>, <<Op.READ_INT>>),
    app_should_quit |-> Builtin(<<>>, <<Op.APP_SHOULD_QUIT>>)]

DriverBuiltins == [
    driver_serial_write |-> DriverApi(<<"string">>, Op.DRIVER_SERIAL_WRITE),
    driver_serial_read |-> DriverApi(<<>>, Op.DRIVER_SERIAL_READ),
    driver_io_read8 |-> DriverApi(<<"int">>, Op.DRIVER_PORT_READ8),
    driver_io_write8 |-> DriverApi(<<"int", "int">>, Op.DRIVER_PORT_WRITE8),
    driver_mmio_read32 |-> DriverApi(<<"int">>, Op.DRIVER_MMIO_READ32),
    driver_mmio_write32 |-> DriverApi(<<"int", "int">>, Op.DRIVER_MMIO_WRITE32),
    driver_should_stop |-> DriverApi(<<>>, Op.DRIVER_SHOULD_STOP)]

StatementBuiltins == [
    print_int |-> Builtin(<<"any">>, <<Op.PRINT_INT, Op.PRINT_NL>>),
    print_char |-> Builtin(<<"int">>, <<Op.PRINT_CHAR>>),
    print_color |-> Builtin(<<"any", "string">>, <<Op.PRINT_COLOR_STR_VAL, Op.PRINT_NL>>),
    file_write |-> Builtin(<<"string", "string">>, <<Op.FILE_WRITE, Op.POP>>),
    file_append |-> Builtin(<<"string", "string">>, <<Op.FILE_APPEND, Op.POP>>),
    set_fullscreen |-> Builtin(<<"any">>, <<Op.SET_FULLSCREEN>>),
    draw_pixel |-> Builtin(<<"any", "any", "any">>, <<Op.DRAW_PIXEL>>),
    app_exit |-> Builtin(<<>>, <<Op.APP_EXIT>>),
    print_input |-> Builtin(<<>>, <<Op.PRINT_INPUT, Op.PRINT_NL>>)]

-----------------------------------------------------------------------------
(* Expressions.                                                            *)
(* The functions that call each other in a circle, by the rule they read.  *)
RECURSIVE Parse(_, _)

(* Each argument with the type guessed for it, up to the closing one.      *)
RECURSIVE ArgumentsFrom(_, _)
ArgumentsFrom(c, types) ==
    With(Parse("expression", c), LAMBDA rest :
        LET seen == Append(types, GuessType(c))
        IN  IF rest.error \/ Kind(rest) # "," THEN [c |-> rest, types |-> seen]
            ELSE ArgumentsFrom(NextToken(rest), seen))

PassedArguments(c) ==
    IF c.error \/ Kind(c) = ")" THEN [c |-> c, types |-> <<>>] ELSE ArgumentsFrom(c, <<>>)

CallAfterName(c, name, discard) ==
    With(PassedArguments(Expect(c, "(")), LAMBDA read :
        LET called == EmitCall(Expect(read.c, ")"), name, read.types, ~discard)
        IN  IF discard THEN Emit(called, <<Op.POP>>) ELSE called)

(* The arguments of a built-in, each checked once it has been read.        *)
BuiltinArguments(c, kinds) ==
    LET Argument(d, i) ==
            Then(IF i = 1 THEN d ELSE Expect(d, ","), LAMBDA start :
                Require(Parse("expression", start), kinds[i] \in {"any", GuessType(start)}))
    IN  FoldLeft(Argument, c, [i \in DOMAIN kinds |-> i])

BuiltinCall(c, builtin) ==
    LET open == Expect(NextToken(Require(c, ~builtin.driver \/ c.driver)), "(")
    IN  Expect(BuiltinArguments(open, builtin.args), ")")

ReadText(c) ==
    LET Prompt(d) == IF Kind(d) = ")" THEN d ELSE Emit(Parse("expression", d), <<Op.PRINT_STR_VAL>>)
    IN  Emit(Expect(Then(Expect(NextToken(c), "("), Prompt), ")"), <<Op.READ_TEXT>>)

InputEq(c) ==
    Then(Expect(NextToken(c), "("), LAMBDA d :
        Then(AddData(Require(d, Kind(d) = "text"), Value(d)), LAMBDA stored :
            Emit(Expect(NextToken(stored), ")"),
                 <<Op.INPUT_EQ>> \o U16(Len(d.data)) \o U16(Len(Value(d))))))

TextLiteral(c) ==
    LET stored == AddData(c, Value(c))
    IN  NextToken(Push(stored, Len(c.data) * 65536 + Len(Value(c))))

(* ++ and -- of an int local: the old value stays below the new one for    *)
(* the postfix form.                                                       *)
LocalUpdate(c, name, op, keep, postfix) ==
    Then(Require(c, IsLocal(c, name) /\ LocalOf(c, name).type = "int"), LAMBDA d :
        LET index == LocalIndex(d, name)
            old == IF postfix THEN LoadLocal(d, index) ELSE d
            stored == StoreLocal(Emit(Push(LoadLocal(old, index), 1), <<op>>), index)
        IN  IF keep /\ ~postfix THEN LoadLocal(stored, index) ELSE stored)

FieldIndex(c, name, field) == IndexOf(c.structs[LocalOf(c, name).struct].fields, field) - 1

(* .field after the name of a struct: the name and field are passed.       *)
PassField(c, name) ==
    Then(Require(c, IsLocal(c, name) /\ LocalOf(c, name).type = "struct"), LAMBDA d :
        Then(Expect(d, "."), LAMBDA field :
            PassName(Require(field, Kind(field) = "name"
                                    /\ FieldIndex(c, name, Value(field)) >= 0))))

(* The index of what PassField read, the token before.                     *)
FieldRead(c, name) == FieldIndex(c, name, c.source[c.at - 1].value)

FieldValue(c, name) ==
    Then(PassField(c, name), LAMBDA passed :
        Emit(Push(LoadLocal(passed, LocalIndex(c, name)), FieldRead(passed, name)),
             <<Op.ARR_GET>>))

(* name[index], up to the closing bracket.                                 *)
Indexed(c, name) ==
    Then(Require(c, IsLocal(c, name) /\ LocalOf(c, name).type = "array"), LAMBDA array :
        Expect(Parse("expression", Expect(LoadLocal(array, LocalIndex(c, name)), "[")), "]"))

NamedValue(c) ==
    LET name == Value(c)
        next == NextToken(c)
        Update(op) == LocalUpdate(NextToken(next), name, op, TRUE, TRUE)
    IN  CASE Kind(next) = "(" -> CallAfterName(next, name, FALSE)
          [] ~IsLocal(c, name) -> Fail(c)
          [] Kind(next) = "." -> FieldValue(next, name)
          [] Kind(next) = "[" -> Emit(Indexed(next, name), <<Op.ARR_GET>>)
          [] LocalOf(c, name).type = "array" -> Fail(c)
          [] Kind(next) = "++" -> Update(Op.ADD)
          [] Kind(next) = "--" -> Update(Op.SUB)
          [] OTHER -> LoadLocal(next, LocalIndex(c, name))

ParsePrimary(c) ==
    LET kind == Kind(c)
    IN  CASE kind \in DOMAIN ValueBuiltins ->
               Emit(BuiltinCall(c, ValueBuiltins[kind]), ValueBuiltins[kind].ops)
          [] kind \in DOMAIN DriverBuiltins ->
               Emit(BuiltinCall(c, DriverBuiltins[kind]), DriverBuiltins[kind].ops)
          [] kind = "read_text" -> ReadText(c)
          [] kind = "input_eq" -> InputEq(c)
          [] kind \in {"number", "float_number"} -> NextToken(Push(c, Value(c)))
          [] kind = "text" -> TextLiteral(c)
          [] kind = "name" -> NamedValue(c)
          [] kind = "(" -> Expect(Parse("expression", NextToken(c)), ")")
          [] OTHER -> Fail(c)

PrefixUpdate(c, op) ==
    LET name == NextToken(c)
    IN  IF Kind(name) # "name" THEN Fail(c)
        ELSE LocalUpdate(NextToken(name), Value(name), op, TRUE, FALSE)

ParseUnary(c) ==
    CASE c.error -> c
      [] Kind(c) = "+" -> Parse("unary", NextToken(c))
      [] Kind(c) = "-" -> Emit(Parse("unary", NextToken(c)), <<Op.NEG>>)
      [] Kind(c) = "++" -> PrefixUpdate(c, Op.ADD)
      [] Kind(c) = "--" -> PrefixUpdate(c, Op.SUB)
      [] OTHER -> Parse("primary", c)

Both(left, right) == left = "float" /\ right = "float"

Neither(left, right) == left # "float" /\ right # "float"

FactorOp(op, left, right) ==
    IF Both(left, right)
    THEN IF op = "*" THEN Op.FMUL ELSE Op.FDIV
    ELSE CASE op = "*" -> Op.MUL [] op = "/" -> Op.DIV [] OTHER -> Op.MOD

RECURSIVE FactorsFrom(_, _)
FactorsFrom(c, left) ==
    IF c.error \/ Kind(c) \notin {"*", "/", "%"} THEN c
    ELSE With(GuessType(NextToken(c)), LAMBDA right :
        LET sound == Require(Parse("unary", NextToken(c)),
                             Neither(left, right) \/ (Both(left, right) /\ Kind(c) # "%"))
        IN  FactorsFrom(Emit(sound, <<FactorOp(Kind(c), left, right)>>),
                        IF Both(left, right) THEN "float" ELSE "int"))

ParseTerm(c) == FactorsFrom(Parse("unary", c), GuessType(c))

RECURSIVE TermsFrom(_, _)
TermsFrom(c, left) ==
    IF c.error \/ Kind(c) \notin {"+", "-"} THEN c
    ELSE With(GuessType(NextToken(c)), LAMBDA right :
        LET sound == Require(Parse("term", NextToken(c)), Neither(left, right) \/ Both(left, right))
        IN  TermsFrom(Emit(sound, <<IF Kind(c) = "+" THEN Op.ADD ELSE Op.SUB>>),
                      IF Both(left, right) THEN "float" ELSE "int"))

ParseAdditive(c) == TermsFrom(Parse("term", c), GuessType(c))

Comparisons == ("<" :> Op.LT) @@ ("<=" :> Op.LE) @@ (">" :> Op.GT) @@ (">=" :> Op.GE)

RECURSIVE ComparedFrom(_)
ComparedFrom(c) ==
    IF c.error \/ Kind(c) \notin DOMAIN Comparisons THEN c
    ELSE ComparedFrom(Emit(Parse("additive", NextToken(c)), <<Comparisons[Kind(c)]>>))

ParseRelational(c) == ComparedFrom(Parse("additive", c))

RECURSIVE EquatedFrom(_)
EquatedFrom(c) ==
    IF c.error \/ Kind(c) \notin {"==", "!="} THEN c
    ELSE EquatedFrom(Emit(Parse("relational", NextToken(c)),
                          <<IF Kind(c) = "==" THEN Op.EQ ELSE Op.NE>>))

ParseExpression(c) == Then(c, LAMBDA d : EquatedFrom(Parse("relational", d)))

-----------------------------------------------------------------------------
(* Statements.                                                             *)
(* An expression whose value goes where target is expected.                *)
ValueFor(c, target) ==
    Then(c, LAMBDA d :
        With(Require(Parse("expression", d), TypesCompatible(target, GuessType(d))), LAMBDA read :
            IF target = "float" /\ GuessType(d) = "int"
            THEN Emit(Push(read, FloatScale), <<Op.MUL>>)
            ELSE read))

(* [size] after the name of a declaration.                                 *)
PassSize(c) ==
    LET size == NextToken(c)
    IN  IF Kind(size) # "number" THEN Fail(size)
        ELSE Expect(NextToken(Require(size, Value(size) > 0)), "]")

SizeRead(c) == Value(NextToken(c))

(* What type name or type name[size] declares: c is at the type, sized     *)
(* tells whether there is a size.                                          *)
Declared(c, reuse, sized) ==
    LET name == NextToken(c)
        type == LocalType(Kind(c))
        effective == IF sized THEN "array" ELSE type
        Same(local) == local.type = effective /\ (sized => local.element = type)
        Found(d) ==
            IF reuse /\ IsLocal(d, Value(name))
            THEN Require(d, Same(LocalOf(d, Value(name))))
            ELSE AddLocal(d, Value(name), effective, IF sized THEN type ELSE "int", 0)
        Initial(d) ==
            CASE sized -> Emit(Require(d, Kind(d) # "="),
                               <<Op.ARR_NEW>> \o U16(SizeRead(PassName(name))))
              [] Kind(d) = "=" -> ValueFor(NextToken(d), type)
              [] OTHER -> Push(d, 0)
        Stored(d) == StoreLocal(d, LocalIndex(d, Value(name)))
    IN  Then(Then(Then(IF sized THEN PassSize(PassName(name)) ELSE PassName(name),
                       Found), Initial), Stored)

(* reuse is the first clause of a for, where a local of the same type may  *)
(* be there already.                                                       *)
Declaration(c, reuse) ==
    Then(PassName(NextToken(c)), LAMBDA d : Declared(c, reuse, Kind(d) = "["))

(* struct S name or struct S name[size].                                   *)
StructVariable(c) ==
    LET struct == NextToken(c)
        name == PassName(struct)
        def == IndexOf(c.structs, Value(struct))
        Sized(d) == Kind(d) = "["
        Made(d, size, type, element) ==
            Then(AddLocal(d, Value(name), type, element, def), LAMBDA added :
                StoreLocal(Emit(Require(added, Kind(added) # "="),
                                <<Op.ARR_NEW>> \o U16(size)),
                           LocalIndex(added, Value(name))))
    IN  Then(Require(name, def # 0), LAMBDA known : Then(PassName(known), LAMBDA after :
            IF Sized(after) THEN Made(PassSize(after), SizeRead(after), "array", "struct")
            ELSE Made(after, Len(c.structs[def].fields), "struct", "int")))

Assignment(c, name) ==
    Then(Require(c, IsLocal(c, name) /\ LocalOf(c, name).type # "array"), LAMBDA known :
        StoreLocal(ValueFor(Expect(known, "="), LocalOf(c, name).type), LocalIndex(c, name)))

ArrayStore(c, name) ==
    Then(Expect(Indexed(c, name), "="), LAMBDA d :
        Emit(ValueFor(d, LocalOf(c, name).element), <<Op.ARR_SET>>))

(* The index of the local is emitted in one byte, where LOAD_LOCAL has two.*)
StructStore(c, name) ==
    Then(PassField(c, name), LAMBDA passed : Then(Expect(passed, "="), LAMBDA set :
        LET object == Emit(set, <<Op.LOAD_LOCAL, LocalIndex(c, name)>>)
        IN  Emit(Parse("expression", Push(object, FieldRead(passed, name))), <<Op.ARR_SET>>)))

(* What may follow a name, in a statement and in a clause of a for.        *)
NameStatement(c) ==
    LET name == Value(c)
        next == NextToken(c)
        Update(op) == LocalUpdate(NextToken(next), name, op, FALSE, FALSE)
    IN  CASE Kind(next) = "=" -> Assignment(next, name)
          [] Kind(next) = "." -> StructStore(next, name)
          [] Kind(next) = "[" -> ArrayStore(next, name)
          [] Kind(next) = "(" -> CallAfterName(next, name, TRUE)
          [] Kind(next) = "++" -> Update(Op.ADD)
          [] Kind(next) = "--" -> Update(Op.SUB)
          [] OTHER -> Fail(c)

ForClause(c, first) ==
    CASE Kind(c) \in VariableTypes -> Declaration(Require(c, first), TRUE)
      [] Kind(c) = "struct" -> StructVariable(Require(c, first))
      [] Kind(c) = "name" -> NameStatement(c)
      [] OTHER -> Emit(Parse("expression", c), <<Op.POP>>)

RECURSIVE StatementsFrom(_)
StatementsFrom(c) ==
    IF c.error \/ Kind(c) \in {"}", "end"} THEN c ELSE StatementsFrom(Parse("statement", c))

Block(c) == Expect(StatementsFrom(Expect(c, "{")), "}")

(* keyword ( expression )                                                  *)
Condition(c) == Expect(Parse("expression", Expect(NextToken(c), "(")), ")")

IfStatement(c) ==
    With(PlaceJump(Condition(c), Op.JMP_IF_ZERO), LAMBDA tested :
        LET Otherwise(over) ==
                With(Parse("statement", NextToken(PatchU32(over, Hole(tested), Here(over)))),
                     LAMBDA other : PatchU32(other, Hole(over), Here(other)))
            Chosen(d) == IF Kind(d) = "else" THEN Otherwise(PlaceJump(d, Op.JMP))
                         ELSE PatchU32(d, Hole(tested), Here(d))
        IN  Then(Parse("statement", tested), Chosen))

WhileStatement(c) ==
    With(PlaceJump(Condition(c), Op.JMP_IF_ZERO), LAMBDA tested :
        With(Emit(Parse("statement", tested), <<Op.JMP>> \o U32(Here(c))), LAMBDA body :
            PatchU32(body, Hole(tested), Here(body))))

(* Condition, increment and body lie in this order: the condition jumps    *)
(* over the increment, the body back to it.                                *)
ForStatement(c) ==
    LET Clause(d, first, end) ==
            Then(d, LAMBDA e : Expect(IF Kind(e) = end THEN e ELSE ForClause(e, first), end))
        Test(d) == Expect(IF Kind(d) = ";" THEN Push(d, 1) ELSE Parse("expression", d), ";")
        Body(over, again) ==
            Emit(Parse("statement", PatchU32(again, Hole(over), Here(again))),
                 <<Op.JMP>> \o U32(Here(over)))
    IN  Then(Clause(Expect(NextToken(c), "("), TRUE, ";"), LAMBDA init :
        With(PlaceJump(Test(init), Op.JMP_IF_ZERO), LAMBDA exit :
        With(PlaceJump(exit, Op.JMP), LAMBDA over :
        With(Emit(Clause(over, FALSE, ")"), <<Op.JMP>> \o U32(Here(init))), LAMBDA again :
        With(Body(over, again), LAMBDA back : PatchU32(back, Hole(exit), Here(back)))))))

PrintStatement(c) ==
    Then(Expect(NextToken(c), "("), LAMBDA d :
        Emit(Expect(Expect(Parse("expression", d), ")"), ";"),
             <<CASE GuessType(d) = "string" -> Op.PRINT_STR_VAL
                 [] GuessType(d) = "float" -> Op.PRINT_FLOAT
                 [] OTHER -> Op.PRINT_INT, Op.PRINT_NL>>))

ReturnStatement(c) ==
    LET value == NextToken(c)
        ended == IF c.returns = Void THEN Push(Expect(value, ";"), 0)
                 ELSE Expect(ValueFor(Require(value, Kind(value) # ";"), c.returns), ";")
    IN  [Emit(ended, <<Op.RET>>) EXCEPT !.sawReturn = TRUE]

ParseStatement(c) ==
    LET kind == Kind(c)
    IN  CASE c.error -> c
          [] kind = "{" -> Block(c)
          [] kind \in VariableTypes -> Expect(Declaration(c, FALSE), ";")
          [] kind = "struct" -> Expect(StructVariable(c), ";")
          [] kind = "print" -> PrintStatement(c)
          [] kind \in DOMAIN StatementBuiltins ->
               Emit(Expect(BuiltinCall(c, StatementBuiltins[kind]), ";"),
                    StatementBuiltins[kind].ops)
          [] kind \in {"read_text", "++", "--"} ->
               Emit(Expect(Parse("expression", c), ";"), <<Op.POP>>)
          [] kind = "if" -> IfStatement(c)
          [] kind = "while" -> WhileStatement(c)
          [] kind = "for" -> ForStatement(c)
          [] kind = "return" -> ReturnStatement(c)
          [] kind = "name" -> Expect(NameStatement(c), ";")
          [] OTHER -> Fail(c)

Parse(rule, c) ==
    CASE rule = "expression" -> ParseExpression(c)
      [] rule = "relational" -> ParseRelational(c)
      [] rule = "additive" -> ParseAdditive(c)
      [] rule = "term" -> ParseTerm(c)
      [] rule = "unary" -> ParseUnary(c)
      [] rule = "primary" -> ParsePrimary(c)
      [] rule = "statement" -> ParseStatement(c)

-----------------------------------------------------------------------------
(* Structs, functions and the whole program.                               *)
RECURSIVE FieldsFrom(_)
FieldsFrom(c) ==
    IF c.error \/ Kind(c) \in {"}", "end"} THEN c
    ELSE LET def == Len(c.structs)
             name == NextToken(Require(c, Kind(c) \in VariableTypes))
             New(d) == IndexOf(d.structs[def].fields, Value(name)) = 0
             Added(d) == [d EXCEPT !.structs[def].fields =
                            Append(@, [name |-> Value(name), type |-> LocalType(Kind(c))])]
         IN  FieldsFrom(Expect(Then(PassName(name), LAMBDA d :
                                   Then(Require(d, New(d)), Added)), ";"))

StructDefinition(c) ==
    LET name == NextToken(c)
        New(d) == IndexOf(d.structs, Value(name)) = 0
        Added(d) == [d EXCEPT !.structs = Append(@, [name |-> Value(name), fields |-> <<>>])]
        opened == Then(PassName(name), LAMBDA d : Then(Require(d, New(d)), Added))
    IN  Expect(Expect(FieldsFrom(Expect(opened, "{")), "}"), ";")

RECURSIVE ParamsFrom(_, _)
ParamsFrom(c, types) ==
    LET type == LocalType(Kind(c))
        Added(name) == AddLocal(PassName(name), Value(name), type, "int", 0)
    IN  With(Then(NextToken(Require(c, Kind(c) \in VariableTypes)), Added), LAMBDA d :
            IF d.error \/ Kind(d) # "," THEN [c |-> d, types |-> Append(types, type)]
            ELSE ParamsFrom(NextToken(d), Append(types, type)))

PassedParams(c) ==
    IF c.error \/ Kind(c) = ")" THEN [c |-> c, types |-> <<>>] ELSE ParamsFrom(c, <<>>)

Function(c) ==
    LET returns == LocalType(Kind(c))
        name == NextToken(Require(c, Kind(c) \in VariableTypes \cup {"void"}))
        open == Expect(PassName(name), "(")
        fresh == [open EXCEPT !.locals = <<>>, !.returns = returns, !.sawReturn = FALSE]
        Added(read) == Then(Expect(read.c, ")"), LAMBDA d :
                           AddFunction(d, Value(name), read.types, returns))
        Entered(d) == IF Value(name) = "main" THEN [d EXCEPT !.main = Here(d)] ELSE d
    IN  With(Block(Then(Added(PassedParams(fresh)), Entered)), LAMBDA body :
            IF body.sawReturn THEN body ELSE Emit(Push(body, 0), <<Op.RET>>))

ResolvePatches(c) ==
    LET Resolved(d, patch, f) ==
            IF f = 0 THEN Fail(d)
            ELSE PatchU32(Require(d, ~(patch.value /\ d.functions[f].returns = Void)),
                          patch.at, d.functions[f].entry)
        Resolve(d, patch) ==
            Then(d, LAMBDA e : Resolved(e, patch, FindOverload(e, patch.callee, patch.types)))
    IN  FoldLeft(Resolve, c, c.patches)

DriverContract(c) ==
    LET At(name) == FindOverload(c, name, <<>>)
    IN  /\ \A name \in {"driver_init", "driver_poll", "driver_shutdown", "main"} : At(name) # 0
        /\ \A name \in {"driver_init", "main"} : c.functions[At(name)].returns = "int"

NoEntry == -1

RECURSIVE ItemsFrom(_)
ItemsFrom(c) ==
    CASE c.error \/ Kind(c) = "end" -> c
      [] Kind(c) = "struct" -> ItemsFrom(StructDefinition(c))
      [] OTHER -> ItemsFrom(Function(c))

Program(c) ==
    Then(ItemsFrom(c), LAMBDA read :
        ResolvePatches(Require(read, /\ read.main # NoEntry
                                     /\ read.driver => DriverContract(read))))

(* prismcc_compile_file: the image, or an error.                           *)
CompileFile(source, driver) ==
    Program([source |-> source, at |-> 1, code |-> <<>>, data |-> <<>>, locals |-> <<>>,
             structs |-> <<>>, functions |-> <<>>, patches |-> <<>>, main |-> NoEntry,
             returns |-> "int", sawReturn |-> FALSE, driver |-> driver, error |-> FALSE])
=============================================================================
