------------------------------- MODULE Prism -------------------------------
(***************************************************************************)
(* From a source to what its run prints: programs are trees, written down  *)
(* as tokens for the compiler, compiled in one step and run instruction by *)
(* instruction.  Beside them stands what the language means by the tree.   *)
(***************************************************************************)
EXTENDS BytecodeVm

(* Programs: the items of a source, whether it is a driver, whether the    *)
(* language allows it, and whether it never ends.                          *)
CONSTANT Programs

Token(kind) == <<[kind |-> kind, value |-> 0]>>

Name(name) == <<[kind |-> "name", value |-> name]>>

Listed(shown) ==
    FoldLeft(LAMBDA all, one : IF all = <<>> THEN one ELSE all \o Token(",") \o one, <<>>, shown)

Binding == [op \in {"==", "!="} |-> 1] @@ [op \in {"<", "<=", ">", ">="} |-> 2]
             @@ [op \in {"+", "-"} |-> 3] @@ [op \in {"*", "/", "%"} |-> 4]

Level(e) ==
    CASE e[1] = "binary" -> Binding[e[2]]
      [] e[1] \in {"negate", "prefix"} -> 5
      [] OTHER -> 6

Flat(parts) == FoldLeft(LAMBDA all, one : all \o one, <<>>, parts)

(* An expression where one of at least that level is expected, in brackets *)
(* only where it has to be; or a statement without its semicolon, as in    *)
(* the clauses of a for.                                                   *)
RECURSIVE Shown(_, _)
Shown(t, level) ==
    LET Arguments(args) == Token("(") \o Listed([i \in DOMAIN args |-> Shown(args[i], 1)])
                             \o Token(")")
        Index(e) == Token("[") \o Shown(e, 1) \o Token("]")
        Equals(e) == Token("=") \o Shown(e, 1)
        Bracketed(shown) ==
            IF Level(t) < level THEN Token("(") \o shown \o Token(")") ELSE shown
    IN  Bracketed(
          CASE t[1] \in {"number", "float_number", "text"} -> <<[kind |-> t[1], value |-> t[2]]>>
            [] t[1] = "variable" -> Name(t[2])
            [] t[1] = "element" -> Name(t[2]) \o Index(t[3])
            [] t[1] = "field" -> Name(t[2]) \o Token(".") \o Name(t[3])
            [] t[1] = "call" -> Name(t[2]) \o Arguments(t[3])
            [] t[1] = "builtin" -> Token(t[2]) \o Arguments(t[3])
            [] t[1] = "negate" -> Token("-") \o Shown(t[2], 6)
            [] t[1] = "prefix" -> Token(t[2]) \o Name(t[3])
            [] t[1] \in {"postfix", "update"} -> Name(t[3]) \o Token(t[2])
            [] t[1] = "binary" ->
                 Shown(t[3], Level(t)) \o Token(t[2]) \o Shown(t[4], Level(t) + 1)
            [] t[1] = "declare" -> Token(t[2]) \o Name(t[3])
            [] t[1] = "define" -> Token(t[2]) \o Name(t[3]) \o Equals(t[4])
            [] t[1] = "array" -> Token(t[2]) \o Name(t[3]) \o Index(<<"number", t[4]>>)
            [] t[1] = "object" -> Token("struct") \o Name(t[2]) \o Name(t[3])
            [] t[1] = "assign" -> Name(t[2]) \o Equals(t[3])
            [] t[1] = "store" -> Name(t[2]) \o Index(t[3]) \o Equals(t[4])
            [] t[1] = "print" -> Token("print") \o Arguments(<<t[2]>>)
            [] t[1] = "return" -> Token("return") \o Flat([i \in 2 .. Len(t) |-> Shown(t[i], 1)])
            [] t[1] = "nothing" -> <<>>)

RECURSIVE Written(_)
Written(s) ==
    LET Within(keyword, shown) == Token(keyword) \o Token("(") \o shown \o Token(")")
    IN  CASE s[1] = "block" -> Token("{") \o Flat([i \in DOMAIN s[2] |-> Written(s[2][i])])
                                 \o Token("}")
          [] s[1] = "if" -> Within("if", Shown(s[2], 1)) \o Written(s[3])
                              \o (IF Len(s) = 4 THEN Token("else") \o Written(s[4]) ELSE <<>>)
          [] s[1] = "while" -> Within("while", Shown(s[2], 1)) \o Written(s[3])
          [] s[1] = "for" -> Within("for", Shown(s[2], 1) \o Token(";")
                               \o Flat([i \in DOMAIN s[3] |-> Shown(s[3][i], 1)])
                               \o Token(";") \o Shown(s[4], 1)) \o Written(s[5])
          [] OTHER -> Shown(s, 1) \o Token(";")

Item(item) ==
    IF item[1] = "struct"
    THEN Token("struct") \o Name(item[2]) \o Token("{")
           \o Flat([i \in DOMAIN item[3] |->
                Token(item[3][i][1]) \o Name(item[3][i][2]) \o Token(";")])
           \o Token("}") \o Token(";")
    ELSE Token(item[2]) \o Name(item[3]) \o Token("(")
           \o Listed([i \in DOMAIN item[4] |-> Token(item[4][i][1]) \o Name(item[4][i][2])])
           \o Token(")") \o Written(<<"block", item[5]>>)

Source(program) ==
    Flat([i \in DOMAIN program.items |-> Item(program.items[i])]) \o Token("end")

-----------------------------------------------------------------------------
(* What a tree means.  A meaning is a record of the variables, of what has *)
(* been printed, of the answers still to come, of the last value and of    *)
(* how it goes on.  Values carry their type.                               *)
Stops(m, how) == [m EXCEPT !.goes = how]

Yields(m, type, value) == [m EXCEPT !.value = <<type, value>>]

Prints(m, kind, value) == [m EXCEPT !.out = Append(@, <<kind, value>>)]

(* The next answer, or no way to go on where the run has had no more.      *)
Asks(m, type) ==
    IF m.answers = <<>> THEN Stops(m, "waits")
    ELSE Yields([m EXCEPT !.answers = Tail(@)], type, Head(m.answers)[2])

Blank(type) == <<type, IF type = "string" THEN <<>> ELSE 0>>

(* A value as one of that type: whole numbers become floats.               *)
As(value, type) ==
    IF type = "float" /\ value[1] = "int" THEN <<"float", FloatScale * value[2]>> ELSE value

Compared(op, a, b) ==
    Truth(CASE op = "==" -> a = b [] op = "!=" -> a # b [] op = "<" -> a < b
            [] op = "<=" -> a <= b [] op = ">" -> a > b [] op = ">=" -> a >= b)

Applied(m, op, left, right) ==
    LET type == left[1]
        a == left[2]
        b == right[2]
        scale == IF type = "float" THEN FloatScale ELSE 1
    IN  CASE op \in {"/", "%"} /\ b = 0 -> Stops(m, "fault")
          [] op = "+" -> Yields(m, type, a + b)
          [] op = "-" -> Yields(m, type, a - b)
          [] op = "*" -> Yields(m, type, Quotient(a * b, scale))
          [] op = "/" -> Yields(m, type, Quotient(a * scale, b))
          [] op = "%" -> Yields(m, type, Remainder(a, b))
          [] OTHER -> Yields(m, "int", Compared(op, a, b))

Changed(m, op, name) ==
    [m EXCEPT !.variables[name] = <<"int", IF op = "++" THEN @[2] + 1 ELSE @[2] - 1>>]

Answer(m, name, args) ==
    LET Second == IF Len(args) > 1 THEN args[2][2] ELSE <<>>
    IN  CASE name = "string_len" -> Yields(m, "int", Len(args[1][2]))
          [] name = "string_eq" -> Yields(m, "int", Truth(args[1][2] = Second))
          [] name = "input_len" -> Yields(m, "int", Len(m.input))
          [] name = "input_eq" -> Yields(m, "int", Truth(m.input = args[1][2]))
          [] name \in {"input_int", "app_should_quit"} -> Asks(m, "int")
          [] name = "read_text" ->
               LET asked == IF args = <<>> THEN m ELSE Prints(m, "text", args[1][2])
                   typed == Asks(asked, "string")
               IN  IF typed.goes # "on" THEN typed ELSE [typed EXCEPT !.input = typed.value[2]]
          [] name = "file_exists" -> Yields(m, "int", Truth(args[1][2] \in DOMAIN m.files))
          [] name = "file_read" -> IF args[1][2] \in DOMAIN m.files
                                   THEN Yields(m, "string", m.files[args[1][2]])
                                   ELSE Stops(m, "fault")
          [] name \in {"file_write", "file_append"} ->
               LET done == Asks(m, "int")
                   before == IF name = "file_append" /\ args[1][2] \in DOMAIN m.files
                             THEN m.files[args[1][2]] ELSE <<>>
               IN  IF done.goes # "on" \/ done.value[2] # 0 THEN done
                   ELSE [done EXCEPT !.files = (args[1][2] :> (before \o Second)) @@ @]
          [] name = "print_int" -> Prints(Prints(m, "int", args[1][2]), "newline", 0)
          [] name = "print_char" -> Prints(m, "char", args[1][2])
          [] name = "print_color" ->
               Prints(Prints(m, "colour", <<args[1][2] % 16, Second>>), "newline", 0)
          [] name = "print_input" -> Prints(Prints(m, "text", m.input), "newline", 0)
          [] name = "draw_pixel" ->
               LET colour == IF args[3][2] < 0 THEN 0 ELSE IF args[3][2] > 15 THEN 15 ELSE args[3][2]
               IN  Prints(m, "pixel", <<args[1][2], Second, colour>>)
          [] name = "set_fullscreen" -> m
          [] name = "app_exit" -> Stops(m, "ended")

(* What follows, where m goes on.                                          *)
After(m, Follow(_)) == IF m.goes # "on" THEN m ELSE Follow(m)

Given(m, name, value) == [m EXCEPT !.variables = (name :> value) @@ @]

Fields(m, struct) ==
    LET items == Programs[m.program].items
    IN  items[SelectInSeq(items, LAMBDA item : item[1] = "struct" /\ item[2] = struct)][3]

Object(fields) ==
    [name \in {fields[i][2] : i \in DOMAIN fields} |->
        Blank(LocalType(fields[SelectInSeq(fields, LAMBDA f : f[2] = name)][1]))]

(* The function of that name for values of these types.                    *)
FunctionFor(m, name, values) ==
    LET items == Programs[m.program].items
        Fits(item) == /\ item[1] = "function" /\ item[3] = name
                      /\ Len(item[4]) = Len(values)
                      /\ \A i \in DOMAIN values : LocalType(item[4][i][1]) = values[i][1]
    IN  items[SelectInSeq(items, Fits)]

Params(f, values) ==
    [name \in {f[4][i][2] : i \in DOMAIN f[4]} |->
        values[SelectInSeq(f[4], LAMBDA p : p[2] = name)]]

(* Back in the caller, after what the body of a function has done.         *)
Returned(m, run) ==
    IF run.goes \notin {"on", "returns"} THEN run
    ELSE [run EXCEPT !.variables = m.variables, !.depth = m.depth, !.goes = "on",
                     !.value = IF run.goes = "returns" THEN @ ELSE <<"int", 0>>]

(* m after the tree t: an expression that leaves its value, a statement,   *)
(* or statements in their turn.                                            *)
RECURSIVE Meant(_, _)

RECURSIVE ArgumentsOf(_, _, _)
ArgumentsOf(args, m, values) ==
    IF args = <<>> \/ m.goes # "on" THEN [m |-> m, values |-> values]
    ELSE With(Meant(Head(args), m), LAMBDA first :
            ArgumentsOf(Tail(args), first, Append(values, first.value)))

(* What follows the arguments, each one after the other.                   *)
AfterAll(args, m, Follow(_, _)) ==
    With(ArgumentsOf(args, m, <<>>), LAMBDA read :
        After(read.m, LAMBDA n : Follow(n, read.values)))

Called(m, name, values) ==
    IF m.depth > CallDepthMax THEN Stops(m, "fault")
    ELSE With(FunctionFor(m, name, values), LAMBDA f :
            Returned(m, Meant(<<"block", f[5]>>, [m EXCEPT !.variables = Params(f, values),
                                                          !.depth = @ + 1])))

RECURSIVE Repeated(_, _, _)
Repeated(m, condition, body) ==
    After(Meant(condition, m), LAMBDA test :
        IF test.value[2] = 0 THEN test
        ELSE After(Meant(body, test), LAMBDA round : Repeated(round, condition, body)))

Always == <<"number", 1>>

(* An element that is there, or a fault.                                   *)
Reached(m, array, index, Follow(_)) ==
    IF index \in DOMAIN m.variables[array] THEN Follow(m) ELSE Stops(m, "fault")

Meant(t, m) ==
    CASE m.goes # "on" -> m
      [] t[1] = "number" -> Yields(m, "int", t[2])
      [] t[1] = "float_number" -> Yields(m, "float", t[2])
      [] t[1] = "text" -> Yields(m, "string", t[2])
      [] t[1] = "variable" -> [m EXCEPT !.value = m.variables[t[2]]]
      [] t[1] = "field" -> [m EXCEPT !.value = m.variables[t[2]][t[3]]]
      [] t[1] = "element" -> After(Meant(t[3], m), LAMBDA n :
           Reached(n, t[2], n.value[2],
                   LAMBDA o : [o EXCEPT !.value = o.variables[t[2]][o.value[2]]]))
      [] t[1] = "negate" ->
           After(Meant(t[2], m), LAMBDA n : Yields(n, n.value[1], -n.value[2]))
      [] t[1] = "prefix" ->
           With(Changed(m, t[2], t[3]), LAMBDA n : [n EXCEPT !.value = n.variables[t[3]]])
      [] t[1] = "postfix" -> [Changed(m, t[2], t[3]) EXCEPT !.value = m.variables[t[3]]]
      [] t[1] = "binary" -> AfterAll(<<t[3], t[4]>>, m, LAMBDA n, values :
           Applied(n, t[2], values[1], values[2]))
      [] t[1] = "builtin" -> AfterAll(t[3], m, LAMBDA n, values : Answer(n, t[2], values))
      [] t[1] = "call" -> AfterAll(t[3], m, LAMBDA n, values : Called(n, t[2], values))
      [] t[1] = "nothing" -> m
      [] t[1] = "declare" -> Given(m, t[3], Blank(LocalType(t[2])))
      [] t[1] = "define" ->
           After(Meant(t[4], m), LAMBDA n : Given(n, t[3], As(n.value, LocalType(t[2]))))
      [] t[1] = "array" -> Given(m, t[3], [i \in 0 .. t[4] - 1 |-> Blank(LocalType(t[2]))])
      [] t[1] = "object" -> Given(m, t[3], Object(Fields(m, t[2])))
      [] t[1] = "assign" -> After(Meant(t[3], m), LAMBDA n :
           Given(n, t[2], As(n.value, n.variables[t[2]][1])))
      [] t[1] = "store" -> AfterAll(<<t[3], t[4]>>, m, LAMBDA n, values :
           Reached(n, t[2], values[1][2], LAMBDA o :
               [o EXCEPT !.variables[t[2]][values[1][2]] =
                            As(values[2], o.variables[t[2]][0][1])]))
      [] t[1] = "update" -> Changed(m, t[2], t[3])
      [] t[1] = "print" -> After(Meant(t[2], m), LAMBDA n :
           Prints(Prints(n, IF n.value[1] = "string" THEN "text" ELSE n.value[1], n.value[2]),
                  "newline", 0))
      [] t[1] = "return" ->
           After(IF Len(t) = 1 THEN Yields(m, "int", 0) ELSE Meant(t[2], m),
                 LAMBDA n : Stops(n, "returns"))
      [] t[1] = "block" -> FoldLeft(LAMBDA n, s : Meant(s, n), m, t[2])
      [] t[1] = "if" -> After(Meant(t[2], m), LAMBDA n :
           IF n.value[2] # 0 THEN Meant(t[3], n)
           ELSE IF Len(t) = 4 THEN Meant(t[4], n) ELSE n)
      [] t[1] = "while" -> Repeated(m, t[2], t[3])
      [] t[1] = "for" ->
           Repeated(Meant(t[2], m), IF t[3] = <<>> THEN Always ELSE t[3][1],
                    <<"block", <<t[5], t[4]>> >>)

Meaning(program, answers) ==
    Called([program |-> program, variables |-> <<>>, out |-> <<>>, answers |-> answers,
            input |-> <<>>, files |-> <<>>, value |-> <<"int", 0>>, depth |-> 0,
            goes |-> "on"], "main", <<>>)

-----------------------------------------------------------------------------
Init == \E i \in DOMAIN Programs : vm = [phase |-> "source", program |-> i]

(* bytecode_vm_run up to the first instruction, for the image of a source. *)
Started(program, image) ==
    IF image.error \/ image.main >= Len(image.code)
    THEN [phase |-> "rejected", program |-> program]
    ELSE Loaded(image.code, image.data, image.main) @@ [program |-> program]

CompileAndLoad ==
    /\ vm.phase = "source"
    /\ vm' = Started(vm.program, CompileFile(Source(Programs[vm.program]),
                                             Programs[vm.program].driver))

Next == CompileAndLoad \/ Step

Spec == Init /\ [][Next]_vm

-----------------------------------------------------------------------------
TypeOK ==
    /\ vm.phase \in {"source", "rejected", "running", "ended", "quit", "aborted", "fault"}
    /\ vm.phase \notin {"source", "rejected"} =>
          /\ Len(vm.stack) <= StackMax
          /\ Len(vm.frames) = Len(vm.returns) + 1
          /\ Len(vm.frames) <= CallDepthMax + 1
          /\ vm.steps \in 0 .. MaxSteps
          /\ vm.arrays.offset <= ArrayCells
          /\ vm.strings.offset <= StringBytes

(* A source that the language allows is compiled, any other is refused,    *)
(* and the run of the image prints what the program means, with the same   *)
(* answers, and ends as it does: normally, or in a fault for a division by *)
(* zero, an index out of range, a file that is not there or calls nested   *)
(* too deep.  A run that Esc ends has printed a beginning of it.  Only a   *)
(* program that never ends uses up the budget.                             *)
CompiledTrue ==
    With(Meaning(vm.program, IF vm.phase \in {"source", "rejected"} THEN <<>> ELSE vm.answers),
      LAMBDA meaning :
        /\ vm.phase # "source" => (vm.phase = "rejected" <=> ~Programs[vm.program].valid)
        /\ vm.phase = "ended" => /\ meaning.goes \in {"on", "ended"}
                                 /\ vm.out = meaning.out
        /\ vm.phase = "fault" => /\ meaning.goes = "fault"
                                 /\ vm.out = meaning.out
        /\ vm.phase = "quit" => IsPrefix(vm.out, meaning.out)
        /\ vm.phase = "aborted" => Programs[vm.program].endless)
=============================================================================
