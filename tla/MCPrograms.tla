----------------------------- MODULE MCPrograms -----------------------------
(***************************************************************************)
(* The sources that the compiler is tried on, as the trees of Prism.       *)
(* Three things that it gets wrong are not among them: a store to a struct *)
(* field, whose index is emitted as one byte where the machine reads two,  *)
(* a float behind a parenthesis, and a comparison of floats that is        *)
(* printed, whose types are told from the first tokens alone.              *)
(***************************************************************************)
EXTENDS Integers, Sequences

Num(n) == <<"number", n>>
Tenths(n) == <<"float_number", n>>
Text(s) == <<"text", s>>
Var(x) == <<"variable", x>>
Elem(x, e) == <<"element", x, e>>
Op2(l, op, r) == <<"binary", op, l, r>>
Call(f, args) == <<"call", f, args>>
Built(name, args) == <<"builtin", name, args>>
Printed(e) == <<"print", e>>
Local(type, x, e) == <<"define", type, x, e>>
Assign(x, e) == <<"assign", x, e>>
Store(x, i, e) == <<"store", x, i, e>>
Block(statements) == <<"block", statements>>
If(e, s) == <<"if", e, s>>
IfElse(e, s, t) == <<"if", e, s, t>>
While(e, s) == <<"while", e, s>>
Returns(e) == <<"return", e>>

Function(type, name, params, body) == <<"function", type, name, params, body>>

Main(body) == Function("int", "main", <<>>, body)

App(items) == [items |-> items, driver |-> FALSE, valid |-> TRUE, endless |-> FALSE]

Good(body) == App(<<Main(body)>>)

Wrong(items) == [App(items) EXCEPT !.valid = FALSE]

Bad(body) == Wrong(<<Main(body)>>)

x == Var("x")
y == Var("y")
z == Var("z")
i == Var("i")

Ops == <<"+", "-", "*", "/", "%", "<", "==">>

(* Every two operators, grouped to the left and to the right.              *)
Pairs ==
    [k \in 1 .. 2 * Len(Ops) * Len(Ops) |->
        LET first == Ops[(((k - 1) \div 2) % Len(Ops)) + 1]
            second == Ops[((k - 1) \div (2 * Len(Ops))) + 1]
        IN  Good(<<Printed(IF k % 2 = 0 THEN Op2(Op2(Num(7), first, Num(2)), second, Num(3))
                         ELSE Op2(Num(7), first, Op2(Num(2), second, Num(3))))>>)]

Loops == <<
    Good(<<Local("int", "x", Num(3)),
           While(x, Block(<<Printed(<<"postfix", "--", "x">>),
               If(Op2(x, ">", Num(0)),
                  IfElse(Op2(x, "!=", Num(1)), Printed(Num(8)), Assign("x", Num(0))))>>)),
           Printed(<<"prefix", "--", "x">>)>>),
    Good(<<<<"for", Local("int", "i", Num(0)), <<Op2(i, "<", Num(3))>>, <<"update", "++", "i">>,
               IfElse(Op2(i, "%", Num(2)), Printed(i), <<"prefix", "++", "i">>)>>,
           <<"for", <<"declare", "int", "i">>, <<>>, <<"nothing">>,
               Block(<<Printed(Op2(<<"prefix", "++", "i">>, "*", <<"negate", i>>)),
                       If(Op2(i, ">=", Num(2)), Returns(i))>>)>>,
           Printed(Num(9))>>)>>

Calls == <<
    App(<<Main(<<Printed(Call("f", <<Num(3)>>)), Call("g", <<>>),
                 Printed(Call("h", <<Num(1), Num(5)>>)), Printed(Call("h", <<Num(1), Tenths(5)>>)),
                 Returns(Num(0))>>),
          Function("int", "f", << <<"int", "n">> >>,
              <<If(Op2(Var("n"), "<=", Num(0)), Returns(Num(1))),
                Returns(Op2(Var("n"), "*", Call("f", <<Op2(Var("n"), "-", Num(1))>>)))>>),
          Function("void", "g", <<>>, <<Printed(Num(6)), <<"return">>, Printed(Num(7))>>),
          Function("int", "h", << <<"int", "x">>, <<"char", "y">> >>, <<Returns(Op2(x, "-", y))>>),
          Function("int", "h", << <<"int", "x">>, <<"float", "y">> >>, <<Printed(y), Returns(x)>>)>>),
    App(<<Function("int", "f", << <<"int", "n">> >>,
              <<Returns(Op2(Num(1), "+", Call("f", <<Var("n")>>)))>>),
          Main(<<Printed(Call("f", <<Num(0)>>))>>)>>),
    App(<<Function("void", "g", << <<"string", "x">> >>, <<Printed(x)>>),
          Main(<<Call("g", <<Text(<<"a">>)>>), Local("string", "y", Text(<<"b">>)),
                 Call("g", <<y>>)>>)>>)>>

Floats == <<
    Good(<<Local("float", "y", Tenths(15)), Local("float", "z", Num(2)), Printed(Op2(y, "*", z)),
           Printed(Op2(Op2(z, "/", y), "-", y)), Printed(Op2(<<"negate", Tenths(15)>>, "/", z)),
           If(Op2(z, ">", y), Printed(Num(1))), Assign("y", Op2(y, "-", y)), Assign("z", Num(3)), Printed(z),
           Printed(Op2(z, "/", y))>>)>>

Arrays == <<
    App(<<<<"struct", "P", << <<"int", "x">>, <<"string", "y">> >> >>,
          Main(<<<<"array", "int", "x", 2>>, <<"object", "P", "z">>, <<"array", "float", "y", 1>>,
                 Store("x", Num(1), Num(4)), Store("y", Num(0), Num(4)),
                 Printed(<<"field", "z", "y">>), Printed(<<"field", "z", "x">>),
                 Printed(Elem("y", Num(0))), Store("x", Op2(Elem("x", Num(1)), "-", Num(4)), Num(9)),
                 Printed(Op2(Elem("x", Num(0)), "+", Elem("x", Num(1)))),
                 Store("x", Num(2), Num(1))>>)>>),
    Good(<<<<"array", "int", "x", 3>>, Printed(Elem("x", <<"negate", Num(1)>>))>>)>>

Inputs == <<
    Good(<<Local("string", "x", Built("read_text", <<Text(<<"q">>)>>)),
           Printed(x), Printed(Built("string_eq", <<x, Text(<<"a">>)>>)),
           Printed(Built("string_len", <<x>>)), Printed(Built("input_eq", <<Text(<<"a">>)>>)),
           Printed(Op2(Built("input_int", <<>>), "+", Built("input_len", <<>>))),
           Built("print_input", <<>>), Built("read_text", <<>>), Printed(x),
           Built("print_color", <<Num(17), Text(<<"c", "d">>)>>)>>),
    Good(<<Built("file_write", <<Text(<<"f">>), Text(<<"a">>)>>),
           Built("file_append", <<Text(<<"f">>), Text(<<"b">>)>>),
           Printed(Built("file_exists", <<Text(<<"f">>)>>)),
           Printed(Built("file_read", <<Text(<<"f">>)>>))>>)>>

Screens == <<
    Good(<<Built("set_fullscreen", <<Num(1)>>),
           While(Op2(Built("app_should_quit", <<>>), "==", Num(0)),
                 Built("draw_pixel", <<Num(1), Num(2), Num(17)>>)),
           Built("set_fullscreen", <<Num(0)>>), Built("print_char", <<Num(65)>>),
           Built("print_int", <<Num(5)>>), Built("app_exit", <<>>), Printed(Num(1))>>),
    [Good(<<While(Num(1), Block(<<>>))>>) EXCEPT !.endless = TRUE]>>

Hardware == <<
    Printed(Built("driver_serial_write", <<Text(<<"a">>)>>)),
    Printed(Built("driver_serial_read", <<>>)), Printed(Built("driver_io_read8", <<Num(1)>>)),
    Printed(Built("driver_io_write8", <<Num(1), Num(2)>>)),
    Printed(Built("driver_mmio_read32", <<Num(1)>>)),
    Printed(Built("driver_mmio_write32", <<Num(1), Num(2)>>))>>

Driver(functions) ==
    [items |-> [k \in DOMAIN functions |->
        Function("int", functions[k], <<>>,
                 IF functions[k] = "driver_poll" THEN Hardware ELSE <<Printed(Num(k))>>)],
     driver |-> TRUE, valid |-> Len(functions) = 4, endless |-> FALSE]

Drivers == <<
    Driver(<<"driver_init", "driver_poll", "driver_shutdown", "main">>),
    Driver(<<"main", "driver_init", "driver_poll">>)>>

Refused == <<
    Bad(<<Printed(x)>>),
    Bad(<<Local("int", "x", Num(1)), Local("int", "x", Num(2))>>),
    Bad(<<Local("int", "x", Text(<<"a">>))>>),
    Bad(<<Printed(Call("f", <<Num(1)>>))>>),
    Bad(<<<<"array", "int", "x", 2>>, Printed(x)>>),
    Bad(<<<<"array", "int", "x", 2>>, Store("x", Num(0), Text(<<"a">>))>>),
    Bad(<<Local("int", "x", Op2(Tenths(15), "+", Num(1)))>>),
    Bad(<<Printed(Op2(Tenths(15), "%", Tenths(10)))>>),
    Bad(<<Printed(Built("driver_should_stop", <<>>))>>),
    Bad(<<<<"return">> >>),
    Bad(<<Local("string", "x", Text(<<"a">>)), <<"update", "++", "x">> >>),
    Bad(<<<<"object", "P", "x">> >>),
    Bad(<<Built("file_write", <<Num(1), Text(<<"a">>)>>)>>),
    Wrong(<<Function("int", "f", <<>>, <<>>)>>),
    Wrong(<<Main(<<Printed(Call("f", <<>>))>>), Function("void", "f", <<>>, <<>>)>>),
    Wrong(<<Main(<<>>), Main(<<>>)>>),
    Wrong(<<Function("void", "main", <<>>, <<Returns(Num(1))>>)>>)>>

TestPrograms ==
    Pairs \o Loops \o Calls \o Floats \o Arrays \o Inputs \o Screens \o Drivers \o Refused

TestTexts == {<<"a">>, <<"b", "a">>}
=============================================================================
