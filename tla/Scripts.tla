------------------------------ MODULE Scripts ------------------------------
(* The programs the interpreter is checked with: every statement inside     *)
(* every other, and expressions whose parts have effects.                   *)
EXTENDS EcmaSemantics

(* Syntax trees.                                                            *)
L(v) == [t |-> "lit", v |-> v]
N(n) == L(Num(n))
Id(name) == [t |-> "ident", name |-> name]
Arg(e) == [e |-> e, spread |-> FALSE]
Args(es) == <<>> \o [i \in DOMAIN es |-> Arg(es[i])]
CallE(f, es) == [t |-> "call", callee |-> f, args |-> Args(es)]
LogE(e) == CallE(Id("log"), <<e>>)
Stmt(e) == [t |-> "expr", e |-> e]
Log(e) == Stmt(LogE(e))
Block(body) == [t |-> "block", body |-> body]
Ret(e) == [t |-> "return", e |-> <<e>>]
Throw_(e) == [t |-> "throw", e |-> e]
Break == [t |-> "break"]
Continue == [t |-> "continue"]
Var(kind, name, e) == [t |-> "var", kind |-> kind, name |-> name, init |-> <<e>>]
Asg(left, right) == [t |-> "assign", op |-> "=", left |-> left, right |-> right]
Bin(op, l, r) == [t |-> "bin", op |-> op, l |-> l, r |-> r]
Inc(x) == [t |-> "update", op |-> "ADD", prefix |-> TRUE, e |-> Id(x)]
Arr(es) == [t |-> "array", args |-> Args(es)]
Member(o, name) == [t |-> "member", obj |-> o, key |-> <<>>, name |-> name]
Index(o, k) == [t |-> "member", obj |-> o, key |-> <<k>>, name |-> ""]
Fn(t, name, params, body, gen) ==
  [t |-> t, name |-> name, params |-> params, rest |-> <<>>, body |-> body, gen |-> gen, isExpr |-> FALSE]
FnDecl(name, params, body) == Fn("fn", name, params, body, FALSE)
GenDecl(name, params, body) == Fn("fn", name, params, body, TRUE)
FnExpr(params, body) == Fn("function", "", params, body, FALSE)
Try(body, param, handler, fin) ==
  [t |-> "try", block |-> body, param |-> param, handler |-> handler, finalizer |-> fin]
ForOf(kind, x, e, body) ==
  [t |-> "forof", left |-> IF kind = "" THEN <<>> ELSE <<[t |-> "var", kind |-> kind, name |-> x, init |-> <<>>]>>,
   name |-> x, right |-> e, body |-> body]
ForIn_(x, e, body) == [ForOf("let", x, e, body) EXCEPT !.t = "forin"]
IfElse(test, cons, alt) == [t |-> "if", test |-> test, cons |-> cons, alt |-> <<alt>>]
Yield_(e) == [t |-> "yield", e |-> <<e>>]

(* builtins/Spread.js.                                                      *)
SpreadJs ==
  <<Var("let", "spread", Arr(<<>>)),
    ForOf("", "item", Id("iterable"), Block(<<Stmt(CallE(Member(Id("spread"), "push"), <<Id("item")>>))>>)),
    Ret(Id("spread"))>>

(* Statements with a statement inside; i counts the rounds of the loops of  *)
(* one level, so that an abrupt completion happens in the first round or    *)
(* in the second.                                                           *)
Wrap(w, c, S) ==
  CASE w = "while" -> <<Stmt(Asg(Id(c), N(0))),
                        [t |-> "while", test |-> Bin("LESS", Id(c), N(2)), body |-> Block(<<Stmt(Inc(c)), S, Log(Id(c))>>)]>>
    [] w = "for" -> <<[t |-> "for", init |-> <<Stmt(Asg(Id(c), N(0))).e>>, test |-> <<Bin("LESS", Id(c), N(2))>>,
                       update |-> <<Inc(c)>>, body |-> Block(<<S, Log(Id(c))>>)]>>
    [] w = "forlet" -> <<[t |-> "for", init |-> <<Var("let", "q" \o c, N(0))>>,
                          test |-> <<Bin("LESS", Id("q" \o c), N(2))>>,
                          update |-> <<Inc("q" \o c)>>, body |-> Block(<<Stmt(Inc(c)), S, Log(Id("q" \o c))>>)]>>
    [] w = "forof" -> <<ForOf("let", "v" \o c, Arr(<<N(5), N(6)>>), Block(<<Stmt(Inc(c)), S, Log(Id("v" \o c))>>))>>
    [] w = "forin" -> <<ForIn_("v" \o c, Arr(<<N(5), N(6)>>), Block(<<Stmt(Inc(c)), S, Log(Id("v" \o c))>>))>>
    [] w = "switch" -> <<Stmt(Inc(c)),
                         [t |-> "switch", disc |-> Id(c),
                          cases |-> <<[test |-> <<N(7)>>, body |-> <<Log(N(7))>>],
                                      [test |-> <<N(1)>>, body |-> <<S>>],
                                      [test |-> <<N(2)>>, body |-> <<Log(N(2)), Break>>],
                                      [test |-> <<>>, body |-> <<Log(N(3))>>]>>]>>
    [] w = "catch" -> <<Try(<<S, Log(N(31))>>, "e" \o c, <<<<Log(Id("e" \o c))>>>>, <<>>)>>
    [] w = "finally" -> <<Try(<<S, Log(N(32))>>, "e" \o c, <<<<Log(Id("e" \o c))>>>>, <<<<Log(N(33))>>>>)>>
    [] w = "inhandler" -> <<Try(<<Throw_(N(34))>>, "e" \o c, <<<<S, Log(Id("e" \o c))>>>>, <<>>)>>
    [] w = "onlyfinally" -> <<Try(<<S, Log(N(35))>>, "", <<>>, <<<<Log(N(36))>>>>)>>
    [] w = "if" -> <<IfElse(Bin("STRICTEQ", Id(c), N(0)), Block(<<S, Log(N(37))>>), Log(N(38)))>>
    [] w = "else" -> <<IfElse(Bin("STRICTEQ", Id(c), N(4)), Log(N(39)), S)>>
Wrappers == <<"while", "for", "forlet", "forof", "forin", "switch", "catch", "finally", "inhandler",
              "onlyfinally", "if", "else">>

Leaves ==
  <<Log(N(41)), Break, Continue, Ret(N(42)), Ret(CallE(Id("thrower"), <<>>)), Throw_(N(43)),
    Stmt(CallE(Id("thrower"), <<>>)), Stmt(Yield_(N(44)))>>

(* function thrower() { throw 9 }                                           *)
(* function main() { var a = 0; var b = 0; ...; log(50); return 51 } *)
(* try { log(main()) } catch (x) { log(x) }, or, when main has a yield,     *)
(* a generator that a loop runs.                                            *)
HasYield(leaf) == leaf.t = "expr" /\ leaf.e.t = "yield"
Harness(body, gen) ==
  <<FnDecl("thrower", <<>>, <<Throw_(N(9))>>),
    Fn("fn", "main", <<>>,
       <<Var("var", "a", N(0)), Var("var", "b", N(0))>> \o body \o <<Log(N(50)), Ret(N(51))>>, gen),
    Var("let", "x", N(0)),
    Try(<<IF gen THEN ForOf("let", "y", CallE(Id("main"), <<>>), Block(<<Log(Id("y"))>>))
          ELSE Log(CallE(Id("main"), <<>>))>>,
        "x", <<<<Log(Id("x"))>>>>, <<>>)>>

Loops == {"while", "for", "forlet", "forof", "forin"}
Legal(ws, leaf) ==
  /\ leaf = Break => ws[1] \in Loops \cup {"switch"} \/ ws[2] \in Loops \cup {"switch"}
  /\ leaf = Continue => ws[1] \in Loops \/ ws[2] \in Loops
Shapes ==
  LET nw == Len(Wrappers)
      all == [i \in 1 .. nw * nw * Len(Leaves) |->
                [ws |-> <<Wrappers[1 + (i % nw)], Wrappers[1 + ((i \div nw) % nw)]>>, leaf |-> Leaves[1 + ((i - 1) \div (nw * nw))]]]
  IN SelectSeq(all, LAMBDA x : Legal(x.ws, x.leaf))
Body_(x) == Harness(Wrap(x.ws[1], "a", Block(Wrap(x.ws[2], "b", x.leaf))), HasYield(x.leaf))

------------------------------------------------------------------------------
(* Where the code is known to leave the standard.  A completion leaves the  *)
(* statement at level i of a program.                                       *)
Returns(x) == x.leaf.t = "return"
Throws(x) == x.leaf.t = "throw" \/ x.leaf = Stmt(CallE(Id("thrower"), <<>>))
TailCalls(x) == x.leaf = Ret(CallE(Id("thrower"), <<>>))
Leaves_(x, i) ==
  \/ Returns(x)
  \/ x.leaf = Break /\ i = 2 /\ x.ws[2] \notin Loops \cup {"switch"}
  \/ x.leaf = Continue /\ i = 2 /\ x.ws[2] \notin Loops
  \/ Throws(x) /\ x.ws[i] = "onlyfinally" /\ (i = 2 \/ x.ws[2] \notin {"catch", "finally"})
Deviates(x) ==
  \/ /\ \A i \in 1 .. 2 : x.ws[i] \in {"forof", "forin"}
     /\ ~ Returns(x) /\ ~ Throws(x)
  \/ x.leaf = Continue /\ x.ws[2] = "switch"
  \/ \E i \in 1 .. 2 : x.ws[i] \in {"finally", "onlyfinally"} /\ Leaves_(x, i)
  \/ TailCalls(x) /\ \E i \in 1 .. 2 : x.ws[i] \in {"catch", "finally", "onlyfinally"}

------------------------------------------------------------------------------
(* Programs for the parts of an expression.                                 *)
This == [t |-> "this"]
Unary(op, e) == [t |-> "unary", op |-> op, e |-> e]
New_(f, es) == [CallE(f, es) EXCEPT !.t = "new"]
Spreads(e) == <<[e |-> e, spread |-> TRUE]>>
Obj(props) == [t |-> "object", props |-> props]
Prop(name, e) == [name |-> name, key |-> <<>>, e |-> e]
Arrow(params, e) == [Fn("arrow", "", params, <<e>>, FALSE) EXCEPT !.isExpr = TRUE]
Method_(o, name, es) == CallE(Member(o, name), es)
Cond(test, cons, alt) == [t |-> "cond", test |-> test, cons |-> cons, alt |-> <<alt>>]
Str(x) == L(String(x))
Catching(body) == Try(body, "e", <<<<Log(Id("e"))>>>>, <<>>)

(* Programs with a meaning in EcmaSemantics.                                *)
Plain ==
  <<\* closures over a variable that is assigned later, two functions deep
    <<FnDecl("counter", <<"n">>, <<Var("let", "k", Id("n")),
        Ret(FnExpr(<<"d">>, <<Stmt([Asg(Id("k"), Id("d")) EXCEPT !.op = "ADD"]),
                              Ret(Arrow(<<>>, Bin("ADD", Id("k"), Id("n"))))>>))>>),
      Var("let", "c", CallE(Id("counter"), <<N(1)>>)), Stmt(CallE(Id("c"), <<N(2)>>)),
      Log(CallE(CallE(Id("c"), <<N(3)>>), <<>>))>>,
    \* a constant can neither be assigned nor does a failed assignment change it
    <<Var("const", "k", N(1)), Catching(<<Stmt(Asg(Id("k"), N(2)))>>), Log(Id("k"))>>,
    \* objects: members by name and by value, methods and this
    <<Var("let", "o", Obj(<<Prop("a", N(1)), Prop("m", FnExpr(<<"x">>, <<
        Stmt(Asg(Member(This, "a"), Id("x"))), Ret(Member(This, "a"))>>))>>)),
      Log(Method_(Id("o"), "m", <<N(2)>>)), Stmt(Asg(Index(Id("o"), Str("b")), N(3))),
      Log(Bin("ADD", Index(Id("o"), Str("b")), Member(Id("o"), "a"))),
      Log(CallE(Index(Id("o"), Str("m")), <<N(4)>>))>>,
    \* constructors: the object made, an object returned in its place, a tail call
    <<FnDecl("C", <<"x">>, <<Stmt(Asg(Member(This, "x"), Id("x"))), Ret(N(9))>>),
      FnDecl("D", <<"x">>, <<Ret(Obj(<<Prop("x", Id("x"))>>))>>),
      FnDecl("make", <<"x">>, <<Ret(New_(Id("C"), <<Id("x")>>))>>),
      Log(Member(New_(Id("C"), <<N(1)>>), "x")), Log(Member(New_(Id("D"), <<N(2)>>), "x")),
      Log(Member(CallE(Id("make"), <<N(3)>>), "x"))>>,
    \* spread and rest
    <<[FnDecl("f", <<"x">>, <<Log(Id("x")), Ret(Index(Id("r"), N(1)))>>) EXCEPT !.rest = <<"r">>],
      Var("let", "xs", Arr(<<N(1), N(2), N(3)>>)),
      Log([CallE(Id("f"), <<>>) EXCEPT !.args = Spreads(Id("xs"))]),
      Log(Index([t |-> "array", args |-> <<Arg(N(7))>> \o Spreads(Id("xs"))], N(2)))>>,
    \* errors of names, properties and calls
    <<Catching(<<Log(Id("missing"))>>), Catching(<<Log(Member(Id("undefined"), "p"))>>),
      Catching(<<Stmt(CallE(N(1), <<>>))>>), Catching(<<Stmt(Asg(Index(Id("undefined"), N(1)), N(2)))>>)>>,
    \* operators that evaluate one side
    <<FnDecl("t", <<"x">>, <<Log(Id("x")), Ret(Id("x"))>>),
      Log(Bin("||", CallE(Id("t"), <<N(0)>>), CallE(Id("t"), <<N(1)>>))),
      Log(Bin("&&", CallE(Id("t"), <<N(0)>>), CallE(Id("t"), <<N(1)>>))),
      Log(Cond(CallE(Id("t"), <<N(0)>>), CallE(Id("t"), <<N(1)>>), CallE(Id("t"), <<N(2)>>))),
      Log(Unary("TYPEOF", Unary("LOGICAL_NOT", Id("t")))), Log(Unary("void", CallE(Id("t"), <<N(3)>>)))>>,
    \* assignments whose value is used, updates before and after
    <<Var("let", "i", N(1)), Log([Inc("i") EXCEPT !.prefix = FALSE]), Log(Inc("i")),
      Log(Asg(Id("i"), N(5))), Log([Asg(Id("i"), N(2)) EXCEPT !.op = "MUL"]),
      Log([t |-> "seq", body |-> <<Id("i"), [t |-> "paren", e |-> N(4)]>>])>>,
    \* members that are there, are removed and are looked for
    <<Var("let", "o", Obj(<<Prop("a", N(1)), Prop("b", N(2))>>)),
      Log(Unary("delete", Member(Id("o"), "a"))), Log(Unary("delete", Index(Id("o"), Str("c")))),
      Log(Bin("IN", Str("a"), Id("o"))), Log(Bin("IN", Str("b"), Id("o"))),
      Catching(<<Log(Bin("IN", Str("a"), N(1)))>>), Catching(<<Stmt(Unary("delete", Member(Id("undefined"), "a")))>>),
      Log(Bin("NEQ", Unary("NEG", Member(Id("o"), "b")), N(2))), Log(Bin("NSTRICTEQ", Id("o"), Id("o")))>>,
    \* mutual recursion with tail calls through hoisted functions
    <<FnDecl("even", <<"n">>, <<Ret(Cond(Bin("STRICTEQ", Id("n"), N(0)), L(Bool(TRUE)),
                                        CallE(Id("odd"), <<Bin("SUB", Id("n"), N(1))>>)))>>),
      FnDecl("odd", <<"n">>, <<Ret(Cond(Bin("STRICTEQ", Id("n"), N(0)), L(Bool(FALSE)),
                                       CallE(Id("even"), <<Bin("SUB", Id("n"), N(1))>>)))>>),
      Log(CallE(Id("even"), <<N(3)>>))>>>>

(* Programs without one: they use natives or exhaust the stack.             *)
GenOf(body) == GenDecl("g", <<>>, body)
Start_ == Var("var", "it", CallE(Id("g"), <<>>))
Next_(es) == Log(Member(Method_(Id("it"), "next", es), "value"))
Special ==
  <<\* every frame leaves an operand: the stack ends with a RangeError
    <<FnDecl("f", <<>>, <<Ret(Bin("ADD", CallE(Id("f"), <<>>), N(1)))>>),
      Catching(<<Stmt(CallE(Id("f"), <<>>))>>), Log(N(2))>>,
    <<FnDecl("f", <<>>, <<Ret(Bin("ADD", Method_(Id("f"), "call", <<>>), N(1)))>>),
      Catching(<<Stmt(CallE(Id("f"), <<>>))>>), Log(N(2))>>,
    <<FnDecl("F", <<>>, <<Stmt(Asg(Member(This, "x"), Bin("ADD", New_(Id("F"), <<>>), N(1))))>>),
      Catching(<<Stmt(New_(Id("F"), <<>>))>>)>>,
    \* values go in and out of a generator; it ends and stays so
    <<GenOf(<<Log(Yield_(N(1))), Log(Yield_(N(2))), Ret(N(3))>>), Start_,
      Next_(<<N(7)>>), Next_(<<N(8)>>), Next_(<<N(9)>>), Next_(<<>>)>>,
    \* throw and return before the start, at a yield and after the end
    <<GenOf(<<Catching(<<Stmt(Yield_(N(1)))>>), Stmt(Yield_(N(2)))>>), Start_,
      Catching(<<Stmt(Method_(Id("it"), "throw", <<N(4)>>))>>), Next_(<<>>),
      Catching(<<Stmt(Method_(Id("it"), "throw", <<N(5)>>))>>), Next_(<<>>),
      Stmt(Method_(Id("it"), "return", <<N(6)>>)), Next_(<<>>),
      Log(Member(Method_(Id("it"), "return", <<N(6)>>), "value"))>>,
    \* a generator that calls its own next, and one that ends with an error
    <<GenOf(<<Catching(<<Stmt(Method_(Id("it"), "next", <<>>))>>), Stmt(Yield_(N(1))), Throw_(N(2))>>), Start_,
      Next_(<<>>), Catching(<<Next_(<<>>)>>), Next_(<<>>)>>,
    \* a generator inside a generator, suspended in turn
    <<GenOf(<<Stmt(Yield_(N(1))), Stmt(Yield_(N(2)))>>),
      GenDecl("h", <<"i">>, <<Stmt(Yield_(Member(Method_(Id("i"), "next", <<>>), "value"))),
                              Stmt(Yield_(Bin("ADD", N(10), Yield_(N(3)))))>>),
      Start_, Var("let", "j", CallE(Id("h"), <<Id("it")>>)),
      Log(Member(Method_(Id("j"), "next", <<>>), "value")), Next_(<<>>),
      Log(Member(Method_(Id("j"), "next", <<>>), "value")),
      Log(Member(Method_(Id("j"), "next", <<N(5)>>), "value"))>>,
    \* natives that call functions: call, apply with an element that throws
    <<FnDecl("f", <<"x">>, <<Ret(Member(Id("arguments"), "length"))>>),
      FnDecl("bad", <<>>, <<Throw_(N(3))>>), Var("let", "xs", Arr(<<N(1), N(2)>>)),
      Log(Method_(Id("f"), "call", <<N(0), N(1)>>)), Log(Method_(Id("f"), "apply", <<N(0), Id("xs")>>)),
      Stmt(CallE(Id("getter"), <<Id("xs"), Str("1"), Id("bad")>>)),
      Catching(<<Log(Method_(Id("f"), "apply", <<N(0), Id("xs")>>))>>),
      Catching(<<Log(Method_(N(1), "call", <<>>))>>)>>,
    <<FnDecl("C", <<"x">>, <<Stmt(Asg(Member(This, "x"), Id("x")))>>),
      Var("let", "xs", Arr(<<N(1)>>)),
      Log([New_(Id("C"), <<>>) EXCEPT !.args = Spreads(Id("xs"))])>>,
    \* errors through Spread.js and through a loop over what is not iterable
    <<Catching(<<Log([CallE(Id("log"), <<>>) EXCEPT !.args = Spreads(N(1))])>>),
      Catching(<<ForOf("let", "x", N(1), Log(Id("x")))>>),
      ForIn_("x", Id("undefined"), Log(Id("x"))), ForIn_("x", Obj(<<Prop("p", N(1))>>), Log(Id("x")))>>>>

------------------------------------------------------------------------------
(* Modules: every way to export a value, to import it and to use it, and    *)
(* graphs of modules.                                                       *)
Import(specs, src) == [t |-> "import", src |-> src, specs |-> specs]
Spec_(t, imported, local) == [t |-> t, imported |-> imported, local |-> local]
Export(d) == [t |-> "export", decl |-> d]
ExportDefault(e) == [t |-> "exportdefault", e |-> e]
ExportAs(orig, exported) == [t |-> "exportnamed", specs |-> <<[orig |-> orig, exported |-> exported]>>]
Mod(names, items) == [t |-> "module", names |-> names, body |-> items]

Exporters ==
  <<<<Export(Var("const", "x", N(61)))>>, <<Export(Var("let", "x", N(62)))>>,
    <<Export(FnDecl("x", <<>>, <<Ret(N(63))>>))>>,
    <<Var("const", "y", N(64)), ExportAs("y", "x")>>,
    <<ExportDefault(N(65))>>,
    <<ExportDefault([FnDecl("x", <<>>, <<Ret(N(66))>>) EXCEPT !.t = "function"])>>>>
Importers == <<"named", "renamed", "namespace">>
Uses == <<"here", "arrow", "function">>

Default(ex) == ex.t = "exportdefault"
Specifier(i, how) ==
  CASE how = "namespace" -> Spec_("namespace", "", "z")
    [] Default(Last(Exporters[i])) -> Spec_("default", "", IF how = "named" THEN "x" ELSE "z")
    [] OTHER -> Spec_("named", "x", IF how = "named" THEN "x" ELSE "z")
UseOf(i, how) ==
  LET name == IF Default(Last(Exporters[i])) THEN "default" ELSE "x"
      v == IF how = "namespace" THEN Member(Id("z"), name) ELSE Id(IF how = "named" THEN "x" ELSE "z")
  IN LogE(IF i \in {3, 6} THEN CallE(v, <<>>) ELSE v)
User(i, how, where) ==
  <<Import(<<Specifier(i, how)>>, "m")>>
  \o CASE where = "here" -> <<Stmt(UseOf(i, how))>>
       [] where = "arrow" -> <<Var("const", "f", Arrow(<<>>, UseOf(i, how))), Stmt(CallE(Id("f"), <<>>))>>
       [] where = "function" -> <<FnDecl("f", <<>>, <<Stmt(UseOf(i, how))>>), Stmt(CallE(Id("f"), <<>>))>>
ModuleShapes ==
  LET n == Len(Exporters)
  IN [k \in 1 .. n * 9 |-> [i |-> 1 + (k % n), how |-> Importers[1 + ((k \div n) % 3)],
                            where |-> Uses[1 + ((k - 1) \div (n * 3))]]]
ModuleGraphs ==
  <<\* a module that two others import is evaluated once, before them
    <<Mod({"c"}, <<Log(N(71)), Export(Var("const", "x", N(72)))>>),
      Mod({"a"}, <<Import(<<Spec_("named", "x", "x")>>, "c"), Log(Id("x")), ExportDefault(N(73))>>),
      Mod({"b"}, <<Log(N(74)), Import(<<>>, "c")>>),
      Mod({"main"}, <<Import(<<Spec_("default", "", "a")>>, "a"), Import(<<>>, "b"), Log(Id("a"))>>)>>,
    \* an error in a module ends the program
    <<Mod({"a"}, <<Log(N(75)), Throw_(N(76)), Export(Var("const", "x", N(77)))>>),
      Mod({"main"}, <<Import(<<Spec_("named", "x", "x")>>, "a"), Log(Id("x"))>>)>>,
    \* functions of a module call each other and keep its constants
    <<Mod({"a"}, <<Var("const", "k", N(78)), FnDecl("g", <<>>, <<Ret(Id("k"))>>),
                   Export(FnDecl("x", <<>>, <<Ret(CallE(Id("g"), <<>>))>>))>>),
      Mod({"main"}, <<Import(<<Spec_("named", "x", "x")>>, "a"), Log(CallE(Id("x"), <<>>))>>)>>,
    \* an imported variable is assigned by its module
    <<Mod({"a"}, <<Export(Var("let", "x", N(1))),
                   Export(Var("const", "set", FnExpr(<<>>, <<Stmt(Asg(Id("x"), N(2)))>>)))>>),
      Mod({"main"}, <<Import(<<Spec_("named", "x", "x"), Spec_("named", "set", "set")>>, "a"),
                      Stmt(CallE(Id("set"), <<>>)), Log(Id("x"))>>)>>,
    \* one file under two names
    <<Mod({"a", "./a"}, <<Log(N(79))>>), Mod({"main"}, <<Import(<<>>, "a"), Import(<<>>, "./a")>>)>>,
    \* two modules that import each other
    <<Mod({"a"}, <<Import(<<>>, "main"), Log(N(80))>>), Mod({"main"}, <<Import(<<>>, "a"), Log(N(81))>>)>>,
    \* imports stand before what they are written behind
    <<Mod({"a"}, <<Log(N(82))>>), Mod({"main"}, <<Log(N(83)), Import(<<>>, "a")>>)>>>>
ModulePrograms ==
  [k \in DOMAIN ModuleShapes |->
     LET x == ModuleShapes[k]
     IN <<Mod({"m"}, Exporters[x.i]), Mod({"main"}, User(x.i, x.how, x.where))>>] \o ModuleGraphs

(* What is imported is a constant of the importer, made when the import is  *)
(* executed: not the exporter's variable, not visible to the functions      *)
(* declared around it, and right only for a default import and an import    *)
(* that keeps the name.                                                     *)
ModuleDeviates(k) ==
  IF k \in DOMAIN ModuleShapes
  THEN LET x == ModuleShapes[k]
       IN \/ x.where = "function"
          \/ x.how = "namespace"
          \/ x.how = "renamed" /\ ~ Default(Last(Exporters[x.i]))
  ELSE k - Len(ModuleShapes) \in {4, 5, 6, 7}

(* All programs: nested statements, then plain ones, modules and special    *)
(* ones.  The units of a program, the first of which is Spread.js, share a  *)
(* table of code blocks.                                                    *)
Map(f(_), s) == <<>> \o [i \in DOMAIN s |-> f(s[i])]
Of(t, body) == <<[t |-> t, names |-> {}, body |-> body]>>
Trees == Map(Body_, Shapes) \o Plain
AllPrograms ==
  Map(LAMBDA body : Of("eval", body), Trees) \o ModulePrograms \o Map(LAMBDA body : Of("script", body), Special)
SpreadUnit == [t |-> "code", names |-> {}, params |-> <<"iterable">>, body |-> SpreadJs]
Joined(c, names, files) == [c |-> c, files |-> [name \in names |-> Len(c.blocks)] @@ files]
Join(x, n) == Joined(node(n, FALSE, FALSE, x.c), n.names, x.files)
Executable(x) == [blocks |-> x.c.blocks, err |-> x.c.err, files |-> x.files]
Link(units) == Executable(FoldLeft(Join, [c |-> Nothing, files |-> <<>>], <<SpreadUnit>> \o units))
Compiled == Map(Link, AllPrograms)
Loaded == Map(LAMBDA k : [blocks |-> k.blocks, files |-> k.files], Compiled)
Meanings == Map(Meaning, Trees) \o Map(ModuleMeaning, ModulePrograms)
Conforming ==
  LET deviates == Map(Deviates, Shapes) \o [i \in DOMAIN Plain |-> FALSE]
                  \o [i \in DOMAIN ModulePrograms |-> ModuleDeviates(i)]
  IN {p \in DOMAIN deviates : ~ deviates[p]}
=============================================================================
