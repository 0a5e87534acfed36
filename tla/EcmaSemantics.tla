--------------------------- MODULE EcmaSemantics ---------------------------
(***************************************************************************)
(* What a program means according to the language standard, over the same  *)
(* syntax trees the compiler reads: a big-step semantics in store-passing  *)
(* style.  It is what the compiler and the interpreter together promise.   *)
(*                                                                         *)
(* An environment maps names to locations; a store s has the cells behind  *)
(* the locations, the heap, what has been logged, and the loops that wait  *)
(* for a generator's next value: a loop over a generator runs the body of  *)
(* the generator, in which a yield runs the body of the loop.  Globals     *)
(* that the program does not declare are not modelled, except log.         *)
(***************************************************************************)
EXTENDS Values

(* The outcome of an expression: its value or what it throws; of a          *)
(* statement: a completion.                                                 *)
Val(v, s) == [ok |-> TRUE, v |-> v, s |-> s]
Exn(v, s) == [ok |-> FALSE, v |-> v, s |-> s]
Completes(t, v, s) == [t |-> t, v |-> v, s |-> s]
Normal(s) == Completes("normal", Undefined, s)
FromExpr(x) == IF x.ok THEN Normal(x.s) ELSE Completes("throw", x.v, x.s)
AddTo(cell, s) == [s EXCEPT !.heap = Append(@, cell)]
NewRef(s) == Ref(Len(s.heap) + 1)
Raise(kind, s) == Exn(NewRef(s), AddTo([t |-> "error", kind |-> kind, props |-> <<>>], s))

(* A loop that is left while its generator is suspended abandons it.        *)
Abandon == "abandon"
Escapes(x) == x.v.k = Abandon

(* Locations.                                                               *)
Declare_(names, env, s) ==
  LET seq == SetToSeq(names)
      at0 == Len(s.cells)
  IN [env |-> [x \in names |-> at0 + (CHOOSE i \in DOMAIN seq : seq[i] = x)] @@ env,
      s |-> [s EXCEPT !.cells = @ \o [i \in DOMAIN seq |-> [v |-> Undefined, const |-> FALSE]]]]
Init_(name, v, const, env, s) == [s EXCEPT !.cells[env[name]] = [v |-> v, const |-> const]]
Assign(name, v, env, s) ==
  IF s.cells[env[name]].const THEN Raise("TypeError", s)
  ELSE Val(v, [s EXCEPT !.cells[env[name]].v = v])

(* The names a function's body declares with var, and a block's own.        *)
RECURSIVE VarNames(_)
VarNames(n) ==
  (IF n.t = "var" /\ n.kind = "var" THEN {n.name} ELSE {})
  \cup IF n.t \in {"function", "arrow", "fn"} THEN {}
       ELSE UNION {VarNames(Parts(n)[i]) : i \in DOMAIN Parts(n)}
OfSeq(Op_(_), body) == UNION {Op_(body[i]) : i \in DOMAIN body}
LexNames(body) ==
  {body[i].name : i \in {j \in DOMAIN body : body[j].t = "var" /\ body[j].kind # "var"}}
FnNames(body) == {body[i].name : i \in {j \in DOMAIN body : body[j].t = "fn"}}

(* Evaluates an expression or executes a statement.                         *)
RECURSIVE Do(_, _, _)
Eval(e, env, s) == Do(e, env, s)
Exec(n, env, s) == Do(n, env, s)

Closure(f, env, s) ==
  Val(NewRef(s), AddTo([t |-> "function", f |-> f, env |-> env, props |-> <<>>], s))

RECURSIVE ExecAll(_, _, _)
Then(c, rest, env) == IF c.t = "normal" THEN ExecAll(rest, env, c.s) ELSE c
ExecAll(body, env, s) ==
  IF body = <<>> THEN Normal(s) ELSE Then(Exec(Head(body), env, s), Tail(body), env)

(* A list of statements with a scope of its own.                            *)
Scoped(body, env, s) ==
  LET d == Declare_(LexNames(body) \cup FnNames(body), env, s)
      hoist(st, b) == LET c == Closure(b, d.env, st)
                      IN Init_(b.name, c.v, FALSE, d.env, c.s)
  IN ExecAll(body, d.env, FoldLeft(hoist, d.s, SelectSeq(body, LAMBDA b : b.t = "fn")))

------------------------------------------------------------------------------
(* Functions.                                                               *)
Body(f, env, s) ==
  IF f.t = "arrow" /\ f.isExpr
  THEN LET x == Eval(f.body[1], env, s) IN IF x.ok THEN Completes("return", x.v, x.s) ELSE FromExpr(x)
  ELSE Scoped(f.body, env, s)

(* The parameters, the rest array and this become variables of the call.    *)
BindRest(f, args, env, s) ==
  IF f.rest = <<>> THEN s
  ELSE Init_(f.rest[1], NewRef(s), FALSE, env, AddTo(Array(SubSeq(args, Len(f.params) + 1, Len(args))), s))
BindAll(f, this, args, d) ==
  LET bind(st, i) == Init_(f.params[i], IF i \in DOMAIN args THEN args[i] ELSE Undefined, FALSE, d.env, st)
      s == IF f.t = "arrow" THEN d.s ELSE Init_("this", this, FALSE, d.env, d.s)
  IN BindRest(f, args, d.env, FoldLeft(bind, s, [i \in DOMAIN f.params |-> i]))

Returned(c) == IF c.t = "throw" THEN Exn(c.v, c.s)
               ELSE Val(IF c.t = "return" THEN c.v ELSE Undefined, c.s)
RunFn(f, env, s) ==
  IF f.gen THEN Val(NewRef(s), AddTo([t |-> "generator", f |-> f, env |-> env, props |-> <<>>], s))
  ELSE Returned(Body(f, env, s))
EnterFn(f, this, args, d) == RunFn(f, d.env, BindAll(f, this, args, d))
NamesOf(f) ==
  {f.params[i] : i \in DOMAIN f.params} \cup {f.rest[i] : i \in DOMAIN f.rest}
  \cup OfSeq(VarNames, f.body) \cup (IF f.t = "arrow" THEN {} ELSE {"this"})

CallFn(fv, this, args, s) ==
  IF fv.k # "ref" \/ s.heap[fv.n].t \notin {"function", "native"} THEN Raise("TypeError", s)
  ELSE LET c == s.heap[fv.n]
       IN IF c.t = "native"
          THEN Val(Undefined, [s EXCEPT !.out = Append(@, Show(IF args = <<>> THEN Undefined ELSE args[1], s))])
          ELSE EnterFn(c.f, this, args, Declare_(NamesOf(c.f), c.env, s))

Construct(fv, args, s) ==
  LET r == CallFn(fv, NewRef(s), args, AddTo(Object(<<>>), s))
  IN IF ~ r.ok \/ r.v.k = "ref" THEN r ELSE Val(NewRef(s), r.s)

------------------------------------------------------------------------------
(* Expressions.                                                             *)
GetProp(o, key, s) ==
  IF o.k \in {"undefined", "null"} THEN Raise("TypeError", s)
  ELSE LET found == Lookup(o, key, s) IN Val(IF found = <<>> THEN Undefined ELSE found[1], s)

(* Evaluates a list of expressions and hands the values on.                 *)
RECURSIVE EvalSeq(_, _, _, _), EvalArgs(_, _, _, _)
EvalSeq(es, vs, env, s) ==
  IF es = <<>> THEN [ok |-> TRUE, v |-> vs, s |-> s]
  ELSE LET x == Eval(Head(es), env, s)
       IN IF x.ok THEN EvalSeq(Tail(es), Append(vs, x.v), env, x.s) ELSE x
EvalArgs(args, vs, env, s) ==
  IF args = <<>> THEN [ok |-> TRUE, v |-> vs, s |-> s]
  ELSE LET x == Eval(Head(args).e, env, s)
       IN IF ~ x.ok THEN x
          ELSE EvalArgs(Tail(args), IF Head(args).spread THEN vs \o x.s.heap[x.v.n].elems ELSE Append(vs, x.v),
                        env, x.s)

(* Stores a value in a name or a property that has been evaluated.          *)
EvalPut(target, v, env, s) ==
  IF target.t = "ident" THEN Assign(target.name, v, env, s)
  ELSE LET x == EvalSeq(<<target.obj>> \o target.key, <<>>, env, s)
       IN IF ~ x.ok THEN x
          ELSE IF x.v[1].k \in {"undefined", "null"} THEN Raise("TypeError", x.s)
          ELSE Val(v, PutProp(x.v[1], IF target.key = <<>> THEN target.name ELSE KeyOf(x.v[2]), v, x.s))

GetMember(e, x) ==
  IF ~ x.ok THEN x ELSE GetProp(x.v[1], IF e.key = <<>> THEN e.name ELSE KeyOf(x.v[2]), x.s)
EvalMember(e, env, s) == GetMember(e, EvalSeq(<<e.obj>> \o e.key, <<>>, env, s))

(* The value for this and the function of a call, then its arguments.       *)
WithThis(this, f) == IF f.ok THEN Val(<<this, f.v>>, f.s) ELSE f
GetMethod(e, x) == IF x.ok THEN WithThis(x.v[1], GetMember(e, x)) ELSE x
EvalCallee(e, env, s) ==
  IF e.t = "member" THEN GetMethod(e, EvalSeq(<<e.obj>> \o e.key, <<>>, env, s))
  ELSE WithThis(Undefined, Eval(e, env, s))
ApplyTo(e, f, a) ==
  IF ~ a.ok THEN a
  ELSE IF e.t = "new" THEN Construct(f[2], a.v, a.s) ELSE CallFn(f[2], f[1], a.v, a.s)
EvalArgsOf(e, env, f) == IF f.ok THEN ApplyTo(e, f.v, EvalArgs(e.args, <<>>, env, f.s)) ELSE f
EvalCall(e, env, s) == EvalArgsOf(e, env, EvalCallee(e.callee, env, s))

EvalBin(e, env, s) ==
  LET l == Eval(e.l, env, s)
      r == Eval(e.r, env, l.s)
  IN IF ~ l.ok THEN l
     ELSE IF e.op = "||" /\ to_boolean(l.v) THEN l
     ELSE IF e.op = "&&" /\ ~ to_boolean(l.v) THEN l
     ELSE IF ~ r.ok \/ e.op \in {"||", "&&"} THEN r
     ELSE IF e.op = "IN"
     THEN IF is_jsobject(r.v, r.s) THEN Val(Bool(Lookup(r.v, KeyOf(l.v), r.s) # <<>>), r.s) ELSE Raise("TypeError", r.s)
     ELSE Val(Binary(e.op, l.v, r.v), r.s)

RECURSIVE ForEach(_, _, _, _)
EvalYield(e, env, s) ==
  LET x == IF e.e = <<>> THEN Val(Undefined, s) ELSE Eval(e.e[1], env, s)
      loop == Last(x.s.loops)
      s1 == [x.s EXCEPT !.loops = Front(@)]
      c == ForEach(<<x.v>>, loop.n, loop.env, s1)
      s2 == [c.s EXCEPT !.loops = Append(@, loop)]
  IN IF ~ x.ok THEN x
     ELSE IF c.t = "normal" THEN Val(Undefined, s2)
     ELSE Exn(Value(Abandon, 0, ""), [s2 EXCEPT !.left = c])

EvalObject(e, env, s) ==
  LET x == EvalSeq([i \in DOMAIN e.props |-> e.props[i].e], <<>>, env, s)
      keyOf(p) == IF p.key = <<>> THEN p.name ELSE KeyOf(p.key[1])
      add(m, i) == PutProp(NewRef(x.s), keyOf(e.props[i]), x.v[i], m)
  IN IF ~ x.ok THEN x ELSE Val(NewRef(x.s), FoldLeft(add, AddTo(Object(<<>>), x.s), [i \in DOMAIN e.props |-> i]))

EvalUpdate(e, env, s) ==
  LET x == Eval(e.e, env, s)
      new == Binary(e.op, x.v, Num(1))
      p == EvalPut(e.e, new, env, x.s)
  IN IF ~ x.ok THEN x ELSE IF ~ p.ok THEN p ELSE Val(IF e.prefix THEN new ELSE to_number(x.v), p.s)

EvalAssign(e, env, s) ==
  LET old == IF e.op = "=" THEN Val(Undefined, s) ELSE Eval(e.left, env, s)
      r == Eval(e.right, env, old.s)
  IN IF ~ old.ok THEN old ELSE IF ~ r.ok THEN r
     ELSE EvalPut(e.left, IF e.op = "=" THEN r.v ELSE Binary(e.op, old.v, r.v), env, r.s)

EvalUnary(e, env, s) ==
  LET x == Eval(e.e, env, s)
  IN IF ~ x.ok THEN x
     ELSE Val(CASE e.op = "NEG" -> Negate(x.v)
                [] e.op = "LOGICAL_NOT" -> Bool(~ to_boolean(x.v))
                [] e.op = "TYPEOF" -> String(TypeOf(x.v, x.s))
                [] e.op = "void" -> Undefined, x.s)

(* delete of a property.                                                    *)
EvalDelete(e, env, s) ==
  LET x == EvalSeq(<<e.obj>> \o e.key, <<>>, env, s)
  IN IF ~ x.ok THEN x
     ELSE IF x.v[1].k \in {"undefined", "null"} THEN Raise("TypeError", x.s)
     ELSE Val(Bool(TRUE), RemoveProp(x.v[1], IF e.key = <<>> THEN e.name ELSE KeyOf(x.v[2]), x.s))

Expression(e, env, s) ==
  CASE e.t = "lit" -> Val(e.v, s)
    [] e.t = "paren" -> Eval(e.e, env, s)
    [] e.t = "this" -> Val(s.cells[env["this"]].v, s)
    [] e.t = "ident" -> IF e.name = "undefined" THEN Val(Undefined, s)
                        ELSE IF e.name \in DOMAIN env THEN Val(s.cells[env[e.name]].v, s)
                        ELSE IF e.name = "log" THEN Val(Ref(1), s) ELSE Raise("ReferenceError", s)
    [] e.t = "member" -> EvalMember(e, env, s)
    [] e.t \in {"call", "new"} -> EvalCall(e, env, s)
    [] e.t = "unary" -> IF e.op = "delete" THEN EvalDelete(e.e, env, s) ELSE EvalUnary(e, env, s)
    [] e.t = "update" -> EvalUpdate(e, env, s)
    [] e.t = "assign" -> EvalAssign(e, env, s)
    [] e.t = "bin" -> EvalBin(e, env, s)
    [] e.t \in {"function", "arrow"} -> Closure(e, env, s)
    [] e.t = "seq" -> LET x == EvalSeq(e.body, <<>>, env, s) IN IF x.ok THEN Val(Last(x.v), x.s) ELSE x
    [] e.t = "array" -> LET x == EvalArgs(e.args, <<>>, env, s)
                        IN IF x.ok THEN Val(NewRef(x.s), AddTo(Array(x.v), x.s)) ELSE x
    [] e.t = "object" -> EvalObject(e, env, s)
    [] e.t = "cond" -> LET x == Eval(e.test, env, s)
                       IN IF ~ x.ok THEN x ELSE Eval(IF to_boolean(x.v) THEN e.cons ELSE e.alt[1], env, x.s)
    [] e.t = "yield" -> EvalYield(e, env, s)

------------------------------------------------------------------------------
(* Statements.                                                              *)
ExecVar(n, env, s) ==
  LET x == IF n.init = <<>> THEN Val(Undefined, s) ELSE Eval(n.init[1], env, s)
  IN IF ~ x.ok THEN FromExpr(x)
     ELSE IF n.init = <<>> /\ n.kind = "var" THEN Normal(s)
     ELSE Normal(Init_(n.name, x.v, n.kind = "const", env, x.s))

(* A loop with a test and an update, after its initialisation.              *)
RECURSIVE LoopWhile(_, _, _)
LoopWhile(n, env, s) ==
  LET x == IF n.test = <<>> THEN Val(Bool(TRUE), s) ELSE Eval(n.test[1], env, s)
      c == Exec(n.body, env, x.s)
      u == IF n.update = <<>> THEN Val(Undefined, c.s) ELSE Eval(n.update[1], env, c.s)
  IN IF ~ x.ok THEN FromExpr(x)
     ELSE IF ~ to_boolean(x.v) \/ c.t = "break" THEN Normal(IF to_boolean(x.v) THEN c.s ELSE x.s)
     ELSE IF c.t \in {"return", "throw"} THEN c
     ELSE IF ~ u.ok THEN FromExpr(u) ELSE LoopWhile(n, env, u.s)

(* The body of a for-in or for-of for each of a sequence of values; break   *)
(* is left as a completion.                                                 *)
ForEach(vs, n, env, s) ==
  IF vs = <<>> THEN Normal(s)
  ELSE LET d == IF n.left = <<>> THEN [env |-> env, s |-> s] ELSE Declare_({n.name}, env, s)
           c == Exec(n.body, d.env, Init_(n.name, Head(vs), FALSE, d.env, d.s))
       IN IF c.t \in {"normal", "continue"} THEN ForEach(Tail(vs), n, env, c.s) ELSE c
EndLoop(c) == IF c.t = "break" THEN Normal(c.s) ELSE c

ExecForIn(n, env, s) ==
  LET x == Eval(n.right, env, s)
      c == x.s.heap[x.v.n]
      names == IF x.v.k # "ref" THEN <<>>
               ELSE IF c.t = "array" THEN [i \in DOMAIN c.elems |-> String(ToString(i - 1))]
               ELSE LET keys == SetToSeq(DOMAIN c.props) IN [i \in DOMAIN keys |-> String(keys[i])]
  IN IF x.ok THEN EndLoop(ForEach(names, n, env, x.s)) ELSE FromExpr(x)

ExecForOf(n, env, s) ==
  LET x == Eval(n.right, env, s)
      c == x.s.heap[x.v.n]
      g == Body(c.f, c.env, [x.s EXCEPT !.loops = Append(@, [n |-> n, env |-> env])])
      after == [g.s EXCEPT !.loops = Front(@)]
  IN IF ~ x.ok THEN FromExpr(x)
     ELSE IF x.v.k # "ref" \/ c.t \notin {"array", "generator"} THEN FromExpr(Raise("TypeError", x.s))
     ELSE IF c.t = "array" THEN EndLoop(ForEach(c.elems, n, env, x.s))
     ELSE IF g.t = "throw" /\ Escapes(g) THEN EndLoop(Completes(g.s.left.t, g.s.left.v, after))
     ELSE IF g.t = "throw" THEN Completes("throw", g.v, after)
     ELSE Normal(after)

(* The cases after the first that matches are executed in order; matched    *)
(* says whether one has.                                                    *)
RECURSIVE Cases(_, _, _, _, _, _)
Cases(cases, i, matched, v, env, s) ==
  IF i > Len(cases)
  THEN IF matched \/ ~ \E j \in DOMAIN cases : cases[j].test = <<>> THEN Normal(s)
       ELSE Cases(cases, CHOOSE j \in DOMAIN cases : cases[j].test = <<>>, TRUE, v, env, s)
  ELSE IF matched
  THEN LET c == ExecAll(cases[i].body, env, s)
       IN IF c.t = "normal" THEN Cases(cases, i + 1, TRUE, v, env, c.s) ELSE c
  ELSE IF cases[i].test = <<>> THEN Cases(cases, i + 1, FALSE, v, env, s)
  ELSE LET x == Eval(cases[i].test[1], env, s)
       IN IF ~ x.ok THEN FromExpr(x)
          ELSE IF x.v = v /\ v # NaN THEN Cases(cases, i, TRUE, v, env, x.s)
          ELSE Cases(cases, i + 1, FALSE, v, env, x.s)
ExecSwitch(n, env, s) ==
  LET x == Eval(n.disc, env, s)
  IN IF x.ok THEN EndLoop(Cases(n.cases, 1, FALSE, x.v, env, x.s)) ELSE FromExpr(x)

ExecTry(n, env, s) ==
  LET b == Scoped(n.block, env, s)
      d == Declare_({n.param}, env, b.s)
      c == IF b.t = "throw" /\ ~ Escapes(b) /\ n.handler # <<>>
           THEN Scoped(n.handler[1], d.env, Init_(n.param, b.v, FALSE, d.env, d.s)) ELSE b
      f == Scoped(n.finalizer[1], env, c.s)
  IN IF n.finalizer = <<>> THEN c
     ELSE IF f.t = "normal" THEN [c EXCEPT !.s = f.s] ELSE f

ExecIf(n, env, s) ==
  LET x == Eval(n.test, env, s)
  IN IF ~ x.ok THEN FromExpr(x)
     ELSE IF to_boolean(x.v) THEN Exec(n.cons, env, x.s)
     ELSE IF n.alt = <<>> THEN Normal(x.s) ELSE Exec(n.alt[1], env, x.s)

ExecFor(n, env, s) ==
  LET lexical == n.init # <<>> /\ n.init[1].t = "var" /\ n.init[1].kind # "var"
      d == Declare_(IF lexical THEN {n.init[1].name} ELSE {}, env, s)
      i == IF n.init = <<>> THEN Normal(d.s)
           ELSE IF n.init[1].t = "var" THEN ExecVar(n.init[1], d.env, d.s)
           ELSE FromExpr(Eval(n.init[1], d.env, d.s))
  IN IF i.t = "normal" THEN LoopWhile(n, d.env, i.s) ELSE i

Statement(n, env, s) ==
  CASE n.t = "expr" -> FromExpr(Eval(n.e, env, s))
    [] n.t = "block" -> Scoped(n.body, env, s)
    [] n.t = "return" -> LET x == IF n.e = <<>> THEN Val(Undefined, s) ELSE Eval(n.e[1], env, s)
                         IN IF x.ok THEN Completes("return", x.v, x.s) ELSE FromExpr(x)
    [] n.t \in {"break", "continue"} -> Completes(n.t, Undefined, s)
    [] n.t = "throw" -> LET x == Eval(n.e, env, s) IN Completes("throw", x.v, x.s)
    [] n.t = "var" -> ExecVar(n, env, s)
    [] n.t \in {"fn", "empty"} -> Normal(s)
    [] n.t = "if" -> ExecIf(n, env, s)
    [] n.t = "while" -> LoopWhile([test |-> <<n.test>>, body |-> n.body, update |-> <<>>], env, s)
    [] n.t = "for" -> ExecFor(n, env, s)
    [] n.t = "forin" -> ExecForIn(n, env, s)
    [] n.t = "forof" -> ExecForOf(n, env, s)
    [] n.t = "switch" -> ExecSwitch(n, env, s)
    [] n.t = "try" -> ExecTry(n, env, s)

Do(n, env, s) == IF n.t \in Statements THEN Statement(n, env, s) ELSE Expression(n, env, s)

(* What a program logs and how it ends.                                     *)
Outcome(c) ==
  [out |-> c.s.out, ok |-> c.t # "throw", v |-> IF c.t = "throw" THEN Show(c.v, c.s) ELSE Undefined]
Global(body, d) == Scoped(body, d.env, d.s)
Meaning(body) ==
  Outcome(Global(body, Declare_({"this"} \cup OfSeq(VarNames, body), <<>>,
                   [cells |-> <<>>, out |-> <<>>, loops |-> <<>>, left |-> <<>>,
                    heap |-> <<[t |-> "native", props |-> <<>>]>>])))

------------------------------------------------------------------------------
(* Modules: mods is a sequence of modules, each with the names it is        *)
(* imported by; the last one is the main module.  First every module's      *)
(* names get their locations, an imported name that of the name exported;   *)
(* then each module is evaluated once, after the modules it imports.        *)
Resolve(mods, name) == CHOOSE i \in DOMAIN mods : name \in mods[i].names
ModuleStatement(n) ==
  CASE n.t = "export" -> <<n.decl>>
    [] n.t = "exportdefault" /\ n.e.t = "function" /\ n.e.name # "" -> <<[n.e EXCEPT !.t = "fn"]>>
    [] n.t = "exportdefault" -> <<[t |-> "var", kind |-> "const", name |-> "*default*", init |-> <<n.e>>]>>
    [] n.t \in {"import", "exportnamed"} -> <<>>
    [] OTHER -> <<n>>
ModuleBody(mod) == FlattenSeq([i \in DOMAIN mod.body |-> ModuleStatement(mod.body[i])])
(* The local name behind an exported one.                                   *)
ExportsOf(mod) ==
  LET of(n) == CASE n.t = "export" -> n.decl.name :> n.decl.name
                 [] n.t = "exportdefault" ->
                      "default" :> (IF n.e.t = "function" /\ n.e.name # "" THEN n.e.name ELSE "*default*")
                 [] n.t = "exportnamed" ->
                      [x \in {n.specs[i].exported : i \in DOMAIN n.specs} |->
                         n.specs[CHOOSE i \in DOMAIN n.specs : n.specs[i].exported = x].orig]
                 [] OTHER -> <<>>
  IN FoldLeft(LAMBDA f, n : of(n) @@ f, <<>>, mod.body)

ImportsOf(mod) == SelectSeq(mod.body, LAMBDA n : n.t = "import")
OwnNames(mod) ==
  LET body == ModuleBody(mod)
  IN LexNames(body) \cup FnNames(body) \cup OfSeq(VarNames, body)
     \cup UNION {{d.specs[j].local : j \in {k \in DOMAIN d.specs : d.specs[k].t = "namespace"}} :
                   d \in {mod.body[i] : i \in {k \in DOMAIN mod.body : mod.body[k].t = "import"}}}

(* The environments of all modules, imported names included.                *)
OwnEnvs(mods, s0) ==
  FoldLeft(LAMBDA x, mod : LET d == Declare_(OwnNames(mod), <<>>, x.s)
                           IN [envs |-> Append(x.envs, d.env), s |-> d.s],
           [envs |-> <<>>, s |-> s0], mods)
Imported(mods, envs, d) ==
  LET i == Resolve(mods, d.src)
      add(f, x) == CASE x.t = "named" -> (x.local :> envs[i][ExportsOf(mods[i])[x.imported]]) @@ f
                     [] x.t = "default" -> (x.local :> envs[i][ExportsOf(mods[i])["default"]]) @@ f
                     [] x.t = "namespace" -> f
  IN FoldLeft(add, <<>>, d.specs)
LinkedEnvs(mods, envs) ==
  [i \in DOMAIN mods |-> FoldLeft(LAMBDA f, d : Imported(mods, envs, d) @@ f, envs[i], ImportsOf(mods[i]))]

(* A namespace object shows the exports as they are when it is imported.    *)
Namespaces(i, mods, envs, st) ==
  LET bind(s, d) ==
        LET j == Resolve(mods, d.src)
            ex == ExportsOf(mods[j])
            object == Object([x \in DOMAIN ex |-> s.cells[envs[j][ex[x]]].v])
        IN IF d.specs # <<>> /\ d.specs[1].t = "namespace"
           THEN Init_(d.specs[1].local, NewRef(s), TRUE, envs[i], AddTo(object, s)) ELSE s
  IN FoldLeft(bind, st, ImportsOf(mods[i]))

Hoisted(body, env, s) ==
  FoldLeft(LAMBDA st, b : LET c == Closure(b, env, st) IN Init_(b.name, c.v, FALSE, env, c.s),
           s, SelectSeq(body, LAMBDA b : b.t = "fn"))

RECURSIVE EvalModule(_, _, _, _)
EvalModule(i, mods, envs, x) ==
  IF i \in x.done \/ x.c.t # "normal" THEN x
  ELSE LET y == FoldLeft(LAMBDA z, d : EvalModule(Resolve(mods, d.src), mods, envs, z),
                         [x EXCEPT !.done = @ \cup {i}], ImportsOf(mods[i]))
           body == ModuleBody(mods[i])
       IN IF y.c.t # "normal" THEN y
          ELSE [y EXCEPT !.c = ExecAll(body, envs[i], Hoisted(body, envs[i], Namespaces(i, mods, envs, y.c.s)))]

ModuleMeaning(mods) ==
  LET own == OwnEnvs(mods, [cells |-> <<>>, out |-> <<>>, loops |-> <<>>, left |-> <<>>,
                            heap |-> <<[t |-> "native", props |-> <<>>]>>])
  IN Outcome(EvalModule(Len(mods), mods, LinkedEnvs(mods, own.envs), [done |-> {}, c |-> Normal(own.s)]).c)
=============================================================================
