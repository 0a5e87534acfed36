---------------------------- MODULE ByteCompiler ----------------------------
(***************************************************************************)
(* The bytecode compiler (crates/starlight/src/bytecompiler.rs): a syntax  *)
(* tree, as the parser delivers it, to code blocks.                        *)
(*                                                                         *)
(* Trees are records whose field t names the node; an optional child is a  *)
(* sequence of at most one node.  The state of a ByteCompiler is a record  *)
(* c that every operator takes last and returns: code (instructions so     *)
(* far), scopes (outermost first), free (variable_freelist), nvars         *)
(* (code.var_count), lci, blocks (the code blocks finished so far, of all  *)
(* functions), args (code.args_at), top (top_level) and err.  Positions    *)
(* and jump offsets count instructions instead of bytes; names and         *)
(* literals stand in the instruction instead of an index to their table.   *)
(***************************************************************************)
EXTENDS Integers, Sequences, FiniteSets, SequencesExt, TLC

Ins(op, a) == [op |-> op, a |-> a]
Op(op) == Ins(op, 0)
None == -1

(* Values of the running program; the compiler only needs the literals.    *)
Value(k, n, s) == [k |-> k, n |-> n, s |-> s]
Undefined == Value("undefined", 0, "")
Num(n) == Value("int", n, "")
Bool(b) == Value("bool", IF b THEN 1 ELSE 0, "")
String(s) == Value("string", 0, s)

emit(is, c) == [c EXCEPT !.code = @ \o is]
fail(why, c) == [c EXCEPT !.err = IF @ = "" THEN why ELSE @]
drop(used, c) == IF used THEN c ELSE emit(<<Op("POP")>>, c)

(* cjmp, jmp, jmp_custom and try_ emit a placeholder and return its        *)
(* position; what they return as a closure is patch.                       *)
pos(c) == Len(c.code) + 1
patch(p, op, c) == [c EXCEPT !.code[p] = Ins(op, Len(c.code) - p)]
patchAll(ps, c) == FoldLeft(LAMBDA k, p : patch(p, "JMP", k), c, ps)
goto(to, c) == emit(<<Ins("JMP", to - pos(c) - 1)>>, c)

------------------------------------------------------------------------------
(* Scopes and variables.                                                    *)
depth(c) == Last(c.scopes).depth
Bind(name, ix, kind, c) ==
  [c EXCEPT !.scopes[Len(c.scopes)].vars = (name :> [ix |-> ix, kind |-> kind]) @@ @]
add_var(name, c) == [Bind(name, c.nvars, "var", c) EXCEPT !.nvars = @ + 1]

lookup_scope(name, c) ==
  LET found == {i \in DOMAIN c.scopes : name \in DOMAIN c.scopes[i].vars}
  IN IF found = {} THEN 0 ELSE CHOOSE i \in found : \A j \in found : j <= i

access_var(name, c) ==
  LET i == lookup_scope(name, c)
  IN IF i = 0 THEN [t |-> "global", name |-> name]
     ELSE [t |-> "variable", ix |-> c.scopes[i].vars[name].ix,
           depth |-> depth(c) - c.scopes[i].depth]

(* A new variable takes the last index freed, or one more variable.         *)
fresh(c) == IF c.free = <<>> THEN c.nvars ELSE Last(c.free)
take(c) == IF c.free = <<>> THEN [c EXCEPT !.nvars = @ + 1]
                            ELSE [c EXCEPT !.free = Front(@)]
add_let(name, c) == Bind(name, fresh(c), "let", take(c))
decl_let(name, c) == emit(<<Ins("DECL_LET", fresh(c))>>, add_let(name, c))
create_const(name, c) ==
  emit(<<Ins("DECL_CONST", fresh(c))>>, Bind(name, fresh(c), "const", take(c)))
(* The analysis must have declared the constant: unreachable! otherwise.    *)
decl_const(name, c) ==
  IF lookup_scope(name, c) = 0 THEN fail("unreachable", c)
  ELSE emit(<<Ins("DECL_CONST", access_var(name, c).ix)>>, c)

push_scope(c) ==
  [c EXCEPT !.scopes = Append(@, [depth |-> depth(c), vars |-> <<>>])]
pop_scope(c) ==
  LET vars == Last(c.scopes).vars
      freed == {vars[x].ix : x \in {y \in DOMAIN vars : vars[y].kind = "var"}}
  IN [c EXCEPT !.scopes = Front(@), !.free = @ \o SetToSeq(freed)]

push_lci(c) == [c EXCEPT !.lci = Append(@, [breaks |-> <<>>, continues |-> <<>>])]
pop_lci(c) == [patchAll(Last(c.lci).breaks, c) EXCEPT !.lci = Front(@)]
patch_continues(c) ==
  [patchAll(Last(c.lci).continues, c) EXCEPT !.lci[Len(c.lci)].continues = <<>>]

emit_get_local(d, ix, c) ==
  emit(IF d = 0 THEN <<Ins("GE0GL", ix)>> ELSE <<Ins("GET_ENV", d), Ins("GET_LOCAL", ix)>>, c)
emit_set_local(d, ix, c) ==
  emit(IF d = 0 THEN <<Ins("GE0SL", ix)>> ELSE <<Ins("GET_ENV", d), Ins("SET_LOCAL", ix)>>, c)

access_get(acc, c) ==
  CASE acc.t = "variable" -> emit_get_local(acc.depth, acc.ix, c)
    [] acc.t = "global"   -> emit(<<Op("GLOBALTHIS"), Ins("TRY_GET_BY_ID", acc.name)>>, c)
    [] acc.t = "byid"     -> emit(<<Ins("GET_BY_ID", acc.name)>>, c)
    [] acc.t = "byval"    -> emit(<<Op("GET_BY_VAL")>>, c)
    [] OTHER              -> fail("NYI", c)
access_set(acc, c) ==
  CASE acc.t = "variable" -> emit_set_local(acc.depth, acc.ix, c)
    [] acc.t = "global"   -> emit(<<Op("GLOBALTHIS"), Ins("PUT_BY_ID", acc.name)>>, c)
    [] acc.t = "byid"     -> emit(<<Ins("PUT_BY_ID", acc.name)>>, c)
    [] acc.t = "byval"    -> emit(<<Op("PUT_BY_VAL")>>, c)
    [] OTHER              -> fail("NYI", c)
store(name, c) == access_set(access_var(name, c), c)
access_delete(acc, c) ==
  emit(CASE acc.t = "variable" -> <<Ins("PUSH", Bool(TRUE))>>
         [] acc.t = "global"   -> <<Op("GLOBALTHIS"), Ins("DELETE_BY_ID", acc.name)>>
         [] acc.t = "byid"     -> <<Ins("DELETE_BY_ID", acc.name)>>
         [] acc.t = "byval"    -> <<Op("DELETE_BY_VAL")>>
         [] acc.t = "this"     -> <<Op("PUSH_THIS")>>, c)

------------------------------------------------------------------------------
(* What the analysis of a list of statements sees (codegen.rs): neither the *)
(* blocks nor the functions in it, but the statements that stand alone in a *)
(* loop, a condition or a case.                                             *)
RECURSIVE Parts(_), Names(_), Mentions(_, _), FnDecls(_)

(* The expressions and statements a node is made of, function bodies too.   *)
Parts(n) ==
  CASE n.t \in {"expr", "throw", "unary", "update", "paren"} -> <<n.e>>
    [] n.t \in {"return", "yield"}   -> n.e
    [] n.t \in {"block", "seq"}      -> n.body
    [] n.t = "var"                   -> n.init
    [] n.t \in {"if", "cond"}        -> <<n.test, n.cons>> \o n.alt
    [] n.t = "while"                 -> <<n.test, n.body>>
    [] n.t = "for"                   -> n.init \o n.test \o n.update \o <<n.body>>
    [] n.t \in {"forin", "forof"}    -> n.left \o <<n.right, n.body>>
    [] n.t = "switch"                -> <<n.disc>> \o FlattenSeq([i \in DOMAIN n.cases |-> n.cases[i].test \o n.cases[i].body])
    [] n.t = "try"                   -> n.block \o FlattenSeq(n.handler) \o FlattenSeq(n.finalizer)
    [] n.t \in {"function", "arrow", "fn"} -> n.body
    [] n.t = "member"                -> <<n.obj>> \o n.key
    [] n.t = "object"                -> [i \in DOMAIN n.props |-> n.props[i].e]
    [] n.t \in {"call", "new"}       -> <<n.callee>> \o [i \in DOMAIN n.args |-> n.args[i].e]
    [] n.t = "bcall"                 -> [i \in DOMAIN n.args |-> n.args[i].e]
    [] n.t = "array"                 -> [i \in DOMAIN n.args |-> n.args[i].e]
    [] n.t = "assign"                -> <<n.left, n.right>>
    [] n.t = "export"                -> <<n.decl>>
    [] n.t = "exportdefault"         -> <<n.e>>
    [] n.t = "bin"                   -> <<n.l, n.r>>
    [] OTHER                         -> <<>>

Mentions(n, name) ==
  \/ n.t = "ident" /\ n.name = name
  \/ \E i \in DOMAIN Parts(n) : Mentions(Parts(n)[i], name)

(* Analyzer: the names a node declares with their kind, in the order they   *)
(* are met; the last kind of a name counts.                                 *)
Names(n) ==
  (CASE n.t = "var" -> <<[name |-> n.name, kind |-> n.kind]>>
     [] n.t = "fn" \/ (n.t = "function" /\ n.name # "") -> <<[name |-> n.name, kind |-> "function"]>>
     [] n.t = "try" /\ n.handler # <<>> /\ n.param # "" -> <<[name |-> n.param, kind |-> "catch"]>>
     [] OTHER -> <<>>)
  \o IF n.t \in {"block", "try", "function", "arrow", "fn"} THEN <<>>
     ELSE FlattenSeq([i \in DOMAIN Parts(n) |-> Names(Parts(n)[i])])

(* VisitFnDecl: the function declarations among the statements.             *)
FnDecls(n) ==
  IF n.t = "fn" THEN <<n>>
  ELSE IF n.t \in {"block", "try", "function", "arrow"} THEN <<>>
  ELSE FlattenSeq([i \in DOMAIN Parts(n) |-> FnDecls(Parts(n)[i])])

is_use_strict(body) ==
  body # <<>> /\ body[1].t = "expr" /\ body[1].e.t = "lit" /\ body[1].e.v = String("use strict")

------------------------------------------------------------------------------
(* Functions.                                                               *)
RECURSIVE node(_, _, _, _)
expr(e, used, tail, c) == node(e, used, tail, c)
stmt(s, c) == node(s, FALSE, FALSE, c)
stmts(body, c) == FoldLeft(LAMBDA k, s : stmt(s, k), c, body)

(* A block code is what compiling a function leaves.                        *)
CodeBlock(f, c, nparams, rest) ==
  [code |-> c.code, params |-> nparams, vars |-> c.nvars, rest |-> rest, args |-> c.args,
   gen |-> f.gen, strict |-> is_use_strict(f.body)]

(* Declares the variables of a list of statements, compiles the functions   *)
(* declared in it and stores them, and reserves the variable arguments (it  *)
(* takes the index var_count without counting it).                          *)
declare_all(body, c) ==
  LET names == FlattenSeq([i \in DOMAIN body |-> Names(body[i])])
      kindOf(x) == names[CHOOSE i \in DOMAIN names :
                           /\ names[i].name = x
                           /\ \A j \in DOMAIN names : j > i => names[j].name # x].kind
      declare(k, x) ==
        IF kindOf(x) \in {"var", "function"} /\ ~ c.top THEN add_var(x, k)
        ELSE IF kindOf(x) = "const" THEN [Bind(x, k.nvars, "const", k) EXCEPT !.nvars = @ + 1]
        ELSE k
      decls == FlattenSeq([i \in DOMAIN body |-> FnDecls(body[i])])
  IN FoldLeft(LAMBDA k, d : store(d.name, expr([d EXCEPT !.t = "declared"], TRUE, FALSE, k)),
              FoldLeft(declare, c, SetToSeq({names[i].name : i \in DOMAIN names})), decls)
declare_arguments(body, c) ==
  IF \E i \in DOMAIN body : Mentions(body[i], "arguments")
  THEN [Bind("arguments", c.nvars, "var", c) EXCEPT !.args = c.nvars]
  ELSE c
analyze(body, c) == declare_arguments(body, declare_all(body, c))

(* The value of an eval is that of its last statement.                      *)
last_value(body, c) == emit(<<Op("RET")>>, expr(Last(body).e, TRUE, FALSE, c))
compile_analyzed(body, lastValRet, c) ==
  IF lastValRet /\ body # <<>> /\ Last(body).t = "expr"
  THEN last_value(body, stmts(Front(body), c)) ELSE stmts(body, c)
compile(body, lastValRet, c) == compile_analyzed(body, lastValRet, analyze(body, c))

Return == <<Ins("PUSH", Undefined), Op("RET")>>

(* The compiler of a nested function shares the scopes around it.           *)
nested(params, c) ==
  [c EXCEPT !.code = <<>>, !.free = <<>>, !.lci = <<>>, !.top = FALSE, !.args = None,
            !.nvars = Len(params),
            !.scopes = Append(@, [depth |-> depth(c) + 1,
                                  vars |-> [x \in {params[i] : i \in DOMAIN params} |->
                                             [ix |-> (CHOOSE i \in DOMAIN params : params[i] = x) - 1,
                                              kind |-> "var"]]])]
finish(f, sub, rest, c) ==
  emit(<<Ins("GET_FUNCTION", Len(sub.blocks) + 1)>>,
       [c EXCEPT !.err = sub.err,
                 !.blocks = Append(sub.blocks, CodeBlock(f, sub, Len(f.params), rest))])

function(f, c) ==
  LET k == nested(f.params \o f.rest, c)
      k1 == IF f.gen THEN emit(<<Op("INITIAL_YIELD")>>, k) ELSE k
  IN finish(f, emit(Return, compile(f.body, FALSE, k1)),
            IF f.rest = <<>> THEN None ELSE Len(f.params), c)

name_fn(f, c) == IF f.name = "" THEN c ELSE store(f.name, emit(<<Op("DUP")>>, c))
fn_expr(f, used, c) == drop(used, pop_scope(name_fn(f, function(f, push_scope(c)))))

arrow(f, c) ==
  LET k == nested(f.params \o f.rest, c)
  IN finish(f, IF f.isExpr THEN emit(<<Op("RET")>>, expr(f.body[1], TRUE, TRUE, k))
                           ELSE emit(Return, compile(f.body, FALSE, k)),
            IF f.rest = <<>> THEN None ELSE Len(f.params), c)

------------------------------------------------------------------------------
(* Declarations and statements.                                             *)
var_decl(d, c) ==
  LET c1 == IF d.kind = "let" THEN add_let(d.name, c) ELSE c
      c2 == IF d.init = <<>> THEN emit(<<Ins("PUSH", Undefined)>>, c1)
                             ELSE expr(d.init[1], TRUE, FALSE, c1)
  IN CASE d.kind = "const" -> decl_const(d.name, c2)
       [] d.kind = "let"   -> emit(<<Ins("DECL_LET", fresh(c))>>, c2)
       [] d.kind = "var"   -> store(d.name, c2)

(* Every case compares a copy of the discriminant; the jump at the end of a *)
(* case body is patched when the next test has failed over its own body.    *)
RECURSIVE switch_cases(_, _, _, _)
switch_cases(cases, i, last_jump, c) ==
  IF i > Len(cases) THEN c
  ELSE IF cases[i].test = <<>> THEN switch_cases(cases, i + 1, last_jump, stmts(cases[i].body, c))
  ELSE LET c1 == emit(<<Op("EQ")>>, expr(cases[i].test[1], TRUE, FALSE, emit(<<Op("DUP")>>, c)))
           fails == pos(c1)
           c2 == emit(<<Ins("JMP", 0)>>, c1)
           c3 == IF last_jump = None THEN c2 ELSE patch(last_jump, "JMP", c2)
           c4 == stmts(cases[i].body, c3)
           c5 == emit(<<Ins("JMP", 0)>>, c4)
       IN switch_cases(cases, i + 1, pos(c4), patch(fails, "JMP_IF_FALSE", c5))
switch_stmt(s, c) ==
  LET c1 == expr(s.disc, TRUE, FALSE, push_lci(c))
  IN emit(<<Op("POP")>>, pop_lci(switch_cases(s.cases, 1, None, c1)))

block_stmt(s, c) == pop_scope(stmts(s.body, analyze(s.body, push_scope(c))))

return_stmt(s, c) ==
  emit(<<Op("RET")>>, IF s.e = <<>> THEN emit(<<Ins("PUSH", Undefined)>>, c)
                                    ELSE expr(s.e[1], TRUE, TRUE, c))
break_stmt(c) == emit(<<Ins("JMP", 0)>>, [c EXCEPT !.lci[Len(c.lci)].breaks = Append(@, pos(c))])
(* continue_stmt_NotPatched: the jump is made at once, to where the code     *)
(* ends now.                                                                *)
continue_stmt_NotPatched(c) == goto(pos(c), c)
continue_stmt(c) == emit(<<Ins("JMP", 0)>>, [c EXCEPT !.lci[Len(c.lci)].continues = Append(@, pos(c))])

(* The variable of for-in and for-of: a declaration, or a name, for which a *)
(* new variable is declared that takes the environment as its first value.  *)
loop_head(s, c) ==
  IF s.left # <<>> THEN var_decl(s.left[1], c)
  ELSE decl_let(s.name, emit(<<Ins("PUSH", Undefined), Ins("GET_ENV", 0)>>, c))

loop_start(s, c) == expr(s.right, TRUE, FALSE, loop_head(s, analyze(<<s>>, push_scope(c))))
loop_body(s, c) == patch_continues(stmt(s.body, store(s.name, c)))

forin_loop(s, setup, c) ==
  LET head == setup + 1
  IN pop_scope(patch(setup, "FORIN_SETUP",
       patch(head, "FORIN_ENUMERATE", goto(head, loop_body(s, c)))))
forin_enter(s, c) ==
  forin_loop(s, pos(c), push_lci(emit(<<Ins("FORIN_SETUP", 0), Ins("FORIN_ENUMERATE", 0)>>, c)))
forin_stmt(s, c) == pop_lci(emit(<<Op("FORIN_LEAVE")>>, forin_enter(s, loop_start(s, c))))

(* The iterator is asked with a copy of itself for this; a second copy is   *)
(* left when the loop ends.                                                 *)
Iterate == <<Op("DUP"), Op("DUP"), Ins("GET_BY_ID", "next"), Ins("CALL", 0),
             Op("DUP"), Ins("GET_BY_ID", "done"), Ins("JMP", 0), Ins("GET_BY_ID", "value")>>
forof_loop(s, head, c) ==
  pop_scope(patch(head + 6, "JMP_IF_TRUE", goto(head, loop_body(s, emit(Iterate, c)))))
forof_enter(s, c) ==
  forof_loop(s, pos(c) + 3,
             push_lci(emit(<<Op("DUP"), Ins("GET_BY_ID", "@@iterator"), Ins("CALL", 0)>>, c)))
forof_stmt(s, c) == pop_lci(emit(<<Op("POP")>>, forof_enter(s, loop_start(s, c))))

for_stmt(s, c) ==
  LET init(k) == IF s.init = <<>> THEN k
                 ELSE IF s.init[1].t = "var" THEN var_decl(s.init[1], k)
                 ELSE expr(s.init[1], FALSE, FALSE, k)
      c1 == push_lci(init(push_scope(c)))
      head == pos(c1)
      c2 == IF s.test = <<>> THEN emit(<<Ins("PUSH", Bool(TRUE))>>, c1)
                             ELSE expr(s.test[1], TRUE, FALSE, c1)
      jend == pos(c2)
      c3 == patch_continues(stmt(s.body, emit(<<Ins("JMP", 0)>>, c2)))
      c4 == IF s.update = <<>> THEN c3 ELSE expr(s.update[1], FALSE, FALSE, c3)
  IN patch(jend, "JMP_IF_FALSE", pop_scope(pop_lci(goto(head, c4))))

while_stmt(s, c) ==
  LET c1 == expr(s.test, TRUE, FALSE, push_lci(c))
      jend == pos(c1)
      c2 == patch_continues(stmt(s.body, emit(<<Ins("JMP", 0)>>, c1)))
  IN pop_lci(patch(jend, "JMP_IF_FALSE", goto(pos(c), c2)))

if_stmt(s, c) ==
  LET c1 == expr(s.test, TRUE, FALSE, c)
      jelse == pos(c1)
      c2 == stmt(s.cons, emit(<<Ins("JMP", 0)>>, c1))
  IN IF s.alt = <<>> THEN patch(jelse, "JMP_IF_FALSE", c2)
     ELSE LET c3 == patch(jelse, "JMP_IF_FALSE", emit(<<Ins("JMP", 0)>>, c2))
          IN patch(pos(c2), "JMP", stmt(s.alt[1], c3))

(* The block of a try has no scope of its own and is not analyzed; the name *)
(* of a catch is a variable already in scope or a global.                   *)
catch_clause(s, c) ==
  IF s.handler = <<>> THEN emit(<<Op("POP")>>, c)
  ELSE LET c1 == push_scope(c)
           c2 == IF s.param = "" THEN emit(<<Op("POP")>>, c1)
                                 ELSE store(s.param, c1)
       IN pop_scope(stmts(s.handler[1], c2))
try_stmt(s, c) ==
  LET c1 == emit(<<Op("POP_CATCH")>>, stmts(s.block, emit(<<Ins("PUSH_CATCH", 0)>>, c)))
      c2 == patch(pos(c), "PUSH_CATCH", emit(<<Ins("JMP", 0)>>, c1))
      c3 == catch_clause(s, c2)
      c4 == patch(pos(c3), "JMP", patch(pos(c1), "JMP", emit(<<Ins("JMP", 0)>>, c3)))
  IN IF s.finalizer = <<>> THEN c4 ELSE pop_scope(stmts(s.finalizer[1], push_scope(c4)))

statement(s, c) ==
  CASE s.t = "expr"     -> expr(s.e, FALSE, FALSE, c)
    [] s.t = "block"    -> block_stmt(s, c)
    [] s.t = "return"   -> return_stmt(s, c)
    [] s.t = "break"    -> break_stmt(c)
    [] s.t = "continue" -> continue_stmt(c)
    [] s.t = "switch"   -> switch_stmt(s, c)
    [] s.t = "forin"    -> forin_stmt(s, c)
    [] s.t = "forof"    -> forof_stmt(s, c)
    [] s.t = "for"      -> for_stmt(s, c)
    [] s.t = "while"    -> while_stmt(s, c)
    [] s.t = "if"       -> if_stmt(s, c)
    [] s.t = "var"      -> var_decl(s, c)
    [] s.t \in {"fn", "empty"} -> c
    [] s.t = "throw"    -> emit(<<Op("THROW")>>, expr(s.e, TRUE, FALSE, c))
    [] s.t = "try"      -> try_stmt(s, c)
    [] OTHER            -> fail("NYI", c)

------------------------------------------------------------------------------
(* Expressions: used says whether the value is wanted, tail whether it is   *)
(* what the function returns.                                               *)
value(e, c) == expr(e, TRUE, FALSE, c)

compile_access(e, c) ==
  CASE e.t = "member" -> IF e.key = <<>> THEN value(e.obj, c)
                         ELSE emit(<<Op("SWAP")>>, value(e.key[1], value(e.obj, c)))
    [] OTHER -> c
access(e, c) ==
  CASE e.t = "ident"  -> access_var(e.name, c)
    [] e.t = "member" -> IF e.key = <<>> THEN [t |-> "byid", name |-> e.name] ELSE [t |-> "byval"]
    [] e.t = "this"   -> [t |-> "this"]
    [] OTHER          -> [t |-> "NYI"]
get(e, c) == access_get(access(e, c), compile_access(e, c))
put(e, c) == access_set(access(e, c), compile_access(e, c))

lit_expr(e, used, c) ==
  IF e.v.k \in {"bigint", "jsx"} THEN fail("NYI", c) ELSE drop(used, emit(<<Ins("PUSH", e.v)>>, c))

yield_expr(e, used, c) ==
  drop(used, emit(<<Op("YIELD")>>, IF e.e = <<>> THEN emit(<<Ins("PUSH", Undefined)>>, c)
                                                 ELSE value(e.e[1], c)))

ident_expr(e, used, c) ==
  drop(used, IF e.name = "undefined" THEN emit(<<Ins("PUSH", Undefined)>>, c)
             ELSE access_get(access_var(e.name, c), c))

(* Each property value is put while a copy of the object is below it.       *)
object_expr(e, c) ==
  LET property(k, p) ==
        LET k1 == value(p.e, emit(<<Op("DUP")>>, k))
        IN IF p.key = <<>> THEN emit(<<Op("SWAP"), Ins("PUT_BY_ID", p.name)>>, k1)
           ELSE emit(<<Op("SWAP"), Ins("PUSH", p.key[1]), Op("SWAP"), Op("PUT_BY_VAL")>>, k1)
  IN FoldLeft(property, emit(<<Op("NEWOBJECT")>>, c), e.props)

(* Arguments in order, or, when one is spread, last first and into an array.*)
argument(k, a) == LET k1 == value(a.e, k) IN IF a.spread THEN emit(<<Op("SPREAD")>>, k1) ELSE k1
has_spread(args) == \E i \in DOMAIN args : args[i].spread
arguments_(args, c) ==
  IF has_spread(args)
  THEN emit(<<Ins("NEWARRAY", Len(args))>>, FoldLeft(argument, c, Reverse(args)))
  ELSE FoldLeft(argument, c, args)

(* The key of a method call is compiled before the object; a key that is an *)
(* identifier counts as the name even in brackets.                          *)
callee(e, c) ==
  IF e.t # "member" THEN value(e, emit(<<Ins("PUSH", Undefined)>>, c))
  ELSE IF e.key = <<>> THEN emit(<<Op("DUP"), Ins("GET_BY_ID", e.name)>>, value(e.obj, c))
  ELSE IF e.key[1].t = "ident"
       THEN emit(<<Op("DUP"), Ins("GET_BY_ID", e.key[1].name)>>, value(e.obj, c))
  ELSE emit(<<Op("GET_BY_VAL_PUSH_OBJ")>>, value(e.obj, value(e.key[1], c)))
call_expr(e, used, tail, c) ==
  drop(used, emit(<<IF has_spread(e.args) THEN Ins("CALL_BUILTIN", "call")
                    ELSE Ins(IF tail THEN "TAILCALL" ELSE "CALL", Len(e.args))>>,
                  arguments_(e.args, callee(e.callee, c))))
new_expr(e, used, tail, c) ==
  drop(used, emit(<<IF has_spread(e.args) THEN Ins("CALL_BUILTIN", "construct")
                    ELSE Ins(IF tail THEN "TAILNEW" ELSE "NEW", Len(e.args))>>,
                  arguments_(e.args, value(e.callee, emit(<<Ins("PUSH", Undefined)>>, c)))))
(* In the engine's own library ___name(...) is an instruction.              *)
handle_builtin_call(e, c) ==
  IF e.op = "TO_OBJECT"
  THEN emit(<<Op("TO_OBJECT")>>,
            value(e.args[1].e, IF Len(e.args) = 1 THEN emit(<<Ins("PUSH", Undefined)>>, c)
                                                  ELSE value(e.args[2].e, c)))
  ELSE IF e.op = "CALL"
  THEN emit(<<Ins("CALL", Len(e.args) - 1)>>,
            FoldLeft(argument, value(e.callee, value(e.args[1].e, c)), Tail(e.args)))
  ELSE emit(<<Op(e.op)>>, value(e.args[1].e, c))

unary_expr(e, used, c) ==
  drop(used, IF e.op = "delete" THEN access_delete(access(e.e, c), compile_access(e.e, c))
             ELSE IF e.op = "void" THEN emit(<<Op("POP"), Ins("PUSH", Undefined)>>, value(e.e, c))
             ELSE emit(<<Op(e.op)>>, value(e.e, c)))

update_expr(e, used, c) ==
  LET dup == IF used THEN <<Op("DUP")>> ELSE <<>>
      step == <<Ins("PUSH", Num(1)), Op(e.op)>>
  IN put(e.e, emit(IF e.prefix THEN step \o dup ELSE dup \o step, value(e.e, c)))

assign_expr(e, used, c) ==
  LET dup == IF used THEN <<Op("DUP")>> ELSE <<>>
  IN IF e.op = "=" THEN put(e.left, emit(dup, value(e.right, c)))
     ELSE put(e.left, emit(<<Op(e.op)>> \o dup, get(e.left, value(e.right, c))))

(* The right operand is compiled first: the instructions pop the left one   *)
(* first.                                                                   *)
(* logical_expr_Jumps: the two jumps exchanged.                             *)
logical_expr_Jumps(e, used, c) ==
  LET c1 == emit(<<Op("DUP")>>, value(e.l, c))
      c2 == value(e.r, emit(<<Ins("JMP", 0), Op("POP")>>, c1))
  IN drop(used, patch(pos(c1), IF e.op = "||" THEN "JMP_IF_FALSE" ELSE "JMP_IF_TRUE", c2))
logical_expr(e, used, c) ==
  LET c1 == emit(<<Op("DUP")>>, value(e.l, c))
      c2 == value(e.r, emit(<<Ins("JMP", 0), Op("POP")>>, c1))
  IN drop(used, IF e.op = "||" THEN patch(pos(c1), "JMP_IF_TRUE", c2)
                ELSE LET c3 == emit(<<Ins("JMP", 0)>>, c2)
                     IN patch(pos(c2), "JMP", patch(pos(c1), "JMP_IF_FALSE", c3)))
bin_expr(e, used, c) ==
  IF e.op \in {"||", "&&"} THEN logical_expr(e, used, c)
  ELSE drop(used, emit(<<Op(e.op)>>, value(e.l, value(e.r, c))))

(* Only the first expression of a sequence of one is used as the last.      *)
seq_expr(e, used, tail, c) ==
  LET at(i, k) == expr(e.body[i], used /\ i = Len(e.body), tail, k)
  IN FoldLeft(LAMBDA k, i : at(i, k), c, [i \in DOMAIN e.body |-> i])

array_expr(e, used, c) ==
  drop(used, emit(<<Ins("NEWARRAY", Len(e.args))>>, FoldLeft(argument, c, Reverse(e.args))))

cond_expr(e, used, tail, c) ==
  LET c1 == value(e.test, c)
      c2 == expr(e.cons, used, tail, emit(<<Ins("JMP", 0)>>, c1))
      c3 == patch(pos(c1), "JMP_IF_FALSE", emit(<<Ins("JMP", 0)>>, c2))
  IN patch(pos(c2), "JMP", expr(e.alt[1], used, tail, c3))

expression(e, used, tail, c) ==
  CASE e.t = "lit"      -> lit_expr(e, used, c)
    [] e.t = "ident"    -> ident_expr(e, used, c)
    [] e.t = "this"     -> IF used THEN emit(<<Op("PUSH_THIS")>>, c) ELSE c
    [] e.t = "member"   -> drop(used, get(e, c))
    [] e.t = "object"   -> object_expr(e, c)
    [] e.t = "call"     -> call_expr(e, used, tail, c)
    [] e.t = "bcall"    -> handle_builtin_call(e, c)
    [] e.t = "new"      -> new_expr(e, used, tail, c)
    [] e.t = "unary"    -> unary_expr(e, used, c)
    [] e.t = "update"   -> update_expr(e, used, c)
    [] e.t = "assign"   -> assign_expr(e, used, c)
    [] e.t = "bin"      -> bin_expr(e, used, c)
    [] e.t = "arrow"    -> arrow(e, c)
    [] e.t = "function" -> fn_expr(e, used, c)
    [] e.t = "declared" -> function(e, c)
    [] e.t = "seq"      -> seq_expr(e, used, tail, c)
    [] e.t = "array"    -> array_expr(e, used, c)
    [] e.t = "cond"     -> cond_expr(e, used, tail, c)
    [] e.t = "paren"    -> expr(e.e, used, FALSE, c)
    [] e.t = "yield"    -> yield_expr(e, used, c)
    [] OTHER            -> fail("NYI", c)

------------------------------------------------------------------------------
(* Modules.  The items of a module are statements, imports and exports; the *)
(* module object is its only parameter, and the loader a native function.   *)
ModuleLoader == Value("ref", 2, "")

(* The constants and functions of a module; what it imports is declared by  *)
(* the import itself, after the functions have been compiled.               *)
analyze_module(body, c) ==
  LET names == FlattenSeq([i \in DOMAIN body |-> Names(body[i])])
      declare(k, x) ==
        IF x.kind \in {"const", "function"} /\ x.name \notin DOMAIN Last(k.scopes).vars
        THEN [Bind(x.name, k.nvars, IF x.kind = "const" THEN "const" ELSE "let", k) EXCEPT !.nvars = @ + 1]
        ELSE k
      decls == FlattenSeq([i \in DOMAIN body |-> FnDecls(body[i])])
  IN FoldLeft(LAMBDA k, d : store(d.name, value([d EXCEPT !.t = "declared"], k)),
              FoldLeft(declare, c, names), decls)

(* The value of a name becomes a property of @exports, or of the module.    *)
exports(c) == emit(<<Ins("GET_BY_ID", "@exports")>>, access_get(access_var("@module", c), c))
export_name(name, as, c) ==
  emit(<<Ins("PUT_BY_ID", as)>>, exports(access_get(access_var(name, c), c)))
export_default(c) == emit(<<Ins("PUT_BY_ID", "@default")>>, access_get(access_var("@module", c), c))

(* decl: a function has been stored by the analysis.                        *)
export_decl(d, c) == export_name(d.name, d.name, IF d.t = "var" THEN var_decl(d, c) ELSE c)

(* A named import is looked up under its local name and declared under the  *)
(* name it was exported with.                                               *)
import_specifier(c, s) ==
  LET c1 == emit(<<Op("DUP")>>, c)
  IN CASE s.t = "default"   -> create_const(s.local, emit(<<Ins("TRY_GET_BY_ID", "@default")>>, c1))
       [] s.t = "namespace" -> create_const(s.local, c1)
       [] s.t = "named"     -> create_const(s.imported,
                                 emit(<<Ins("GET_BY_ID", "@exports"), Ins("GET_BY_ID", s.local)>>, c1))
import_decl(d, c) ==
  emit(<<Op("POP")>>,
       FoldLeft(import_specifier,
                emit(<<Ins("PUSH", Undefined), Ins("PUSH", ModuleLoader), Ins("PUSH", String(d.src)), Ins("CALL", 1)>>, c),
                d.specs))

module_item(c, n) ==
  CASE n.t = "import"        -> import_decl(n, c)
    [] n.t = "export"        -> export_decl(n.decl, c)
    [] n.t = "exportdefault" -> export_default(value(n.e, c))
    [] n.t = "exportnamed"   -> FoldLeft(LAMBDA k, x : export_name(x.orig, x.exported, k), c, n.specs)
    [] OTHER                 -> stmt(n, c)

------------------------------------------------------------------------------
(* Units of compilation: a script, a string for eval, a library function    *)
(* whose parameters are given by name, a module.  The block of a unit joins *)
(* those compiled before, after the blocks of the functions in it.          *)
Empty(nparams, vars, c) ==
  [c EXCEPT !.code = <<>>, !.scopes = <<[depth |-> 0, vars |-> vars]>>, !.free = <<>>, !.nvars = nparams,
            !.lci = <<>>, !.args = None]
Nothing == [code |-> <<>>, scopes |-> <<>>, free |-> <<>>, nvars |-> 0, lci |-> <<>>, blocks |-> <<>>,
            args |-> None, top |-> TRUE, err |-> ""]
Unit(n, nparams, k) ==
  [k EXCEPT !.blocks = Append(@, CodeBlock([gen |-> FALSE, body |-> n.body], emit(Return, k), nparams, None))]
Script(n, c) ==
  Unit(n, 0, pop_scope(compile(n.body, n.t = "eval", push_scope(Empty(0, <<>>, c)))))
compile_code(n, c) ==
  LET k == nested(n.params, Empty(0, <<>>, c))
  IN [Unit(n, Len(n.params), compile(n.body, FALSE, [k EXCEPT !.scopes = <<[@[2] EXCEPT !.depth = 0]>>]))
        EXCEPT !.top = TRUE]
compile_module(n, c) ==
  LET k == Empty(1, "@module" :> [ix |-> 0, kind |-> "var"], c)
  IN Unit(n, 1, FoldLeft(module_item, analyze_module(n.body, k), n.body))
Units == {"script", "eval", "code", "module"}
unit(n, c) ==
  CASE n.t \in {"script", "eval"} -> Script(n, c)
    [] n.t = "code" -> compile_code(n, c)
    [] n.t = "module" -> compile_module(n, c)

(* What has failed is not continued.                                        *)
Statements == {"expr", "block", "return", "break", "continue", "switch", "forin", "forof", "for",
               "while", "if", "var", "fn", "empty", "throw", "try"}
node(n, used, tail, c) ==
  IF c.err # "" THEN c
  ELSE IF n.t \in Units THEN unit(n, c)
  ELSE IF n.t \in Statements THEN statement(n, c) ELSE expression(n, used, tail, c)
=============================================================================
