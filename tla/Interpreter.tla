---------------------------- MODULE Interpreter ----------------------------
(***************************************************************************)
(* The bytecode interpreter: vm/interpreter.rs, its frames and stack       *)
(* (interpreter/frame.rs, stack.rs), Context::unwind, generators           *)
(* (vm/function.rs) and the native functions that call back into script.   *)
(*                                                                         *)
(* One instruction is one step.  vm is a record: mem, the value stack all  *)
(* frames share; cursor, where the next frame will start; frames, the last *)
(* one being ctx.stack.current; natives, the native activations below      *)
(* which eval runs (what each does with the result it waits for); heap;    *)
(* modules, those that are loaded; out, what the program has logged; mode, *)
(* what happens next: "run" an instruction, "throw" (eval has returned     *)
(* Err: unwind), "ret" (a result goes to the last native activation),      *)
(* "done" or "undefined": a write behind the end of the stack, a cell      *)
(* taken for what it is not, or the native stack exhausted.                *)
(***************************************************************************)
EXTENDS Values

CONSTANTS Programs,    \* the programs, each with its code blocks, of which
                       \* the first is that of builtins/Spread.js and the last
                       \* the script's, and its files: the block of each module
          StackSize,   \* STACK_SIZE in values
          Slack,       \* values of memory modelled behind the end of the stack
          NativeStack  \* activations the native stack has room for

VARIABLES program, code, vm
vars == <<program, code, vm>>

------------------------------------------------------------------------------
(* The stack.  new_frame fails only when the cursor is at the end; pushes   *)
(* are not checked.                                                         *)
cf(m) == Last(m.frames)
block(m) == code.blocks[cf(m).block]
ins(m) == block(m).code[cf(m).ip]
Opnd(k, m) == m.mem[cf(m).sp - k]

setf(f, m) == [m EXCEPT !.frames[Len(m.frames)] = f]
push(v, m) ==
  IF cf(m).sp \notin DOMAIN m.mem THEN [m EXCEPT !.mode = [t |-> "undefined"]]
  ELSE [setf([cf(m) EXCEPT !.sp = @ + 1], m) EXCEPT !.mem[cf(m).sp] = v]
pop(n, m) == setf([cf(m) EXCEPT !.sp = @ - n], m)
jump(by, m) == setf([cf(m) EXCEPT !.ip = @ + by], m)
Replace(n, v, m) == push(v, pop(n, m))

new_frame(f, m) ==
  [m EXCEPT !.frames = Append(@, [f EXCEPT !.sp = m.cursor, !.limit = m.cursor]),
            !.mode = [t |-> "run"]]
HasRoom(m) == m.cursor < StackSize
pop_frame(m) ==
  [m EXCEPT !.frames = Front(@),
            !.cursor = IF Len(m.frames) = 1 THEN 0 ELSE m.frames[Len(m.frames) - 1].sp]

Throw(v, m) == [m EXCEPT !.mode = [t |-> "throw", v |-> v]]
Answer(ok, v, m) == [m EXCEPT !.mode = [t |-> "ret", ok |-> ok, v |-> v]]
NewError(kind, m) == alloc([t |-> "error", kind |-> kind, props |-> <<>>], m)
ThrowNew(kind, m) == Throw(Fresh(m), NewError(kind, m))
Fail(kind, m) == Answer(FALSE, Fresh(m), NewError(kind, m))

(* Context::unwind: frames go until one has a handler, but not past a frame *)
(* that native code has entered; eval_internal and async_func_resume then   *)
(* continue at the handler or hand the error to the native code.            *)
(* unwind_PastExit: frames native code has entered are no boundary.         *)
unwind_PastExit(e, m) ==
  LET able == {i \in DOMAIN m.frames : m.frames[i].tries # <<>>}
      RECURSIVE drop_to(_, _)
      drop_to(n, k) == IF Len(k.frames) = n THEN k ELSE drop_to(n, pop_frame(k))
  IN IF able = {} THEN Answer(FALSE, e, drop_to(0, m))
     ELSE LET k == drop_to(CHOOSE i \in able : \A j \in able : j <= i, m)
              h == Last(cf(k).tries)
          IN [push(e, setf([cf(k) EXCEPT !.tries = Front(@), !.env = h.env, !.ip = h.ip, !.sp = h.sp], k))
                EXCEPT !.mode = [t |-> "run"]]
unwind(e, m) ==
  LET entered == {i \in DOMAIN m.frames : m.frames[i].exit}
      bottom == CHOOSE i \in entered : \A j \in entered : j <= i
      able == {i \in bottom .. Len(m.frames) : m.frames[i].tries # <<>>}
      RECURSIVE drop_to(_, _)
      drop_to(n, k) == IF Len(k.frames) = n THEN k ELSE drop_to(n, pop_frame(k))
  IN IF able = {} THEN Answer(FALSE, e, drop_to(bottom - 1, m))
     ELSE LET k == drop_to(CHOOSE i \in able : \A j \in able : j <= i, m)
              h == Last(cf(k).tries)
          IN [push(e, setf([cf(k) EXCEPT !.tries = Front(@), !.env = h.env, !.ip = h.ip, !.sp = h.sp], k))
                EXCEPT !.mode = [t |-> "run"]]

------------------------------------------------------------------------------
(* Calls.  The arguments of a call are a slice of the stack above sp, or a  *)
(* vector; what a native function reads of a slice is what is there when it *)
(* reads it.                                                                *)
Slice(base, n) == [base |-> base, n |-> n, vec |-> <<>>]
Vector(vec) == [base |-> None, n |-> Len(vec), vec |-> vec]
at(a, i, m) == IF i >= a.n THEN Undefined
               ELSE IF a.base = None THEN a.vec[i + 1] ELSE m.mem[a.base + i]
ArgsFrom(a, i, m) == [j \in 1 .. (IF a.n > i THEN a.n - i ELSE 0) |-> at(a, i + j - 1, m)]

this_of(b, this, m) == IF b.strict /\ ~ Is(this, {"object", "array", "generator"}, m) THEN Undefined
                       ELSE IF this = Undefined THEN GlobalObject ELSE this

(* setup_for_vm_call: a new environment with the parameters, the rest array *)
(* and the arguments object.                                                *)
setup_for_vm_call(f, a, m) ==
  LET b == code.blocks[f.block]
      env == Environment(b.params + b.vars + (IF b.rest # None THEN 1 ELSE 0)
                         + (IF b.args # None THEN 1 ELSE 0), f.env)
      bound == [env EXCEPT !.vars = [i \in DOMAIN @ |->
                  IF i <= b.params THEN [@[i] EXCEPT !.v = at(a, i - 1, m)] ELSE @[i]]]
      m1 == IF b.rest = None THEN m ELSE alloc(Array(ArgsFrom(a, b.params, m)), m)
      rested == IF b.rest = None THEN bound ELSE [bound EXCEPT !.vars[b.rest + 1].v = Fresh(m)]
      m2 == IF b.args = None THEN m1 ELSE alloc(Array(ArgsFrom(a, 0, m)), m1)
  IN alloc(IF b.args = None THEN rested ELSE [rested EXCEPT !.vars[b.args + 1].v = Fresh(m1)], m2)

Frame(f, this, ctor, exit, env, m) ==
  [block |-> f.block, ip |-> 1, sp |-> 0, limit |-> 0, env |-> env,
   this |-> this_of(code.blocks[f.block], this, m), ctor |-> ctor, exit |-> exit, tries |-> <<>>]

(* perform_vm_call and eval_internal: a call from native code.              *)
perform_vm_call(f, this, a, ctor, m) ==
  LET m1 == setup_for_vm_call(f, a, m)
  IN IF Len(m.natives) > NativeStack THEN [m EXCEPT !.mode = [t |-> "undefined"]]
     ELSE IF HasRoom(m) THEN new_frame(Frame(f, this, ctor, TRUE, Len(m1.heap), m), m1)
     ELSE Fail("RangeError", m1)

Wait(k, m) ==
  [m EXCEPT !.natives = Append(@, [k EXCEPT !.depth = Len(m.frames),
                                            !.sp = IF m.frames = <<>> THEN 0 ELSE cf(m).sp])]
Kont(t) == [t |-> t, depth |-> 0, sp |-> 0]
KontOf(t, x) == [t |-> t, depth |-> 0, sp |-> 0, x |-> x]

------------------------------------------------------------------------------
(* Generators.  A frame is saved with its operands and its handlers, the    *)
(* stack positions relative to its start.                                   *)
save(m) ==
  LET f == cf(m)
  IN [f EXCEPT !.sp = f.sp - f.limit, !.limit = 0,
               !.tries = [i \in DOMAIN @ |-> [@[i] EXCEPT !.sp = @ - f.limit]]]
     @@ [stack |-> SubSeq([i \in 1 .. f.sp |-> m.mem[i - 1]], f.limit + 1, f.sp)]

(* async_func_resume_Stale: handlers keep the heights they were saved with. *)
async_func_resume_Stale(s, m) ==
  FoldLeft(LAMBDA k, v : push(v, k),
           new_frame([block |-> s.block, ip |-> s.ip, sp |-> 0, limit |-> 0, env |-> s.env, this |-> s.this,
                      ctor |-> FALSE, exit |-> TRUE, tries |-> s.tries], m), s.stack)
async_func_resume(s, m) ==
  LET f == [block |-> s.block, ip |-> s.ip, sp |-> 0, limit |-> 0, env |-> s.env, this |-> s.this,
            ctor |-> FALSE, exit |-> TRUE,
            tries |-> [i \in DOMAIN s.tries |-> [s.tries[i] EXCEPT !.sp = @ + m.cursor]]]
  IN FoldLeft(LAMBDA k, v : push(v, k), new_frame(f, m), s.stack)

IterResult(v, done, m) ==
  Answer(TRUE, Fresh(m), alloc(Object([value |-> v, done |-> Bool(done)]), m))
SetGen(g, state, frame, m) ==
  [m EXCEPT !.heap[g.n].state = state, !.heap[g.n].frame = frame]

(* js_generator_next.                                                       *)
Resume(g, stack, m) ==
  LET k == Wait(KontOf("resume", g), m)
      s == [Cell(g, m).frame EXCEPT !.stack = stack]
  IN IF HasRoom(m) THEN async_func_resume(s, SetGen(g, "Executing", s, k))
     ELSE Fail("RangeError", SetGen(g, "Executing", s, k))
js_generator_next(g, a, magic, m) ==
  IF ~ Is(g, {"generator"}, m) THEN Fail("TypeError", m)
  ELSE LET s == Cell(g, m)
       IN CASE s.state = "Executing" -> Fail("TypeError", m)
            [] s.state = "Suspended" /\ magic = "next" -> Resume(g, s.frame.stack, m)
            [] s.state = "Yield" /\ magic = "throw" -> Answer(FALSE, at(a, 0, m), m)
            [] s.state = "Yield" /\ magic # "throw" ->
                 Resume(g, Append(Front(s.frame.stack), at(a, 0, m)), m)
            [] OTHER -> CASE magic = "next" -> IterResult(Undefined, TRUE, m)
                          [] magic = "return" -> IterResult(at(a, 0, m), TRUE, m)
                          [] magic = "throw" -> Answer(FALSE, at(a, 0, m), m)

(* The generator's frame is left on the stack by a yield: it is taken off   *)
(* and saved, with undefined in place of the value that was yielded.        *)
(* AfterResume_ErrorKept: an error leaves the generator as it is.           *)
AfterResume_ErrorKept(g, ok, v, m) ==
  IF ~ ok THEN Answer(FALSE, v, m)
  ELSE IF v.k # "native" THEN IterResult(v, TRUE, SetGen(g, "Complete", Cell(g, m).frame, m))
  ELSE LET s == save(m)
       IN IterResult(Last(s.stack), FALSE,
                     SetGen(g, "Yield", [s EXCEPT !.stack[Len(s.stack)] = Undefined], pop_frame(m)))
AfterResume(g, ok, v, m) ==
  IF ~ ok THEN Answer(FALSE, v, SetGen(g, "Complete", Cell(g, m).frame, m))
  ELSE IF v.k # "native" THEN IterResult(v, TRUE, SetGen(g, "Complete", Cell(g, m).frame, m))
  ELSE LET s == save(m)
       IN IterResult(Last(s.stack), FALSE,
                     SetGen(g, "Yield", [s EXCEPT !.stack[Len(s.stack)] = Undefined], pop_frame(m)))

------------------------------------------------------------------------------
(* Properties.                                                              *)
RECURSIVE Invoke(_, _, _, _, _)
(* slot.get: an accessor calls its function as native code.                 *)
GetFrom(v, key, m) ==
  LET found == Lookup(v, key, m)
      got == IF found = <<>> THEN Undefined ELSE found[1]
  IN IF got.k = "getter" THEN Invoke(Ref(got.n), v, Vector(<<>>), FALSE, m)
     ELSE Answer(TRUE, got, m)

(* Function.prototype.apply reads the elements of its array one by one;     *)
(* the value for this is read last.                                         *)
ApplyNext(x, m) ==
  IF Len(x.got) < x.len
  THEN GetFrom(x.list, ToString(Len(x.got)), Wait(KontOf("apply", x), m))
  ELSE Invoke(x.f, at(x.a, 0, m), Vector(x.got), FALSE, m)

ArrayNext(this, m) ==
  LET it == Cell(this, m)
      elems == Cell(it.array, m).elems
  IN IF it.at >= Len(elems) THEN IterResult(Undefined, TRUE, m)
     ELSE IterResult(elems[it.at + 1], FALSE, [m EXCEPT !.heap[this.n].at = @ + 1])

(* A module is remembered by the name it was asked for with, and once its   *)
(* code has run to the end.                                                 *)
ModuleObject(m) == alloc(Object("@exports" :> Fresh(m)), alloc(Object(<<>>), m))
module_load(name, m) ==
  IF name \notin DOMAIN code.files THEN Fail("ReferenceError", m)
  ELSE IF name \in DOMAIN m.modules THEN Answer(TRUE, m.modules[name], m)
  ELSE LET m1 == ModuleObject(m)
           object == Ref(Len(m1.heap))
           f == [t |-> "function", block |-> code.files[name], env |-> RootEnv, props |-> <<>>]
       IN perform_vm_call(f, Undefined, Vector(<<object>>), FALSE,
                          Wait(KontOf("module", [name |-> name, object |-> object]), m1))

Native(name, this, a, m) ==
  CASE name = "log" -> Answer(TRUE, Undefined, [m EXCEPT !.out = Append(@, Show(at(a, 0, m), m))])
    [] name = "call" -> IF is_callable(this, m)
                        THEN Invoke(this, at(a, 0, m), Vector(ArgsFrom(a, 1, m)), FALSE, m)
                        ELSE Fail("TypeError", m)
    [] name = "apply" ->
         IF ~ is_callable(this, m) THEN Fail("TypeError", m)
         ELSE IF at(a, 1, m).k \in {"undefined", "null"}
              THEN Invoke(this, at(a, 0, m), Vector(<<>>), FALSE, m)
         ELSE IF ~ is_jsobject(at(a, 1, m), m) THEN Fail("TypeError", m)
         ELSE LET len == Lookup(at(a, 1, m), "length", m)
              IN ApplyNext([f |-> this, a |-> a, list |-> at(a, 1, m), got |-> <<>>, was |-> at(a, 0, m),
                            len |-> IF len = <<>> THEN 0 ELSE len[1].n], m)
    [] name = "loader" -> module_load(to_string(at(a, 0, m)), m)
    [] name \in {"next", "return", "throw"} -> js_generator_next(this, a, name, m)
    [] name = "iterator" -> Answer(TRUE, this, m)
    [] name = "values" ->
         Answer(TRUE, Fresh(m), alloc([t |-> "arrayiter", array |-> this, at |-> 0, props |-> <<>>], m))
    [] name = "array_next" -> ArrayNext(this, m)
    [] name = "push" ->
         Answer(TRUE, Num(Len(Cell(this, m).elems) + 1), [m EXCEPT !.heap[this.n].elems = Append(@, at(a, 0, m))])
    [] name = "getter" ->
         Answer(TRUE, Undefined,
                PutProp(at(a, 0, m), at(a, 1, m).s, Value("getter", at(a, 2, m).n, ""), m))

(* JsFunction::call.                                                        *)
Invoke(f, this, a, ctor, m) ==
  LET c == Cell(f, m)
  IN CASE c.t = "function" -> perform_vm_call(c, this, a, ctor, m)
       [] c.t = "generatorfn" -> perform_vm_call(c, this, a, ctor, Wait(Kont("generator"), m))
       [] c.t = "native" -> Native(c.name, this, a, m)

------------------------------------------------------------------------------
(* Instructions.  Every one starts with stack.cursor = frame.sp.            *)
Fetch(ops) == vm.mode.t = "run" /\ ins(vm).op \in ops /\ UNCHANGED <<program, code>>
m0 == jump(1, [vm EXCEPT !.cursor = cf(vm).sp])
i0 == ins(vm)
VarIn(env, ix, m) == m.heap[env].vars[ix + 1]

RECURSIVE EnvAt(_, _, _)
EnvAt(env, d, m) == IF d = 0 THEN env ELSE EnvAt(m.heap[env].parent, d - 1, m)

GetVariable ==
  /\ Fetch({"GE0GL", "GET_ENV", "GET_LOCAL"})
  /\ vm' = CASE i0.op = "GE0GL" -> push(VarIn(cf(vm).env, i0.a, vm).v, m0)
             [] i0.op = "GET_ENV" -> push(Ref(EnvAt(cf(vm).env, i0.a, vm)), m0)
             [] i0.op = "GET_LOCAL" -> Replace(1, VarIn(Opnd(1, vm).n, i0.a, vm).v, m0)

SetVariable ==
  LET env == IF i0.op = "GE0SL" THEN cf(vm).env ELSE Opnd(1, vm).n
      val == IF i0.op = "GE0SL" THEN Opnd(1, vm) ELSE Opnd(2, vm)
      m1 == pop(IF i0.op = "GE0SL" THEN 1 ELSE 2, m0)
  IN /\ Fetch({"GE0SL", "SET_LOCAL"})
     /\ vm' = IF VarIn(env, i0.a, vm).mutable THEN [m1 EXCEPT !.heap[env].vars[i0.a + 1].v = val]
              ELSE ThrowNew("TypeError", m1)

Declare ==
  /\ Fetch({"DECL_LET", "DECL_CONST"})
  /\ vm' = [pop(1, m0) EXCEPT !.heap[cf(vm).env].vars[i0.a + 1] =
              [v |-> Opnd(1, vm), mutable |-> i0.op = "DECL_LET"]]

Jump ==
  /\ Fetch({"JMP", "JMP_IF_FALSE", "JMP_IF_TRUE"})
  /\ vm' = IF i0.op = "JMP" THEN jump(i0.a, m0)
           ELSE IF to_boolean(Opnd(1, vm)) = (i0.op = "JMP_IF_TRUE") THEN jump(i0.a, pop(1, m0))
           ELSE pop(1, m0)

Operands ==
  /\ Fetch({"PUSH", "POP", "DUP", "SWAP", "PUSH_THIS", "GLOBALTHIS"})
  /\ vm' = CASE i0.op = "PUSH" -> push(i0.a, m0)
             [] i0.op = "POP" -> pop(1, m0)
             [] i0.op = "DUP" -> push(Opnd(1, vm), m0)
             [] i0.op = "SWAP" -> push(Opnd(2, vm), Replace(2, Opnd(1, vm), m0))
             [] i0.op = "PUSH_THIS" -> push(cf(vm).this, m0)
             [] i0.op = "GLOBALTHIS" -> push(GlobalObject, m0)

Operator ==
  /\ Fetch(BinaryOps \cup {"LOGICAL_NOT", "TYPEOF", "NEG"})
  /\ vm' = CASE i0.op = "NEG" -> Replace(1, Negate(Opnd(1, vm)), m0)
             [] i0.op = "LOGICAL_NOT" -> Replace(1, Bool(~ to_boolean(Opnd(1, vm))), m0)
             [] i0.op = "TYPEOF" -> Replace(1, String(TypeOf(Opnd(1, vm), vm)), m0)
             [] OTHER -> Replace(2, Binary(i0.op, Opnd(1, vm), Opnd(2, vm)), m0)

(* A property of undefined or null is an error, of any other primitive      *)
(* undefined.                                                               *)
GetById ==
  LET o == Opnd(1, vm)
      m1 == pop(1, m0)
  IN /\ Fetch({"GET_BY_ID", "TRY_GET_BY_ID"})
     /\ vm' = IF o.k \in {"undefined", "null"} THEN ThrowNew("TypeError", m1)
              ELSE IF i0.op = "TRY_GET_BY_ID" /\ Lookup(o, i0.a, vm) = <<>>
                   THEN ThrowNew("ReferenceError", m1)
              ELSE GetFrom(o, i0.a, Wait(Kont("push"), m1))

PutById ==
  /\ Fetch({"PUT_BY_ID"})
  /\ vm' = PutProp(Opnd(1, vm), i0.a, Opnd(2, vm), pop(2, m0))

GetByVal ==
  LET o == Opnd(1, vm)
      m1 == IF i0.op = "GET_BY_VAL" THEN pop(2, m0) ELSE Replace(2, o, m0)
  IN /\ Fetch({"GET_BY_VAL", "GET_BY_VAL_PUSH_OBJ"})
     /\ vm' = IF o.k \in {"undefined", "null"} THEN ThrowNew("TypeError", pop(2, m0))
              ELSE GetFrom(o, KeyOf(Opnd(2, vm)), Wait(Kont("push"), m1))

PutByVal ==
  LET o == Opnd(1, vm)
  IN /\ Fetch({"PUT_BY_VAL"})
     /\ vm' = IF o.k \in {"undefined", "null"} THEN ThrowNew("TypeError", pop(3, m0))
              ELSE PutProp(o, KeyOf(Opnd(2, vm)), Opnd(3, vm), pop(3, m0))

(* An own property is looked for or removed.                                *)
OwnProperty ==
  LET o == Opnd(1, vm)
  IN \/ /\ Fetch({"IN"})
        /\ vm' = LET m1 == pop(2, m0)
                 IN IF ~ is_jsobject(Opnd(2, vm), vm) THEN ThrowNew("TypeError", m1)
                    ELSE push(Bool(KeyOf(o) \in DOMAIN Cell(Opnd(2, vm), vm).props), m1)
     \/ /\ Fetch({"DELETE_BY_ID", "DELETE_BY_VAL"})
        /\ vm' = LET byval == i0.op = "DELETE_BY_VAL"
                     m1 == pop(IF byval THEN 2 ELSE 1, m0)
                     key == IF byval THEN KeyOf(Opnd(2, vm)) ELSE i0.a
                 IN IF o.k \in {"undefined", "null"} THEN ThrowNew("TypeError", m1)
                    ELSE push(Bool(TRUE), RemoveProp(o, key, m1))

(* A tail call drops its frame unless native code waits for it.             *)
Call ==
  LET next(i) == block(vm).code[cf(vm).ip + i].op
      tail == i0.op = "TAILCALL" \/ (next(1) = "POP" /\ next(2) = "RET")
      argc == i0.a
      sp == cf(vm).sp
      func == Opnd(argc + 1, vm)
      this == Opnd(argc + 2, vm)
      args == Slice(sp - argc, argc)
      m1 == [pop(argc + 2, m0) EXCEPT !.cursor = sp - argc - 2]
      m2 == setup_for_vm_call(Cell(func, vm), args, m1)
      m3 == IF tail /\ ~ cf(vm).exit THEN pop_frame(m2) ELSE m2
  IN /\ Fetch({"CALL", "TAILCALL"})
     /\ vm' = IF ~ is_callable(func, vm) THEN ThrowNew("TypeError", m1)
              ELSE IF Is(func, {"function"}, vm)
              THEN IF HasRoom(m3)
                   THEN new_frame(Frame(Cell(func, vm), this, FALSE, FALSE, Len(m2.heap), vm), m3)
                   ELSE ThrowNew("RangeError", m3)
              ELSE Invoke(func, this, args, FALSE, Wait(Kont("push"), m1))

New ==
  LET argc == i0.a
      func == Opnd(argc + 1, vm)
      args == Slice(cf(vm).sp - argc, argc)
      m1 == alloc(Object(<<>>), pop(argc + 2, m0))
      object == Fresh(vm)
      m2 == setup_for_vm_call(Cell(func, vm), args, m1)
      m3 == IF i0.op = "TAILNEW" /\ ~ cf(vm).exit THEN pop_frame(m2) ELSE m2
  IN /\ Fetch({"NEW", "TAILNEW"})
     /\ vm' = IF ~ is_callable(func, vm) THEN ThrowNew("TypeError", pop(argc + 2, m0))
              ELSE IF Is(func, {"function"}, vm)
              THEN IF HasRoom(m3)
                   THEN new_frame(Frame(Cell(func, vm), object, TRUE, FALSE, Len(m2.heap), m1), m3)
                   ELSE ThrowNew("RangeError", m3)
              ELSE Invoke(func, object, args, TRUE, Wait(Kont("push"), m1))

Return_ ==
  LET f == cf(vm)
      top == IF f.sp <= f.limit THEN Undefined ELSE Opnd(1, vm)
      v == IF f.ctor /\ ~ is_jsobject(top, vm) THEN f.this ELSE top
      m1 == pop_frame(vm)
  IN /\ Fetch({"RET"})
     /\ vm' = IF f.exit \/ m1.frames = <<>> THEN Answer(TRUE, v, m1) ELSE push(v, m1)

(* NEWARRAY takes the elements from the top down and opens what SPREAD left.*)
Items(v, m) == IF Is(v, {"spread"}, m) THEN Cell(v, m).elems ELSE <<v>>
Create ==
  LET f == block(vm)
      n == i0.a
  IN /\ Fetch({"NEWOBJECT", "NEWARRAY", "GET_FUNCTION"})
     /\ vm' = CASE i0.op = "NEWOBJECT" -> push(Fresh(vm), alloc(Object(<<>>), m0))
                [] i0.op = "NEWARRAY" ->
                     Replace(n, Fresh(vm), alloc(Array(FlattenSeq([i \in 1 .. n |-> Items(Opnd(i, vm), vm)])), m0))
                [] i0.op = "GET_FUNCTION" ->
                     push(Fresh(vm), alloc([t |-> IF code.blocks[n].gen THEN "generatorfn" ELSE "function",
                                            block |-> n, env |-> cf(vm).env, props |-> <<>>], m0))

(* SpreadValue::new calls Spread.js.                                        *)
Spread ==
  /\ Fetch({"SPREAD"})
  /\ vm' = Invoke(Spread_, Undefined, Vector(<<Opnd(1, vm)>>), FALSE, Wait(Kont("spread"), pop(1, m0)))

(* reflect_apply.                                                           *)
CallBuiltin ==
  LET list == Cell(Opnd(1, vm), vm)
      func == Opnd(2, vm)
      m1 == pop(3, m0)
      m2 == IF i0.a = "construct" THEN alloc(Object(<<>>), m1) ELSE m1
      this == IF i0.a = "construct" THEN Fresh(m1) ELSE Opnd(3, vm)
  IN /\ Fetch({"CALL_BUILTIN"})
     /\ vm' = IF ~ is_callable(func, vm) THEN ThrowNew("TypeError", m1)
              ELSE Invoke(func, this, Vector(list.elems), i0.a = "construct", Wait(Kont("push"), m2))

ForIn ==
  LET o == Opnd(1, vm)
      it == Cell(o, vm)
      names == IF Is(o, {"array"}, vm) THEN [i \in DOMAIN it.elems |-> ToString(i - 1)]
               ELSE IF o.k = "ref" THEN SetToSeq(DOMAIN it.props) ELSE <<>>
  IN /\ Fetch({"FORIN_SETUP", "FORIN_ENUMERATE", "FORIN_LEAVE"})
     /\ vm' = CASE i0.op = "FORIN_SETUP" ->
                     IF o.k \in {"undefined", "null"} THEN jump(i0.a, Replace(1, Empty_, m0))
                     ELSE Replace(1, Fresh(vm), alloc([t |-> "iter", names |-> names, at |-> 0], m0))
                [] i0.op = "FORIN_ENUMERATE" ->
                     IF ~ Is(o, {"iter"}, vm) THEN [m0 EXCEPT !.mode = [t |-> "undefined"]]
                     ELSE IF it.at = Len(it.names) THEN jump(i0.a, push(Empty_, m0))
                     ELSE [push(String(it.names[it.at + 1]), m0) EXCEPT !.heap[o.n].at = @ + 1]
                [] i0.op = "FORIN_LEAVE" -> pop(1, m0)

Handlers ==
  LET f == cf(m0)
  IN /\ Fetch({"PUSH_CATCH", "POP_CATCH"})
     /\ vm' = IF i0.op = "PUSH_CATCH"
              THEN setf([f EXCEPT !.tries = Append(@, [env |-> f.env, ip |-> f.ip + i0.a, sp |-> f.sp])], m0)
              ELSE setf([f EXCEPT !.tries = Front(@)], m0)

ThrowIns ==
  /\ Fetch({"THROW"})
  /\ vm' = Throw(Opnd(1, vm), pop(1, m0))

(* A yield returns to the native code and leaves the frame.                 *)
Yield ==
  /\ Fetch({"INITIAL_YIELD", "YIELD"})
  /\ vm' = Answer(TRUE, IF i0.op = "YIELD" THEN Marker("yield") ELSE Undefined, m0)

Unwind ==
  /\ vm.mode.t = "throw"
  /\ vm' = unwind(vm.mode.v, vm)
  /\ UNCHANGED <<program, code>>

------------------------------------------------------------------------------
(* What a native activation does with the result it waits for.              *)
NativeReturn ==
  LET k == Last(vm.natives)
      ok == vm.mode.ok
      v == vm.mode.v
      m == [vm EXCEPT !.natives = Front(@)]
      g == [t |-> "generator", state |-> "Suspended", frame |-> save(m), props |-> <<>>]
  IN /\ vm.mode.t = "ret"
     /\ UNCHANGED <<program, code>>
     /\ vm' = CASE k.t = "main" -> [m EXCEPT !.mode = [t |-> "done", ok |-> ok, v |-> Show(v, m)]]
                [] k.t = "resume" -> AfterResume(k.x, ok, v, m)
                [] ~ ok /\ k.t \in {"push", "spread"} -> Throw(v, m)
                [] ~ ok /\ k.t \in {"generator", "apply", "module"} -> m
                [] ok /\ k.t = "module" ->
                     Answer(TRUE, k.x.object, [m EXCEPT !.modules = (k.x.name :> k.x.object) @@ @])
                [] ok /\ k.t = "push" -> push(v, [m EXCEPT !.mode = [t |-> "run"]])
                [] ok /\ k.t = "spread" ->
                     push(Fresh(m), [alloc([t |-> "spread", elems |-> Cell(v, m).elems], m)
                                       EXCEPT !.mode = [t |-> "run"]])
                [] ok /\ k.t = "apply" -> ApplyNext([k.x EXCEPT !.got = Append(@, v)], m)
                [] ok /\ k.t = "generator" -> Answer(TRUE, Fresh(m), alloc(g, pop_frame(m)))

Ended == vm.mode.t \in {"done", "undefined"}
Finished == Ended /\ UNCHANGED vars

------------------------------------------------------------------------------
StartHeap ==
  LET natives == [i \in DOMAIN NativeNames |-> [t |-> "native", name |-> NativeNames[i], props |-> <<>>]]
      global == Object([log |-> NativeRef("log"), getter |-> NativeRef("getter")])
  IN <<global>> \o natives
     \o <<Environment(0, 0), [t |-> "function", block |-> 1, env |-> RootEnv, props |-> <<>>]>>
Start ==
  [mem |-> [a \in 0 .. StackSize + Slack - 1 |-> Undefined], cursor |-> 0, frames |-> <<>>,
   natives |-> <<>>, out |-> <<>>, mode |-> [t |-> "run"], heap |-> StartHeap,
   modules |-> <<>>]
ScriptFn == [t |-> "function", block |-> Len(code.blocks), env |-> RootEnv, props |-> <<>>]
Init ==
  /\ program \in DOMAIN Programs
  /\ code = Programs[program]
  /\ vm = IF code.files = <<>>
          THEN perform_vm_call(ScriptFn, Undefined, Vector(<<>>), FALSE, Wait(Kont("main"), Start))
          ELSE LET m == ModuleObject(Start)  \* Context::evalm
               IN perform_vm_call(ScriptFn, GlobalObject, Vector(<<Ref(Len(m.heap))>>), FALSE,
                                  Wait(Kont("main"), m))

Run == \/ GetVariable \/ SetVariable \/ Declare \/ Jump \/ Operands \/ Operator
       \/ GetById \/ PutById \/ GetByVal \/ PutByVal \/ OwnProperty \/ Call \/ New \/ Return_ \/ Create
       \/ Spread \/ CallBuiltin \/ ForIn \/ Handlers \/ ThrowIns \/ Yield
Next == Run \/ Unwind \/ NativeReturn \/ Finished

(* The thread goes on until the program ends: WF_vars(Next), in a form that *)
(* does not need ENABLED.  An instruction that jumps to itself is the only  *)
(* step that changes nothing.                                               *)
JumpsToItself == vm.mode.t = "run" /\ ins(vm) = Ins("JMP", -1)
Progress == []<>(Ended \/ JumpsToItself) \/ []<><<TRUE>>_vars

Spec == Init /\ [][Next]_vars /\ Progress

------------------------------------------------------------------------------
(* Frames share one stack and none writes into another's part of it: a      *)
(* frame starts where its caller's operands end, and a handler restores a   *)
(* height between the start of its frame and the operands there are.        *)
FramesDisjoint ==
  \A i \in DOMAIN vm.frames :
    LET f == vm.frames[i]
    IN /\ f.limit <= f.sp
       /\ i < Len(vm.frames) => f.sp <= vm.frames[i + 1].limit
       /\ \A j \in DOMAIN f.tries : f.limit <= f.tries[j].sp

(* However a call from native code ends, by a return, an error that unwinds *)
(* any number of frames or a yield, the native code finds the frames it     *)
(* left, with as many operands; a yield leaves one frame more, the one that *)
(* is to be saved.                                                          *)
StackRestored ==
  vm.mode.t = "ret" =>
    LET k == Last(vm.natives)
        yielded == vm.mode.ok /\ (k.t = "generator" \/ (k.t = "resume" /\ vm.mode.v.k = "native"))
    IN /\ Len(vm.frames) = k.depth + (IF yielded THEN 1 ELSE 0)
       /\ k.depth > 0 => vm.frames[k.depth].sp = k.sp

(* A generator runs at most once at a time, and is Executing exactly while  *)
(* a call of next, return or throw waits for it.                            *)
GeneratorOnce ==
  \A g \in DOMAIN vm.heap : vm.heap[g].t = "generator" =>
    LET waiting == {i \in DOMAIN vm.natives : vm.natives[i].t = "resume" /\ vm.natives[i].x = Ref(g)}
    IN Cardinality(waiting) = IF vm.heap[g].state = "Executing" THEN 1 ELSE 0

(* A variable is where the compiler counted it: as many environments out as *)
(* there are functions in between, at an index the environment has (the     *)
(* debug_assert of GE0GL, and what get_unchecked relies on).                *)
VariableInRange ==
  vm.mode.t = "run" =>
    LET at_(env) == i0.a < Len(vm.heap[env].vars)
    IN CASE i0.op \in {"GE0GL", "GE0SL", "DECL_LET", "DECL_CONST"} -> at_(cf(vm).env)
         [] i0.op = "GET_LOCAL" -> at_(Opnd(1, vm).n)
         [] i0.op = "SET_LOCAL" -> at_(Opnd(1, vm).n)
         [] OTHER -> TRUE

(* The memory that an instruction reaches is that of its frame and of its   *)
(* environments (Frame::pop, get_unchecked).                                *)
FramesSound == FramesDisjoint /\ VariableInRange
=============================================================================
