------------------------------- MODULE Values -------------------------------
(***************************************************************************)
(* Values, the heap cells they refer to, conversions and operators         *)
(* (vm/value.rs, vm/environment.rs), and the properties of cells as the    *)
(* interpreter sees them.  An operator that needs the heap takes a record  *)
(* m with a field heap last.                                               *)
(***************************************************************************)
EXTENDS ByteCompiler

------------------------------------------------------------------------------
(* Cells.  The first cells of a heap are the global object, the functions   *)
(* the engine provides, the environment of a script and Spread.js.          *)
Ref(i) == Value("ref", i, "")
Empty_ == Value("empty", 0, "")
NaN == Value("nan", 0, "")
Marker(w) == Value("native", 0, w)  \* encode_native_u32(FuncRet)

NativeNames == <<"loader", "log", "call", "apply", "next", "return", "throw", "iterator", "values",
                 "array_next", "getter", "push">>
NativeRef(name) == Ref(1 + CHOOSE i \in DOMAIN NativeNames : NativeNames[i] = name)
GlobalObject == Ref(1)
RootEnv == Len(NativeNames) + 2
Spread_ == Ref(RootEnv + 1)

(* What the prototypes of the kinds of objects provide.                     *)
Proto(t) ==
  CASE t \in {"function", "generatorfn", "native"} -> {"call", "apply"}
    [] t = "generator" -> {"next", "return", "throw"}
    [] t = "array" -> {"push"}
    [] OTHER -> {}
Method(t, name) ==
  CASE name \in Proto(t) -> <<NativeRef(name)>>
    [] name = "@@iterator" /\ t \in {"generator", "arrayiter"} -> <<NativeRef("iterator")>>
    [] name = "@@iterator" /\ t = "array" -> <<NativeRef("values")>>
    [] name = "next" /\ t = "arrayiter" -> <<NativeRef("array_next")>>
    [] OTHER -> <<>>

Object(props) == [t |-> "object", props |-> props]
Array(elems) == [t |-> "array", elems |-> elems, props |-> <<>>]
Environment(n, parent) ==
  [t |-> "env", vars |-> [i \in 1 .. n |-> [v |-> Undefined, mutable |-> TRUE]], parent |-> parent]

alloc(cell, m) == [m EXCEPT !.heap = Append(@, cell)]
Fresh(m) == Ref(Len(m.heap) + 1)
Cell(v, m) == m.heap[v.n]
Is(v, ts, m) == v.k = "ref" /\ Cell(v, m).t \in ts
is_jsobject(v, m) == v.k = "ref" /\ Cell(v, m).t \notin {"env", "iter", "spread"}
is_callable(v, m) == Is(v, {"function", "generatorfn", "native"}, m)

(* What a program shows of a value when it logs it.                         *)
Show(v, m) == IF v.k # "ref" THEN v
              ELSE Value("ref", 0, IF Cell(v, m).t = "error" THEN Cell(v, m).kind ELSE "object")

------------------------------------------------------------------------------
(* Conversions and operators on values.                                     *)
to_boolean(v) == CASE v.k \in {"int", "bool"} -> v.n # 0
                   [] v.k = "string" -> v.s # ""
                   [] OTHER -> v.k = "ref"
to_string(v) == CASE v.k = "string" -> v.s
                  [] v.k = "int" -> ToString(v.n)
                  [] v.k = "bool" -> IF v.n = 1 THEN "true" ELSE "false"
                  [] v.k = "nan" -> "NaN"
                  [] v.k = "ref" -> "[object Object]"
                  [] OTHER -> v.k
to_number(v) == CASE v.k \in {"int", "bool"} -> Num(v.n)
                  [] v.k = "null" \/ v = String("") -> Num(0)
                  [] OTHER -> NaN

Arithmetic(op, l, r) ==
  LET a == to_number(l)
      b == to_number(r)
  IN IF NaN \in {a, b} THEN IF op \in {"LESS", "GREATER"} THEN Bool(FALSE) ELSE NaN
     ELSE CASE op = "ADD" -> Num(a.n + b.n)
            [] op = "SUB" -> Num(a.n - b.n)
            [] op = "MUL" -> Num(a.n * b.n)
            [] op = "LESS" -> Bool(a.n < b.n)
            [] op = "GREATER" -> Bool(a.n > b.n)
abstract_equal(l, r) ==
  \/ l = r /\ l # NaN
  \/ {l.k, r.k} = {"undefined", "null"}
  \/ {l.k, r.k} = {"int", "bool"} /\ l.n = r.n
Binary(op, l, r) ==
  CASE op = "EQ" -> Bool(abstract_equal(l, r))
    [] op = "NEQ" -> Bool(~ abstract_equal(l, r))
    [] op = "STRICTEQ" -> Bool(l = r /\ l # NaN)
    [] op = "NSTRICTEQ" -> Bool(l # r \/ l = NaN)
    [] op = "ADD" /\ "string" \in {l.k, r.k} -> String(to_string(l) \o to_string(r))
    [] OTHER -> Arithmetic(op, l, r)
BinaryOps == {"ADD", "SUB", "MUL", "LESS", "GREATER", "EQ", "NEQ", "STRICTEQ", "NSTRICTEQ"}
Negate(v) == IF to_number(v) = NaN THEN NaN ELSE Num(0 - to_number(v).n)

TypeOf(v, m) == IF v.k = "ref" THEN IF is_callable(v, m) THEN "function" ELSE "object"
                ELSE IF v.k \in {"int", "nan"} THEN "number"
                ELSE IF v.k = "bool" THEN "boolean"
                ELSE IF v.k = "null" THEN "object" ELSE v.k

------------------------------------------------------------------------------
(* Properties.                                                              *)
KeyOf(v) == to_string(v)
Lookup(v, key, m) ==
  IF v.k # "ref" THEN <<>>
  ELSE LET c == Cell(v, m)
       IN IF c.t \in {"env", "iter", "spread"} THEN <<>>
          ELSE IF key \in DOMAIN c.props THEN <<c.props[key]>>
          ELSE IF c.t = "array" /\ key = "length" THEN <<Num(Len(c.elems))>>
          ELSE IF c.t = "array" /\ \E i \in DOMAIN c.elems : ToString(i - 1) = key
               THEN <<c.elems[CHOOSE i \in DOMAIN c.elems : ToString(i - 1) = key]>>
          ELSE Method(c.t, key)
PutProp(v, key, val, m) ==
  IF ~ is_jsobject(v, m) THEN m
  ELSE LET c == Cell(v, m)
       IN IF c.t = "array" /\ \E i \in 1 .. Len(c.elems) + 1 : ToString(i - 1) = key
          THEN LET i == CHOOSE i \in 1 .. Len(c.elems) + 1 : ToString(i - 1) = key
               IN [m EXCEPT !.heap[v.n].elems = [j \in DOMAIN @ \cup {i} |-> IF j = i THEN val ELSE @[j]]]
          ELSE [m EXCEPT !.heap[v.n].props = (key :> val) @@ @]

RemoveProp(v, key, m) ==
  IF ~ is_jsobject(v, m) THEN m
  ELSE [m EXCEPT !.heap[v.n].props = [x \in DOMAIN @ \ {key} |-> @[x]]]
=============================================================================
