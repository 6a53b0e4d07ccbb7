---------------------------- MODULE MCFlowTracer ----------------------------
(***************************************************************************)
(* Three families of inputs: every call graph of three routines behind one *)
(* event; every choice of candidates for a handler's name; and more events *)
(* and bindings than MaxTraces keeps.                                      *)
(***************************************************************************)
EXTENDS FlowTracer

MCUnitOf == ("form.pas" :> "form") @@ ("form.dfm" :> "form") @@ ("base.pas" :> "base")
            @@ ("save.go" :> "save") @@ ("save.sql" :> "save")
MCCollation == <<<<"Post">>, <<"Save">>, <<"TBase", "Save">>, <<"TForm", "Check">>, <<"TForm", "Save">>>>
MCPascalFiles == {"form.pas", "base.pas"}

Routine(key, qualified, file, type) ==
  [key |-> key, name |-> qualified[Len(qualified)], qualified |-> qualified, file |-> file,
   type |-> type, first |-> 1, last |-> 1]

TheEvent == [name |-> "OnClick", handler |-> "Save", owner |-> <<"TForm">>, file |-> "form.dfm"]
Nothing(symbols) == [key \in {symbol.key : symbol \in symbols} |-> <<>>]

\* Call graphs.
Save  == Routine("save", <<"TForm", "Save">>, "form.pas", "method")
Check == Routine("check", <<"TForm", "Check">>, "form.pas", "method")
Post  == Routine("post", <<"Post">>, "base.pas", "procedure")

CallTo == ("save" :> <<"TForm", "Save">>) @@ ("check" :> <<"TForm", "Check">>)
          @@ ("post" :> <<"Post">>) @@ ("gone" :> <<"Gone">>)
Calls(targets) ==
  [n \in DOMAIN targets |-> [to |-> targets[n], name |-> CallTo[targets[n]], line |-> n]]

Statement(key, table, fields, operation, dynamic) ==
  [key |-> key, tables |-> <<[name |-> table, operation |-> operation]>>, fields |-> fields,
   dynamic |-> dynamic]
SqlOfCallees ==
  ("save" :> <<>>)
  @@ ("check" :> <<Statement("s1", "ORDERS", <<[name |-> "TOTAL"], [name |-> "STATE"]>>, "write", FALSE)>>)
  @@ ("post" :> <<Statement("s2", "LOG", <<>>, "unknown", TRUE)>>)

CallGraphs ==
  {[symbols |-> {Save, Check, Post},
    calls   |-> ("save" :> Calls(first)) @@ ("check" :> Calls(second)) @@ ("post" :> Calls(third)),
    sql     |-> SqlOfCallees,
    events  |-> <<TheEvent>>, bindings |-> <<>>, order |-> <<[kind |-> "event", index |-> 1]>>] :
      first  \in BoundedSeq({"save", "check", "post", "gone"}, 2),
      second \in BoundedSeq({"save", "post", "gone"}, 2),
      third  \in BoundedSeq({"save", "check"}, 1)}

\* Candidates for the name Save.
Candidates ==
  {Routine("m1", <<"TForm", "Save">>, "form.pas", "method"),
   Routine("m2", <<"TForm", "Save">>, "base.pas", "method"),
   Routine("m3", <<"TBase", "Save">>, "base.pas", "method"),
   Routine("m4", <<"Save">>, "form.pas", "procedure"),
   Routine("m5", <<"Save">>, "base.pas", "procedure"),
   Routine("m6", <<"Save">>, "save.go", "function"),
   [Routine("m7", <<"Save">>, "save.sql", "procedure") EXCEPT !.qualified = None],
   Routine("m8", <<"Save">>, "base.pas", "class")}

NameClashes ==
  {[symbols |-> symbols, calls |-> Nothing(symbols), sql |-> Nothing(symbols),
    events  |-> <<TheEvent>>, bindings |-> <<>>, order |-> <<[kind |-> "event", index |-> 1]>>] :
      symbols \in SUBSET Candidates}

\* More descriptors than are kept.
Binding(table, field, confidence) ==
  [table |-> table, field |-> field, dataSet |-> "qOrders", confidence |-> confidence,
   warnings |-> IF confidence = "high" THEN {} ELSE {Warning("INCOMPLETE", None)}]
Bindings == {Binding(table, field, confidence) :
               table \in {"ORDERS", None}, field \in {"TOTAL", None}, confidence \in {"high", "medium", "low"}}

Crowded ==
  {[symbols |-> symbols, calls |-> Nothing(symbols), sql |-> Nothing(symbols),
    events  |-> <<TheEvent, TheEvent>>, bindings |-> <<binding>>, order |-> order] :
      symbols \in {{}, {Save}}, binding \in Bindings,
      order \in {order \in BoundedSeq({[kind |-> "event", index |-> 1], [kind |-> "event", index |-> 2],
                                       [kind |-> "binding", index |-> 1]}, 3) : IsInjective(order)}}

MCInputs == CallGraphs \cup NameClashes \cup Crowded
=============================================================================
