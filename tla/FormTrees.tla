------------------------------- MODULE FormTrees -------------------------------
(***************************************************************************)
(* What a form says, as a tree: the reference for what is read from it.    *)
(* A form tree is [name, class, own, columns, closed, children] with the   *)
(* event and property lines of its own and, for each of its columns, those *)
(* of the column.  The mark that closes the list of columns is on a line   *)
(* of its own if closed says so; if not, it follows the end of the last    *)
(* column, as Delphi writes it, or opens and closes an empty list at once. *)
(***************************************************************************)
EXTENDS DfmForms

FormLine(kind, name, value) == [kind |-> kind, name |-> name, value |-> value, marks |-> {}]
Mark(kind) == FormLine(kind, None, None)

ColumnLines(node) ==
  LET columns == node.columns
      Ended(n) == IF n = Len(columns) /\ ~node.closed THEN Mark("last") ELSE Mark("end")
  IN  IF columns = <<>> /\ node.closed THEN <<>>
      ELSE <<Mark("columns")>>
             \o FlattenSeq([n \in DOMAIN columns |-> <<Mark("item")>> \o columns[n] \o <<Ended(n)>>])
             \o (IF node.closed THEN <<Mark("close")>> ELSE <<>>)

RECURSIVE Written(_)
Written(tree) ==
  <<FormLine("object", tree.name, tree.class)>> \o tree.own \o ColumnLines(tree)
    \o FlattenSeq([n \in DOMAIN tree.children |-> Written(tree.children[n])])
    \o <<FormLine("end", None, None)>>

RECURSIVE Preorder(_)
Preorder(tree) ==
  <<tree>> \o FlattenSeq([n \in DOMAIN tree.children |-> Preorder(tree.children[n])])

Properties(lines) == SelectSeq(lines, LAMBDA line : line.kind = "property")
Events(lines) == SelectSeq(lines, LAMBDA line : line.kind = "event")
FieldsOf(lines) == SelectSeq(lines, LAMBDA line : line.name = "FieldName")

\* Each object of a form is read with its own events and columns, and with its own
\* properties but where one of its columns has a property of that name, the last of
\* which it then has; and a form is called unbalanced, though it never is, exactly if
\* a list of columns does not close on a line of its own.
FormObjectsNest(tree) ==
  LET file   == [path |-> "form.dfm", lines |-> Written(tree)]
      form   == ParseDfmContent(file)
      nodes  == Preorder(tree)
      isOpen == \E n \in DOMAIN nodes : ~nodes[n].closed
  IN  /\ FormWarnings(file) = Flag(isOpen, "DFM_OBJECT_UNBALANCED", file)
      /\ Len(form.objects) = Len(nodes)
      /\ \A n \in DOMAIN nodes :
           LET read  == form.objects[n]
               below == FlattenSeq(nodes[n].columns)
               given == Properties(nodes[n].own \o below)
               Lasts(i) == \A j \in DOMAIN given : j > i => given[j].name # given[i].name
           IN  /\ read.name = nodes[n].name /\ read.class = nodes[n].class
               /\ [i \in DOMAIN read.columns |-> read.columns[i].field]
                    = [i \in DOMAIN FieldsOf(below) |-> FieldsOf(below)[i].value]
               /\ [i \in DOMAIN read.events |-> <<read.events[i].name, read.events[i].handler>>]
                    = [i \in DOMAIN Events(nodes[n].own) |->
                         <<Events(nodes[n].own)[i].name, Events(nodes[n].own)[i].value>>]
               /\ DOMAIN read.properties = {given[i].name : i \in DOMAIN given}
               /\ \A i \in DOMAIN given : Lasts(i) => read.properties[given[i].name] = given[i].value
=============================================================================
