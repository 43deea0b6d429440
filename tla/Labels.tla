------------------------------- MODULE Labels -------------------------------
(***************************************************************************)
(* Labels of the assembler (as/id.c, as/op.c and the rules of as/m8c.y     *)
(* that use them): a single pass over several files, in which references   *)
(* go forward, backward and from file to file.                             *)
(*                                                                         *)
(* A label is non-reusable ("foo", visible in its file, or everywhere if   *)
(* exported), reusable (".foo", gone with the next non-reusable label) or  *)
(* re-definable (".1", used as ".1b" and ".1f").  An expression is one     *)
(* reference or a number; the number a definition gives its label is told  *)
(* from all others by the place of the definition in the source.           *)
(*                                                                         *)
(* The source is read one item at a time, and the first token of the next  *)
(* item before the current one is acted on: the parser needs it to know    *)
(* whether EQU or an operator follows.                                     *)
(***************************************************************************)
EXTENDS Integers, Sequences, FiniteSets, SequencesExt

CONSTANTS NonReusable, Reusable, Redefinable,   \* names
          Menus,       \* sets of items; a source is made of one of them
          MaxItems,    \* bound: length of the source
          MaxFiles     \* bound: number of files

None == "None"
NULL == 0
Names == NonReusable \cup Reusable \cup Redefinable

\* "foo:", "foo::" (global), each alone or with "equ expr"; "db expr";
\* "export foo".
Ref(name, direction) == [name |-> name, direction |-> direction]
Define(name, global, equ) ==
  [op |-> "define", name |-> name, global |-> global, equ |-> equ]
Number == Ref("", 0)     \* for an expression without references
Db(r) == [op |-> "db", ref |-> r]
Export(name) == [op |-> "export", name |-> name]
EndOfFile == [op |-> "eof"]
Nothing == [item |-> [op |-> "nothing"], id |-> NULL]

VARIABLES
  source,   \* history: items acted on, each with its file
  menu,     \* the items this source is made of
  file,     \* number of the file being read
  look,     \* the next item, with the identifier of its first token
  table,    \* identifiers: struct ids by number, and the trees (name -> number)
  value,    \* value[i]: struct op of the value that item i declares
  status    \* "reading", "resolve", "done", or the error that ended it

vars == <<source, menu, file, look, table, value, status>>

Nobody == [n \in Names |-> NULL]
number_op(i) == [fn |-> "number", at |-> i]

-----------------------------------------------------------------------------
(* id.c *)

IsDotted(name) == name \notin NonReusable

make_id(t, name) ==
  LET tree == IF IsDotted(name) THEN "reusable" ELSE "non_reusable"
      new == Len(t.ids) + 1
  IN IF t[tree][name] # NULL THEN [t |-> t, id |-> t[tree][name]]
     ELSE [id |-> new,
           t |-> [t EXCEPT ![tree][name] = new,
                    !.ids = Append(@, [name |-> name, values |-> <<>>,
                                       prev |-> NULL, pprev |-> NULL,
                                       global |-> FALSE, alias |-> t.global[name]])]]

Members(tree, names) == {tree[n] : n \in names} \ {NULL}

\* Mistake: the re-definable labels go as well.
scrap_all(t) ==
  [t EXCEPT !.reusable = Nobody, !.listed = @ \cup Members(t.reusable, Names)]
scrap_reusable(t) ==
  [t EXCEPT !.reusable = [n \in Names |-> IF n \in Redefinable THEN @[n] ELSE NULL],
            !.listed = @ \cup Members(t.reusable, Reusable)]

\* An id that is exported uses the values of its alias.
Canon(t, d) ==
  IF t.ids[d].alias # NULL /\ t.ids[d].global THEN t.ids[d].alias ELSE d
ValuesOf(t, d) == IF d = NULL THEN <<>> ELSE t.ids[d].values

\* next_value, a pointer to a pointer, is the number of its place in the list.
next_value(t, d) == Len(t.ids[d].values) + 1

Redefines(t, d) ==
  t.ids[d].name \notin Redefinable /\ ValuesOf(t, Canon(t, d)) # <<>>

declare(t, d, i) ==
  [t EXCEPT !.ids[Canon(t, d)] =
     [@ EXCEPT !.pprev = t.ids[Canon(t, d)].prev,
               !.prev = next_value(t, Canon(t, d)), !.values = Append(@, i)]]

ReExports(t, d) == ValuesOf(t, t.ids[d].alias) # <<>>

export(t, d) ==
  LET a == t.ids[d].alias
      e == [t EXCEPT !.ids[d].global = TRUE]
  IN IF a = NULL \/ t.ids[d].values = <<>> THEN e
     ELSE [e EXCEPT !.ids[a].values = t.ids[d].values, !.ids[d].values = <<>>]

id_resolve(t, d, direction, in_equ) ==
  LET id == t.ids[Canon(t, d)]
  IN CASE direction = 0 -> 1
       [] direction = -1 -> IF in_equ THEN id.pprev ELSE id.prev
       [] direction = 1 -> next_value(t, Canon(t, d))

At(t, d, slot) ==
  LET v == t.ids[d].values IN IF slot \in DOMAIN v THEN v[slot] ELSE NULL

\* Mistake: what is defined in a file becomes global.
id_end_file_global(t) ==
  LET mine == Members(t.non_reusable, NonReusable)
  IN [scrap_all(t) EXCEPT
        !.non_reusable = Nobody,
        !.global = [n \in Names |-> IF t.non_reusable[n] # NULL /\ @[n] = NULL
                                    THEN t.non_reusable[n] ELSE @[n]],
        !.ids = [d \in DOMAIN @ |-> [@[d] EXCEPT !.global = @ \/ d \in mine]]]
id_end_file(t) ==
  LET mine == Members(t.non_reusable, NonReusable)
      local == {d \in mine : ~t.ids[d].global /\ t.ids[d].values # <<>>}
      new == {d \in mine \ local : t.ids[d].alias = NULL}
  IN [scrap_all(t) EXCEPT
        !.non_reusable = Nobody,
        !.listed = @ \cup local,
        !.global = [n \in Names |-> IF t.non_reusable[n] \in new
                                    THEN t.non_reusable[n] ELSE @[n]],
        !.ids = [d \in DOMAIN @ |->
                   [@[d] EXCEPT !.global = @ \/ d \in mine \ local]]]

UndefinedExport(t) ==
  \E d \in Members(t.non_reusable, NonReusable) :
    t.ids[d].global /\ t.ids[d].values = <<>> /\ ~ReExports(t, d)

\* What write_ids puts into the symbol map: definition and scope.
write_ids(t) ==
  {<<v, d>> \in (1..Len(source)) \X (t.listed \cup Members(t.global, Names)) :
     /\ Canon(t, d) = d
     /\ \E k \in DOMAIN t.ids[d].values : t.ids[d].values[k] = v}

-----------------------------------------------------------------------------
(* op.c *)

\* The lexer's make_id and id_op; fn is None if there is no previous one.
id_op(t, r, in_equ) ==
  LET m == make_id(t, r.name)
      slot == id_resolve(m.t, m.id, r.direction, in_equ)
      v == At(m.t, Canon(m.t, m.id), slot)
  IN [t |-> m.t,
      op |-> IF slot = NULL THEN [fn |-> None]
             ELSE IF v # NULL THEN value[v]
             ELSE [fn |-> "id", id |-> m.id, slot |-> slot]]

\* One step from a reference to the value it finds.
Hop(op) ==
  LET c == Canon(table, op.id)
      v == At(table, c, IF c = op.id THEN op.slot ELSE 1)
  IN IF v = NULL THEN [fn |-> "undefined label"] ELSE value[v]

\* A chain longer than there are values has come to one of them twice.
evaluate(op) ==
  LET Step(o, k) == IF o.fn = "id" THEN Hop(o) ELSE o
      end == FoldLeft(Step, op, <<0>> \o source)
  IN IF end.fn = "id" THEN [fn |-> "recursive definition"] ELSE end

-----------------------------------------------------------------------------
(* m8c.y *)

Item == look.item
Here == Len(source) + 1

\* The lexer makes the identifier when it reads a label.
ReadAhead(t, n) ==
  IF n.op = "define"
  THEN LET m == make_id(t, n.name)
       IN [t |-> m.t, look |-> [item |-> n, id |-> m.id]]
  ELSE [t |-> t, look |-> [item |-> n, id |-> NULL]]

\* The number or the reference a label stands for.  A re-definable label is
\* declared before its expression is read.
Declared == IF Item.name \in Redefinable THEN declare(table, look.id, Here) ELSE table
Expression ==
  IF Item.equ = Number THEN [t |-> Declared, op |-> number_op(Here)]
  ELSE id_op(Declared, Item.equ, TRUE)

\* assign, and what define removes.
Assigned(t) ==
  CASE Item.name \in Redefinable -> t
    [] Item.name \in Reusable -> declare(t, look.id, Here)
    [] OTHER -> scrap_reusable(declare(t, look.id, Here))

Error(t) ==
  IF Expression.op.fn = None THEN "no previous definition"
  ELSE IF Redefines(table, look.id) THEN "redefining"
  ELSE IF Item.global /\ ReExports(Assigned(t), look.id) THEN "re-exporting"
  ELSE None

Stop(error) ==
  /\ status' = error /\ look' = Nothing
  /\ UNCHANGED <<table, value>>

Acted ==
  /\ source' = Append(source, [item |-> Item, file |-> file])
  /\ UNCHANGED <<menu, file>>

\* label: GLOBAL, LOCAL, REDEFINABLE, each with and without label_directive.
Label(n) ==
  /\ Item.op = "define"
  /\ LET ahead == ReadAhead(Expression.t, n)
         t == Assigned(ahead.t)
     IN IF Error(ahead.t) # None THEN Stop(Error(ahead.t))
        ELSE /\ look' = ahead.look
             /\ table' = IF Item.global THEN export(t, look.id) ELSE t
             /\ value' = [value EXCEPT ![Here] = Expression.op]
             /\ UNCHANGED status

\* The op to be stored is kept as the "value" of the item.
Data(n) ==
  /\ Item.op = "db"
  /\ LET e == id_op(table, Item.ref, FALSE)
         ahead == ReadAhead(e.t, n)
     IN IF e.op.fn = None THEN Stop("no previous definition")
        ELSE /\ look' = ahead.look /\ table' = ahead.t
             /\ value' = [value EXCEPT ![Here] = e.op]
             /\ UNCHANGED status

ExportDirective(n) ==
  /\ Item.op = "export"
  /\ LET m == make_id(table, Item.name)
         ahead == ReadAhead(export(m.t, m.id), n)
     IN IF ReExports(m.t, m.id) THEN Stop("re-exporting")
        ELSE /\ look' = ahead.look /\ table' = ahead.t
             /\ UNCHANGED <<value, status>>

\* do_file: the end of one file, and the first token of the next.
EndFile ==
  /\ Item.op = "eof"
  /\ IF UndefinedExport(table) THEN Stop("undefined exported")
     ELSE /\ table' = id_end_file(table)
          /\ look' = Nothing
          /\ status' = IF file = MaxFiles THEN "resolve" ELSE "reading"
          /\ UNCHANGED value
  /\ source' = Append(source, [item |-> Item, file |-> file])
  /\ file' = file + 1
  /\ UNCHANGED menu

BeginFile(n) ==
  /\ status = "reading" /\ look = Nothing
  /\ look' = ReadAhead(table, n).look /\ table' = ReadAhead(table, n).t
  /\ UNCHANGED <<source, menu, file, value, status>>

\* resolve: the first patch that cannot be evaluated ends the assembly.
Patches == {i \in DOMAIN source : source[i].item.op = "db"}
Failed == {i \in Patches : evaluate(value[i]).fn # "number"}

resolve ==
  /\ status = "resolve"
  /\ status' = IF Failed = {} THEN "done"
               ELSE evaluate(value[CHOOSE i \in Failed : \A j \in Failed : i <= j]).fn
  /\ UNCHANGED <<source, menu, file, look, table, value>>

Init ==
  /\ source = <<>> /\ file = 1 /\ look = Nothing /\ status = "reading"
  /\ menu \in Menus
  /\ table = [ids |-> <<>>, non_reusable |-> Nobody, reusable |-> Nobody,
              global |-> Nobody, listed |-> {}]
  /\ value = [i \in 1..MaxItems |-> [fn |-> None]]

\* The source can go on with any item as long as there is room for the ends
\* of the files.
Room == {n \in menu : n = EndOfFile
           \/ Here + (IF look = Nothing THEN 0 ELSE 1) <= MaxItems - (1 + MaxFiles - file)}

Next ==
  \/ \E n \in Room : BeginFile(n)
  \/ /\ look # Nothing
     /\ \/ \E n \in Room : (Label(n) \/ Data(n) \/ ExportDirective(n)) /\ Acted
        \/ EndFile
  \/ resolve

Spec == Init /\ [][Next]_vars

-----------------------------------------------------------------------------
(* What a source means (as/README), from its text alone. *)

ItemAt(i) == source[i].item
SameFile(i, j) == source[i].file = source[j].file
DefinitionsOf(name) ==
  {j \in DOMAIN source : ItemAt(j).op = "define" /\ ItemAt(j).name = name}
InFile(name, i) == {j \in DefinitionsOf(name) : SameFile(i, j)}

\* The reusable labels that i can see are those with no other label between.
Separates(k) == ItemAt(k).op = "define" /\ ItemAt(k).name \in NonReusable
Scope(i) == {k \in 1..i - 1 : Separates(k) /\ SameFile(i, k)}

Exports(name, i) ==
  \/ ItemAt(i) = Export(name)
  \/ ItemAt(i).op = "define" /\ ItemAt(i).name = name /\ ItemAt(i).global
Exported(name) ==
  {j \in DefinitionsOf(name) :
     \E k \in DOMAIN source : SameFile(j, k) /\ Exports(name, k)}

Smallest(S) == {m \in S : \A k \in S : m <= k}
Largest(S) == {m \in S : \A k \in S : m >= k}

\* The definition a reference at i is to, if there is one.
Meaning(r, i) ==
  CASE r.direction = -1 -> Largest({j \in InFile(r.name, i) : j < i})
    [] r.direction = 1 -> Smallest({j \in InFile(r.name, i) : j > i})
    [] r.name \in Reusable -> {j \in InFile(r.name, i) : Scope(j) = Scope(i)}
    [] OTHER -> IF InFile(r.name, i) # {} THEN InFile(r.name, i) ELSE Exported(r.name)

\* The place its value comes from, through any number of EQUs: a set with one
\* member, none if it is undefined, and many if it never ends.
Value(r, i) ==
  LET step(S) == UNION {IF ItemAt(j).equ = Number THEN {j} ELSE Meaning(ItemAt(j).equ, j) : j \in S}
      after[k \in 0..Len(source)] ==
        IF k = 0 THEN Meaning(r, i) ELSE step(after[k - 1])
  IN {j \in after[Len(source)] : ItemAt(j).equ = Number}

\* Three ways in which the code departs from this.  A reusable label that
\* directly follows a label it should be separated by is read too early.
ReadTooEarly(i) ==
  /\ i > 1 /\ SameFile(i - 1, i) /\ Separates(i - 1)
  /\ ItemAt(i).op = "define" /\ ItemAt(i).name \in Reusable
\* In the expression of an EQU every re-definable label is one too far back.
EquOfOther(i) ==
  /\ ItemAt(i).op = "define" /\ ItemAt(i).equ # Number
  /\ ItemAt(i).equ.direction = -1 /\ ItemAt(i).equ.name # ItemAt(i).name
\* A label exported twice is refused if an earlier file has used it.
ExportsAgain(i) ==
  \E n \in NonReusable : Exports(n, i) /\ \E k \in 1..i - 1 : SameFile(k, i) /\ Exports(n, k)
Excused ==
  \E i \in DOMAIN source : ReadTooEarly(i) \/ EquOfOther(i) \/ ExportsAgain(i)

\* Every reference stores the value of the definition it is to, wherever the
\* two stand.
RefersAsWritten ==
  (status = "done" /\ ~Excused) =>
    \A i \in Patches : Value(ItemAt(i).ref, i) = {evaluate(value[i]).at}

\* Two definitions of one name that could be seen from one place.
Clash(i, j) ==
  /\ i < j /\ ItemAt(i).op = "define" /\ ItemAt(j).op = "define"
  /\ ItemAt(i).name = ItemAt(j).name
  /\ \/ ItemAt(i).name \in NonReusable /\ SameFile(i, j)
     \/ ItemAt(i).name \in Reusable /\ SameFile(i, j) /\ Scope(i) = Scope(j)
     \/ {i, j} \subseteq Exported(ItemAt(i).name)

\* An assembly fails if and only if the source is wrong, and for the reason
\* it gives.
Wrong(error) ==
  LET last == Len(source)
      r == IF ItemAt(last).op = "db" THEN ItemAt(last).ref ELSE ItemAt(last).equ
      name == ItemAt(last).name
  IN CASE error = "no previous definition" -> Meaning(r, last) = {}
       [] error = "redefining" -> \E i \in 1..last : Clash(i, last)
       [] error = "re-exporting" ->
            \E i \in 1..last : ~SameFile(i, last) /\ Exports(name, i)
       [] error = "undefined exported" ->
            \E i \in 1..last, n \in NonReusable :
              SameFile(i, last) /\ Exports(n, i) /\ InFile(n, last) = {}
       [] OTHER -> \E i \in Patches : Cardinality(Value(ItemAt(i).ref, i)) # 1

RightErrors ==
  ~Excused =>
    /\ status \notin {"reading", "resolve", "done"} => Wrong(status)
    /\ status = "done" => /\ \A i, j \in DOMAIN source : ~Clash(i, j)
                          /\ ~Wrong("undefined label")

\* The symbol map lists every definition once, as global if it is exported.
MapComplete ==
  (status = "done" /\ ~Excused) =>
    \A i \in DOMAIN source : ItemAt(i).op = "define" =>
      \E d \in DOMAIN table.ids :
        /\ {e \in DOMAIN table.ids : <<i, e>> \in write_ids(table)} = {d}
        /\ table.ids[d].global <=> i \in Exported(ItemAt(i).name)

\* The program and the symbol map say what the source says (as/id.c, as/op.c).
AssembledAsWritten == RefersAsWritten /\ MapComplete

\* as/README: "If re-definable, it will be ignored in the expression ... All
\* this applies only to the label immediately before EQU."  Other labels have
\* the value they have everywhere.
EquIgnoresItself ==
  \A i \in DOMAIN source :
    (EquOfOther(i) /\ status = "no previous definition" /\ i = Len(source)) =>
      Meaning(ItemAt(i).equ, i) = {}
=============================================================================
