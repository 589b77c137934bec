----------------------------- MODULE PolicyForms -----------------------------
(***************************************************************************)
(* A policy on its way from the connector to the builder and back: what    *)
(* the server makes of a definition (mapPolicy) and of a form              *)
(* (buildPolicyDefinition), both in server/lib/edcClient.ts, and what the  *)
(* builder of client/src/pages/PagePolicy.tsx opens, changes, previews,    *)
(* imports and saves.                                                      *)
(*                                                                         *)
(* A right operand is the sequence of its pieces between commas, and in a  *)
(* definition it is one string or an array of them (many). A left operand  *)
(* is written with a prefix or as the IRI that the connector compares:     *)
(* with a prefix a constraint is not enforced. An action is an @id, whose  *)
(* spelling makes no difference. Groups do not nest, and of operands,      *)
(* operators and actions those are here whose handling differs.            *)
(***************************************************************************)
EXTENDS Naturals, Sequences

Seqs == INSTANCE SequencesExt

CONSTANTS
  Operand,     \* left operands
  OperandKind, \* [Operand -> {"eqOnly", "anyOfOnly", "bpn", "count"}]
  Term,        \* pieces of right operands
  Word,        \* those that are not numbers
  Foreign,     \* definitions that somebody else made, or wrote as JSON
  Suggested,   \* Suggested[l]: the right operand l comes with, <<>> for none
  Unset,       \* no operand, no definition, no form
  MaxImported, \* JSON_IMPORT_MAX_CONSTRAINTS
  MaxRows,     \* bound: rows where one can be added
  MaxEdits,    \* bound: changes of forms
  MaxOpens     \* bound: forms opened

RuleType == {"permission", "prohibition", "obligation"}

RuleAction == {"use", "cx-policy:access"}

Logic == {"and", "or", "xone"}

Operator == {"eq", "neq", "isAnyOf", "isNoneOf", "lt", "gteq"}

(* Constraints by themselves are nodes as well, without a logic.           *)
Constraint == [left: [name: Operand, as: {"iri", "prefix"}], op: Operator, many: BOOLEAN,
               right: Seq(Term)]

Node == {n \in [logic: Logic \cup {Unset}, of: Seq(Constraint)] : n.logic = Unset => Len(n.of) = 1}

Definition == Seq([type: RuleType, action: RuleAction, nodes: Seq(Node)])

ASSUME PolicyAssumption ==
  /\ Word \subseteq Term /\ Term \subseteq Nat /\ Unset \notin Operand \cup Logic
  /\ OperandKind \in [Operand -> {"eqOnly", "anyOfOnly", "bpn", "count"}]
  /\ Suggested \in [Operand -> Seq(Term)]
  /\ \A p \in Foreign : p \in Definition /\ p # <<>>
  /\ MaxImported \in Nat \ {0} /\ {MaxRows, MaxEdits, MaxOpens} \subseteq Nat

VARIABLES
  policy,      \* the definition in the connector
  form,        \* the builder
  opens, edits \* how often it was opened, and changed

policyVars == <<policy, form, opens, edits>>

Text == {<<v>> : v \in Term} \cup {t \in Term \X Word : t[1] # t[2]}

----------------------------------------------------------------------------
(***************************************************************************)
(* What a definition means, by ODRL and not by the code: the requests it   *)
(* is about, by the claims of the participant.                             *)
(***************************************************************************)

Number(v) == v \notin Word

Numeric(text) == Len(text) = 1 /\ Number(text[1])

Holds(c, v) ==
  c.left.as = "iri" =>
    CASE c.op = "eq"        -> ~c.many /\ c.right = <<v>>
      [] c.op = "neq"       -> c.many \/ c.right # <<v>>
      [] c.op = "isAnyOf"   -> c.many /\ v \in Seqs!ToSet(c.right)
      [] c.op = "isNoneOf"  -> ~c.many \/ v \notin Seqs!ToSet(c.right)
      [] c.op = "lt"        -> Number(v) /\ Numeric(c.right) /\ v < c.right[1]
      [] c.op = "gteq"      -> Number(v) /\ Numeric(c.right) /\ v >= c.right[1]

Satisfied(node, env) ==
  LET met == {i \in DOMAIN node.of : Holds(node.of[i], env[node.of[i].left.name])} IN
  CASE node.logic = "or"   -> met # {}
    [] node.logic = "xone" -> \E i \in met : met = {i}
    [] OTHER               -> met = DOMAIN node.of

Meaning(p) ==
  UNION {{<<r.type, r.action, env>> :
            env \in {e \in [Operand -> Term] : \A i \in DOMAIN r.nodes : Satisfied(r.nodes[i], e)}}
         : r \in Seqs!ToSet(p)}

----------------------------------------------------------------------------
(***************************************************************************)
(* Conversions                                                             *)
(***************************************************************************)

(* The operators the connector takes for an operand, as far as they differ *)
(* here.                                                                   *)
Operators(l) ==
  IF l = Unset THEN <<"eq">>
  ELSE CASE OperandKind[l] = "eqOnly"     -> <<"eq">>
         [] OperandKind[l] = "anyOfOnly"  -> <<"isAnyOf">>
         [] OperandKind[l] = "bpn"        -> <<"eq", "neq", "isAnyOf", "isNoneOf">>
         [] OperandKind[l] = "count"      -> <<"eq", "neq", "lt", "gteq">>

(* reconcileOperator *)
Reconciled(l, op) ==
  IF op \in Seqs!ToSet(Operators(l)) THEN op ELSE Operators(l)[1]

MultiValue == {"isAnyOf", "isNoneOf"}

(* canonicalizePolicyIri and compactPolicyIri                              *)
Canonical(left) == [left EXCEPT !.as = "iri"]
Compact(left) == [left EXCEPT !.as = "prefix"]

(* Constraints as nodes of a definition: one group for several of them, if *)
(* there is a logic to join them.                                          *)
Grouped(logic, cons) ==
  IF Len(cons) > 1 /\ logic # Unset
  THEN <<[logic |-> logic, of |-> cons]>>
  ELSE [i \in DOMAIN cons |-> [logic |-> Unset, of |-> <<cons[i]>>]]

Serialised(row) ==
  [left |-> Canonical(row.left), op |-> row.op,
   many |-> row.op \in MultiValue, right |-> row.right]

(* buildPolicyDefinition, of what handleSave sends.                        *)
Built(f) ==
  LET logicOp == IF Len(f.rows) > 1 THEN f.logic ELSE Unset IN
  <<[type |-> f.type, action |-> f.action,
     nodes |-> Grouped(logicOp, [i \in DOMAIN f.rows |-> Serialised(f.rows[i])])]>>

(* The nodes of the preview: a group of its own as soon as there are two.  *)
PreviewNodes(logic, cons) ==
  IF Len(cons) > 1 THEN <<[logic |-> logic, of |-> cons]>>
  ELSE [i \in DOMAIN cons |-> [logic |-> Unset, of |-> <<cons[i]>>]]

(* odrlObj, the preview of a form.                                         *)
Preview(f) ==
  <<[type |-> f.type, action |-> f.action,
     nodes |-> PreviewNodes(f.logic, [i \in DOMAIN f.rows |-> Serialised(f.rows[i])])]>>

(* flattenPolicyConstraints and mapPolicyConstraint: an array, or the text *)
(* the connector made of one, is joined with commas; logic is left out.    *)
Leaves(nodes) == Seqs!FlattenSeq([i \in DOMAIN nodes |-> nodes[i].of])

Flattened(nodes) ==
  LET cons == Leaves(nodes) IN
  [i \in DOMAIN cons |-> [left |-> Compact(cons[i].left), op |-> cons[i].op,
                          right |-> cons[i].right]]

(* Seeded fault: an editor that starts from "and".                         *)
AlwaysAnd(nodes) == "and"

Groups(nodes) == {i \in DOMAIN nodes : nodes[i].logic # Unset}

First(positions) == CHOOSE i \in positions : \A j \in positions : i <= j

Last(positions) == CHOOSE i \in positions : \A j \in positions : i >= j

(* detectPolicyLogic: the first group's.                                   *)
DetectedLogic(nodes) ==
  IF Groups(nodes) = {} THEN "and" ELSE nodes[First(Groups(nodes))].logic

(* mapPolicy: the summary of a definition in the list of policies. Type    *)
(* and action are those of the first rule, the logic that of the first     *)
(* with several constraints.                                               *)
Mapped(p) ==
  LET several == {i \in DOMAIN p : Len(Leaves(p[i].nodes)) > 1}
      main == IF several = {} THEN p[1] ELSE p[First(several)]
  IN [type |-> p[1].type, action |-> p[1].action, logic |-> DetectedLogic(main.nodes),
      rows |-> Seqs!FlattenSeq([i \in DOMAIN p |-> Flattened(p[i].nodes)])]

Reconcile(rows) ==
  [i \in DOMAIN rows |-> [rows[i] EXCEPT !.op = Reconciled(rows[i].left.name, rows[i].op)]]

(* The groups that are looked into before there are constraints enough.    *)
Reached(nodes) ==
  {i \in Groups(nodes) : Len(Leaves(SubSeq(nodes, 1, i - 1))) < MaxImported}

(* importFromJson, of a definition of JSON: the rules of the first type    *)
(* that has some, their first constraints, and the logic of the last group *)
(* among those. The rest is cut off.                                       *)
Imported(p) ==
  LET nodes == Seqs!FlattenSeq([i \in DOMAIN p |-> IF p[i].type = p[1].type
                                                   THEN p[i].nodes ELSE <<>>])
      cons == Leaves(nodes)
      taken == {i \in DOMAIN cons : i <= MaxImported}
  IN [type |-> p[1].type, action |-> p[1].action,
      logic |-> IF Reached(nodes) = {} THEN "and" ELSE nodes[Last(Reached(nodes))].logic,
      rows |-> Reconcile([i \in taken |-> [left |-> cons[i].left, op |-> cons[i].op,
                                           right |-> cons[i].right]])]

----------------------------------------------------------------------------
(***************************************************************************)
(* The builder                                                             *)
(***************************************************************************)

(* A row that is not filled in.                                            *)
Blank == [left |-> [name |-> Unset, as |-> "prefix"], op |-> "eq", right |-> <<>>]

Row == [left: [name: Operand \cup {Unset}, as: {"iri", "prefix"}], op: Operator,
        right: Seq(Term)]

Form == [from: Definition \cup {Unset}, type: RuleType, action: RuleAction, logic: Logic,
         rows: Seq(Row)]

PolicyTypeOK ==
  /\ policy # Unset => policy \in Definition /\ policy # <<>>
  /\ form # Unset =>
       /\ form \in Form
       /\ \A i \in DOMAIN form.rows :
            form.rows[i].op \in Seqs!ToSet(Operators(form.rows[i].left.name))
  /\ opens \in 0..MaxOpens /\ edits \in 0..MaxEdits

PolicyInit == policy = Unset /\ form = Unset /\ opens = 0 /\ edits = 0

(* The definition is there.                                                *)
Find(p) ==
  /\ policy = Unset /\ form = Unset /\ opens = 0
  /\ policy' = p
  /\ UNCHANGED <<form, opens, edits>>

(* The builder opens with what is read from a definition, if any.          *)
Open(content, from) ==
  /\ form = Unset /\ opens < MaxOpens
  /\ opens' = opens + 1
  /\ form' = [from |-> from, type |-> content.type, action |-> content.action,
              logic |-> content.logic, rows |-> Reconcile(content.rows)]
  /\ UNCHANGED <<policy, edits>>

(* A new policy starts with an empty row.                                  *)
OpenNew ==
  /\ policy = Unset
  /\ Open([type |-> "permission", action |-> "use", logic |-> "and", rows |-> <<Blank>>], Unset)

(* Edit, from the list.                                                    *)
OpenEdit == policy # Unset /\ Open(Mapped(policy), policy)

(* The user changes something: it is no longer what was opened.            *)
Change(f) ==
  /\ form # Unset /\ edits < MaxEdits /\ edits' = edits + 1
  /\ form' = [f EXCEPT !.from = Unset]
  /\ UNCHANGED <<policy, opens>>

ChangeRow(i, row) == Change([form EXCEPT !.rows[i] = row])

(* updateConstraint: another operand takes its first operator if it does   *)
(* not know the one that is there, and the right operand that is suggested *)
(* for it, if any.                                                         *)
SetLeft(i, left) ==
  LET comes == IF left.as = "prefix" THEN Suggested[left.name] ELSE <<>> IN
  ChangeRow(i, [left |-> left, op |-> Reconciled(left.name, form.rows[i].op),
                right |-> IF comes # <<>> THEN comes ELSE form.rows[i].right])

SetOperator(i, op) == ChangeRow(i, [form.rows[i] EXCEPT !.op = op])

SetRight(i, text) == ChangeRow(i, [form.rows[i] EXCEPT !.right = text])

AddRow == Len(form.rows) < MaxRows /\ Change([form EXCEPT !.rows = Append(@, Blank)])

RemoveRow(i) == Change([form EXCEPT !.rows = Seqs!RemoveAt(@, i)])

SetField(name, value) == Change([form EXCEPT ![name] = value])

(* importFromJson: JSON without any constraint is refused.                 *)
Import(p) ==
  LET new == Imported(p) IN
  /\ new.rows # <<>>
  /\ Change([form EXCEPT !.type = new.type, !.action = new.action, !.logic = new.logic,
                         !.rows = new.rows])

(* What both sides check: operands that are set, and numbers to compare.   *)
Valid(f) ==
  \A i \in DOMAIN f.rows :
    /\ f.rows[i].left.name # Unset /\ f.rows[i].right # <<>>
    /\ f.rows[i].op = "lt" => Numeric(f.rows[i].right)

(* handleSave: the definition is replaced, and the builder closes. What    *)
(* the connector refuses changes nothing.                                  *)
Save ==
  /\ form # Unset /\ Valid(form)
  /\ policy' = Built(form)
  /\ form' = Unset
  /\ UNCHANGED <<opens, edits>>

Cancel == form # Unset /\ form' = Unset /\ UNCHANGED <<policy, opens, edits>>

PolicyNext ==
  \/ \E p \in Foreign : Find(p)
  \/ OpenNew \/ OpenEdit \/ Save \/ Cancel
  \/ \E p \in Foreign : Import(p)
  \/ form # Unset /\
       \/ AddRow
       \/ \E i \in DOMAIN form.rows :
            \/ RemoveRow(i)
            \/ \E l \in Operand, as \in {"prefix", "iri"} : SetLeft(i, [name |-> l, as |-> as])
            \/ \E op \in Seqs!ToSet(Operators(form.rows[i].left.name)) : SetOperator(i, op)
            \/ \E t \in Text : SetRight(i, t)
       \/ \E t \in RuleType : SetField("type", t)
       \/ \E a \in RuleAction : SetField("action", a)
       \/ \E g \in Logic : SetField("logic", g)

PolicySpec == PolicyInit /\ [][PolicyNext]_policyVars

----------------------------------------------------------------------------
(***************************************************************************)
(* Properties                                                              *)
(***************************************************************************)

(* What the builder can express: one rule with a list or a group of        *)
(* constraints, each enforced and with an operator its operand takes. A    *)
(* group of none at all is not among it: read as no constraint, an empty   *)
(* "or" that lets in nobody would be saved as a policy that lets in all.   *)
Expressible(p) ==
  /\ Len(p) = 1 /\ (Len(p[1].nodes) = 1 \/ \A n \in Seqs!ToSet(p[1].nodes) : n.logic = Unset)
  /\ \A n \in Seqs!ToSet(p[1].nodes) : n.logic \in {"or", "xone"} => n.of # <<>>
  /\ \A c \in Seqs!ToSet(Leaves(p[1].nodes)) :
       /\ c.left.as = "iri" /\ c.many = (c.op \in MultiValue)
       /\ c.op \in Seqs!ToSet(Operators(c.left.name))

(* Who opens a policy and saves it unchanged does not change whom it lets  *)
(* in, although it goes through five conversions of server and page, as    *)
(* long as the builder can express it (edcClient.ts:512-515,               *)
(* PagePolicy.tsx:1616-1617, 1627-1628).                                   *)
SavedAsOpened ==
  (form # Unset /\ form.from # Unset /\ Expressible(form.from)) =>
    Meaning(Built(form)) = Meaning(form.from)

(* The preview is what is saved (PagePolicy.tsx:1829-1831, 1863), and to   *)
(* import it brings back the form, unless that has more rows than are      *)
(* imported.                                                               *)
PreviewAsSaved ==
  (form # Unset /\ Valid(form)) =>
    /\ Preview(form) = Built(form)
    /\ Len(form.rows) \in 1..MaxImported => Built(Imported(Preview(form))) = Built(form)

(* What is opened, previewed, imported and saved is one and the same       *)
(* policy (SavedAsOpened, PreviewAsSaved), whatever was typed, imported    *)
(* and saved before (PagePolicy.tsx:1627-1628, 1829-1831).                 *)
PolicyInv == PolicyTypeOK /\ SavedAsOpened /\ PreviewAsSaved

=============================================================================
