------------------------------ MODULE MCTenants ------------------------------
(* Accounts, Connectors and PolicyForms for TLC: who may use the console,   *)
(* which connectors it has, and the policies it writes. They share no state *)
(* that changes, so each is explored while the others stand still. The one  *)
(* user is one of t1; a purge removes it, and single sign-on makes it anew. *)
EXTENDS Accounts, Connectors, PolicyForms, TLC

CONSTANTS t1, t2, usr, pw1, pw2, b1, b2, b3, o1, o2, o3

MCTenant == {t1, t2}

MCUser == {usr}

MCHome == [v \in MCUser |-> t1]

MCPassword == {pw1, pw2}

MCDays == {0, 1}

MCBpn == {b1, b2, b3}

MCOperand == {o1, o2, o3}

MCOperandKind ==
  [o \in MCOperand |-> CASE o = o1 -> "bpn" [] o = o2 -> "count" [] o = o3 -> "anyOfOnly"]

MCSuggested == [o \in MCOperand |-> IF o = o3 THEN <<1>> ELSE <<>>]

(* Policies as the console makes them, with every logic, and others: with   *)
(* an operator the builder does not offer, with two rules, with a list and  *)
(* a group, with a group of nothing, with operands that are not IRIs.       *)
MCForeign ==
  LET con(o, as, by, many, r) ==
        [left |-> [name |-> o, as |-> as], op |-> by, many |-> many, right |-> r]
      partner == con(o1, "iri", "isAnyOf", TRUE, <<1, 2>>)
      count == con(o2, "iri", "neq", FALSE, <<2>>)
      short == con(o2, "prefix", "lt", FALSE, <<2>>)
      other == con(o3, "iri", "eq", FALSE, <<1>>)
      rule(t, n) == [type |-> t, action |-> "use", nodes |-> n]
  IN {<<rule(t, Grouped(g, <<partner, count>>))>> : t \in {"permission", "prohibition"}, g \in Logic}
     \cup {<<rule("permission", n)>> :
             n \in {<<>>, <<[logic |-> "or", of |-> <<>>]>>, Grouped(Unset, <<partner, other>>),
                    Grouped(Unset, <<partner>>) \o Grouped("xone", <<count, short>>)}}
     \cup {<<rule("permission", Grouped(Unset, <<short>>)),
              rule("obligation", Grouped(Unset, <<other>>))>>}

VARIABLE turn  \* the part that moves

vars == <<accountsVars, registryVars, policyVars, turn>>

(* Which BPN a tenant has at first makes no difference.                     *)
Init ==
  /\ AccountsInit
  /\ RegistryInit /\ bpn = (t1 :> b1 @@ t2 :> b2)
  /\ PolicyInit
  /\ turn \in {"accounts", "registry", "policies"}

Next ==
  \/ turn = "accounts" /\ AccountsNext /\ UNCHANGED <<registryVars, policyVars, turn>>
  \/ turn = "registry" /\ RegistryNext /\ UNCHANGED <<accountsVars, policyVars, turn>>
  \/ turn = "policies" /\ PolicyNext /\ UNCHANGED <<accountsVars, registryVars, turn>>

Spec == Init /\ [][Next]_vars

Symmetry == Permutations(Req) \cup Permutations(MCPassword)

=============================================================================
