------------------------------ MODULE Rights ------------------------------
(* Rights and lists of rights (src/sfa/trust/rights.py): a right is a named   *)
(* privilege with a delegate bit, a privilege allows the operations that      *)
(* privilege_table lists, and one list of rights covers another when each     *)
(* right of the second is covered, with its operations, by a right of the     *)
(* first that may be delegated.                                               *)

PrivilegeNames ==
  {"*", "authority", "refresh", "resolve", "sa", "embed", "bind", "control", "info", "ma", "operator"}

Privileges == [name \in PrivilegeNames |->
  CASE name = "*"         -> {"createsliver", "deletesliver", "sliverstatus", "renewsliver", "shutdown"}
    [] name = "authority" -> {"register", "remove", "update", "resolve", "list", "getcredential", "*"}
    [] name = "refresh"   -> {"remove", "update"}
    [] name = "resolve"   -> {"resolve", "list", "getcredential"}
    [] name = "sa"        -> {"getticket", "redeemslice", "redeemticket", "createslice", "createsliver",
                              "deleteslice", "deletesliver", "updateslice", "getsliceresources",
                              "loanresources", "stopslice", "startslice", "renewsliver", "resetslice",
                              "listslices", "listnodes", "getpolicy", "sliverstatus"}
    [] name = "embed"     -> {"getticket", "redeemslice", "redeemticket", "createslice", "createsliver",
                              "renewsliver", "deleteslice", "deletesliver", "updateslice",
                              "sliverstatus", "getsliceresources", "shutdown"}
    [] name = "bind"      -> {"getticket", "loanresources", "redeemticket"}
    [] name = "control"   -> {"updateslice", "createslice", "createsliver", "renewsliver", "sliverstatus",
                              "stopslice", "startslice", "deleteslice", "deletesliver", "resetslice",
                              "getsliceresources", "getgids"}
    [] name = "info"      -> {"listslices", "listnodes", "getpolicy"}
    [] name = "ma"        -> {"setbootstate", "getbootstate", "reboot", "getgids", "gettrustedcerts"}
    [] name = "operator"  -> {"gettrustedcerts", "getgids"}]

Right == [kind : DOMAIN Privileges, delegate : BOOLEAN]

\* The rights of an object's own kind; slices and authorities as the registry
\* gives them to those related to them.
KindRights(kind) ==
  CASE kind = "user"      -> {"refresh", "resolve", "info"}
    [] kind = "slice"     -> {"refresh", "embed", "bind", "control", "info"}
    [] kind = "authority" -> {"authority", "sa"}
    [] kind = "node"      -> {"operator"}

Allowed(right) == Privileges[right.kind]

Unlimited(right) == "*" \in Allowed(right)

\* Right.can_perform
RightPerforms(right, op) == Unlimited(right) \/ op \in Allowed(right)

\* Right.is_superset
RightCovers(right, child) ==
  /\ right.delegate
  /\ Unlimited(right) \/ Allowed(child) \subseteq Allowed(right)

\* Rights.can_perform
CanPerform(rights, op) == \E right \in rights : RightPerforms(right, op)

\* Rights.is_superset
Covers(rights, children) == \A child \in children : \E right \in rights : RightCovers(right, child)
=============================================================================
