--------------------------- MODULE MCIngressRules ---------------------------
(* Bounded instances of IngressRules. *)
EXTENDS IngressRules, TLC

CONSTANTS app, external

Rule(protocol, port, target) == [protocol |-> protocol, port |-> port, target |-> target]

(* Two rules that share a backend, and two that share a port of different modes. *)
SharedInputs == {Rule("http", 80, app), Rule("https", 443, app)}
MixedInputs  == {Rule("http", 8080, app), Rule("tcp", 8080, app), Rule("udp", 8080, external)}

Symmetry == Permutations(Proxies) \cup Permutations(Workers)

(* Bound: behaviors in which things go wrong in more than one way are cut. *)
OneKindOfTrouble == Cardinality(trouble) <= 1

(* Bound: so are those that ask for a redirect, or its end, before the last is done, *)
(* which halves the states. The theorem of the redirect has no such bound.           *)
OneRedirectAtATime ==
  Cardinality({t \in queued : t.kind = "redirect"})
    + Cardinality({r \in Resolvers : request[r].task.kind = "redirect"})
    + Cardinality({w \in Workers : worker[w].task.kind = "redirect"}) <= 1
=============================================================================
