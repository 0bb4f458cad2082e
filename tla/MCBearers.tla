----------------------------- MODULE MCBearers -----------------------------
(***************************************************************************)
(* Bearers on small instances: up to two sessions, which may come to share *)
(* an address, and requests drawn from a few shapes.                       *)
(***************************************************************************)
EXTENDS Bearers, TLC

Filt(p, up, fs, kept) == [prec |-> p, up |-> up, flows |-> fs, kept |-> kept]

Voice  == Filt(1, TRUE, {"voice"}, {"voice"})
ByTos  == Filt(2, TRUE, {"data"}, {"voice", "data"})
Lowest == Filt(255, TRUE, {"data"}, {"data"})
Down   == Filt(0, FALSE, {"voice", "data"}, {"voice", "data"})

Raw(op, fs) == [op |-> op, filters |-> fs]
Create(cs) == [type |-> "create", contexts |-> cs]
Context(e, raw) == [ebi |-> e, raw |-> raw]

Offers ==
  {Create(<<Context(0, Raw("create", {Voice, Down})), Context(6, Raw("create", {ByTos}))>>),
   Create(<<Context(0, Raw("malformed", {}))>>),
   [type |-> "update", ebi |-> 6, raw |-> Raw("add", {Lowest, Voice, ByTos})],
   [type |-> "delete", ebi |-> 6],
   [type |-> "delete", ebi |-> 5]}

Flows == {"voice", "data"}
Symmetry == Permutations(TEID) \cup Permutations(PAA) \cup Permutations(Session)
=============================================================================
